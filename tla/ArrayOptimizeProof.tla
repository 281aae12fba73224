------------------------- MODULE ArrayOptimizeProof -------------------------
(***************************************************************************)
(* What the array optimization keeps for every list of data and tag arrays *)
(* and every pair of constraints: the types, the ownership of the results' *)
(* memory, that without a tag array the searches only ever get faster, and *)
(* that a solution found is returned.                                      *)
(***************************************************************************)
EXTENDS ArrayOptimize, TLAPS, WellFoundedInduction

LEMMA Numbers == throughput \in Nat \ {0} /\ latency \in Nat \ {0} /\ Big \in Nat \ {0}
  BY ArrayAssumption

-----------------------------------------------------------------------------
(* The search. *)

(* A set of numbers that is not empty has a least one. *)
LEMMA LeastExists ==
    ASSUME NEW S, S \subseteq Nat, S # {}
    PROVE  LeastOf(S) \in S /\ \A y \in S : LeastOf(S) <= y
  <1>1. PICK x \in S : \A y \in S : ~ (<<y, x>> \in OpToRel(<, Nat))
    BY NatLessThanWellFounded, WFMin, Zenon
  <1>2. \A y \in S : ~ (y < x)
    BY <1>1 DEF OpToRel
  <1>3. \A y \in S : x <= y
    BY <1>2
  <1> QED
    BY <1>3 DEF LeastOf

(* One that is bounded has a greatest one: the least distance to the bound *)
(* is that of the greatest.                                                *)
LEMMA GreatestExists ==
    ASSUME NEW n \in Nat, NEW S, S \subseteq 1 .. n, S # {}
    PROVE  GreatestOf(S) \in S
  <1> DEFINE D == {n - x : x \in S}
  <1>1. D \subseteq Nat /\ D # {}
    <2>1. \A x \in S : x \in Nat /\ n - x \in Nat
      OBVIOUS
    <2> QED
      BY <2>1
  <1>2. LeastOf(D) \in D /\ \A y \in D : LeastOf(D) <= y
    BY ONLY <1>1, LeastExists
  <1>3. PICK x \in S : LeastOf(D) = n - x
    BY <1>2
  <1>4. \A y \in S : y <= x
    <2> SUFFICES ASSUME NEW y \in S PROVE y <= x
      OBVIOUS
    <2>1. n - x <= n - y
      BY <1>2, <1>3
    <2> QED
      BY <2>1
  <1> QED
    BY <1>4 DEF GreatestOf

LEMMA ProductType ==
    ASSUME NEW a \in Nat, NEW b \in Nat
    PROVE  a * b \in Nat
  OBVIOUS

OrgList(l) == l \in Seq(Organization) /\ l # <<>>

LEMMA ListElements ==
    ASSUME NEW l, OrgList(l)
    PROVE  /\ DOMAIN l # {} /\ DOMAIN l \subseteq Nat
           /\ \A i \in DOMAIN l : /\ l[i] \in Organization
                                  /\ l[i].cycle \in Nat \ {0}
                                  /\ l[i].access \in Nat \ {0}
                                  /\ l[i].dynamic \in 1 .. Big - 1
  <1>1. DOMAIN l = 1 .. Len(l) /\ Len(l) \in Nat /\ Len(l) # 0
    BY DEF OrgList
  <1>2. \A i \in DOMAIN l : l[i] \in Organization
    BY DEF OrgList
  <1>3. \A o \in Organization : /\ o.cycle \in Nat \ {0} /\ o.access \in Nat \ {0}
                                /\ o.dynamic \in 1 .. Big - 1
    BY DEF Organization
  <1>4. \A i \in DOMAIN l : /\ l[i] \in Organization /\ l[i].cycle \in Nat \ {0}
                           /\ l[i].access \in Nat \ {0} /\ l[i].dynamic \in 1 .. Big - 1
    BY <1>2, <1>3
  <1>5. DOMAIN l # {} /\ DOMAIN l \subseteq Nat
    BY <1>1
  <1> QED
    BY ONLY <1>4, <1>5

(* The least value of a metric is that of some organization. *)
LEMMA LeastMetric ==
    ASSUME NEW l, OrgList(l), NEW m \in {"cycle", "access", "dynamic"}
    PROVE  /\ Least(l, m) \in Nat
           /\ \A i \in DOMAIN l : Least(l, m) <= l[i][m]
           /\ \E i \in DOMAIN l : l[i][m] = Least(l, m)
  <1> DEFINE S == {l[i][m] : i \in DOMAIN l}
  <1>1. \A i \in DOMAIN l : l[i][m] \in Nat
    BY ListElements, Numbers
  <1>2. S \subseteq Nat /\ S # {}
    BY <1>1, ListElements
  <1>3. Least(l, m) = LeastOf(S)
    BY DEF Least
  <1> HIDE DEF S
  <1>4. Least(l, m) \in S /\ \A y \in S : Least(l, m) <= y
    BY ONLY <1>2, <1>3, LeastExists
  <1> QED
    BY ONLY <1>2, <1>4 DEF S

LEMMA CostType ==
    ASSUME NEW l, OrgList(l), NEW i \in DOMAIN l
    PROVE  Cost(l, i) \in Nat
  <1> DEFINE a == l[i].access  c == l[i].cycle  e == l[i].dynamic
             la == Least(l, "access")  lc == Least(l, "cycle")  le == Least(l, "dynamic")
  <1>1. a \in Nat /\ c \in Nat /\ e \in Nat
    BY ListElements, Numbers
  <1>2. la \in Nat /\ lc \in Nat /\ le \in Nat
    BY LeastMetric
  <1>3. Cost(l, i) = 100 * a * lc * le + 1000 * c * la * le + 10 * e * la * lc
    BY DEF Cost
  <1> HIDE DEF a, c, e, la, lc, le
  <1>4. 100 * a \in Nat /\ 1000 * c \in Nat /\ 10 * e \in Nat
    BY ONLY <1>1
  <1>5. 100 * a * lc \in Nat /\ 1000 * c * la \in Nat /\ 10 * e * la \in Nat
    BY ONLY <1>4, <1>2, ProductType
  <1>6. 100 * a * lc * le \in Nat /\ 1000 * c * la * le \in Nat /\ 10 * e * la * lc \in Nat
    BY ONLY <1>5, <1>2, ProductType
  <1> QED
    BY ONLY <1>3, <1>6

(* Some organization is the least costly within the deviation: the fastest *)
(* is always within it.                                                    *)
LEMMA SomePicked ==
    ASSUME NEW l, OrgList(l), NEW dev \in Nat
    PROVE  Picks(l, dev) # {} /\ Picks(l, dev) \subseteq DOMAIN l
  <1> DEFINE costs == {Cost(l, i) : i \in Within(l, dev)}
  <1>1. PICK f \in DOMAIN l : l[f].cycle = Least(l, "cycle")
    BY LeastMetric
  <1>2. f \in Within(l, dev)
    <2>1. Least(l, "cycle") \in Nat
      BY LeastMetric
    <2>2. dev * Least(l, "cycle") \in Nat
      BY <2>1, ProductType
    <2>3. (l[f].cycle - Least(l, "cycle")) * 100 = 0
      BY <2>1, <1>1
    <2> QED
      BY <2>2, <2>3 DEF WithinDev, Within
  <1>3. costs \subseteq Nat /\ costs # {}
    BY <1>2, CostType DEF Within
  <1>4. LeastOf(costs) \in costs /\ \A y \in costs : LeastOf(costs) <= y
    BY ONLY <1>3, LeastExists
  <1>5. PICK x \in Within(l, dev) : Cost(l, x) = LeastOf(costs)
    BY ONLY <1>4
  <1>6. x \in Picks(l, dev)
    BY ONLY <1>4, <1>5 DEF Picks
  <1> QED
    BY <1>6 DEF Picks, Within

(* The search returns the first least costly organization within the       *)
(* deviation.                                                              *)
LEMMA FirstPicked ==
    ASSUME NEW l, OrgList(l), NEW dev \in Nat
    PROVE  \E s \in DOMAIN l :
              /\ PickOf(l, dev) = l[s] /\ WithinDev(l, s, dev)
              /\ \A j \in DOMAIN l : WithinDev(l, j, dev) =>
                    /\ Cost(l, s) <= Cost(l, j)
                    /\ Cost(l, j) <= Cost(l, s) => s <= j
  <1> DEFINE s == LeastOf(Picks(l, dev))
  <1>1. Picks(l, dev) \subseteq Nat /\ Picks(l, dev) # {}
    BY SomePicked, ListElements
  <1>2. s \in Picks(l, dev) /\ \A y \in Picks(l, dev) : s <= y
    BY ONLY <1>1, LeastExists
  <1>3. s \in DOMAIN l /\ WithinDev(l, s, dev) /\ PickOf(l, dev) = l[s]
    BY <1>2 DEF Picks, Within, PickOf
  <1> HIDE DEF s
  <1>4. ASSUME NEW j \in DOMAIN l, WithinDev(l, j, dev)
        PROVE  /\ Cost(l, s) <= Cost(l, j)
               /\ Cost(l, j) <= Cost(l, s) => s <= j
    <2>1. j \in Within(l, dev)
      BY <1>4 DEF Within
    <2>2. Cost(l, s) <= Cost(l, j)
      BY <1>2, <2>1 DEF Picks
    <2>3. ASSUME Cost(l, j) <= Cost(l, s) PROVE s <= j
      <3>1. \A k \in Within(l, dev) : Cost(l, s) <= Cost(l, k)
        BY <1>2 DEF Picks
      <3>2. \A k \in Within(l, dev) : Cost(l, k) \in Nat
        BY CostType DEF Within
      <3>3. Cost(l, j) \in Nat /\ Cost(l, s) \in Nat
        BY <1>3, CostType
      <3>4. \A k \in Within(l, dev) : Cost(l, j) <= Cost(l, k)
        BY ONLY <2>3, <3>1, <3>2, <3>3
      <3>5. j \in Picks(l, dev)
        BY <2>1, <3>4 DEF Picks
      <3> QED
        BY <1>2, <3>5
    <2> QED
      BY <2>2, <2>3
  <1> QED
    BY <1>3, <1>4

(* With the same list a tighter bound finds the same organization or a     *)
(* faster one.  What the wider bound found is either still within the      *)
(* tighter one, and then it is still the first least costly, or it is      *)
(* slower than all within it.                                              *)
LEMMA TighterIsFaster ==
    ASSUME NEW l, OrgList(l), NEW wide \in Nat, NEW tight \in Nat, tight <= wide
    PROVE  PickOf(l, tight).cycle <= PickOf(l, wide).cycle
  <1> DEFINE c == Least(l, "cycle")
  <1>0. PICK w \in DOMAIN l :
              /\ PickOf(l, wide) = l[w] /\ WithinDev(l, w, wide)
              /\ \A j \in DOMAIN l : WithinDev(l, j, wide) =>
                    /\ Cost(l, w) <= Cost(l, j)
                    /\ Cost(l, j) <= Cost(l, w) => w <= j
    BY FirstPicked
  <1>t. PICK t \in DOMAIN l :
              /\ PickOf(l, tight) = l[t] /\ WithinDev(l, t, tight)
              /\ \A j \in DOMAIN l : WithinDev(l, j, tight) =>
                    /\ Cost(l, t) <= Cost(l, j)
                    /\ Cost(l, j) <= Cost(l, t) => t <= j
    BY FirstPicked
  <1>1. c \in Nat
    BY LeastMetric
  <1>2. l[w].cycle \in Nat /\ l[t].cycle \in Nat
    BY ListElements
  <1>3. tight * c \in Nat /\ wide * c \in Nat /\ (wide - tight) * c \in Nat
    <2>1. wide - tight \in Nat
      OBVIOUS
    <2> QED
      BY ONLY <1>1, <2>1, ProductType, tight \in Nat, wide \in Nat
  <1>4. tight * c <= wide * c
    <2>1. wide * c - tight * c = (wide - tight) * c
      BY ONLY <1>1, wide \in Nat, tight \in Nat
    <2> QED
      BY ONLY <1>3, <2>1
  <1>5. (l[t].cycle - c) * 100 <= tight * c
    BY <1>t DEF WithinDev
  <1>6. CASE WithinDev(l, w, tight)
    <2>1. WithinDev(l, t, wide)
      BY <1>1, <1>2, <1>3, <1>4, <1>5 DEF WithinDev
    <2>2. Cost(l, t) <= Cost(l, w) /\ (Cost(l, w) <= Cost(l, t) => t <= w)
      BY ONLY <1>6, <1>t
    <2>3. Cost(l, w) <= Cost(l, t) /\ (Cost(l, t) <= Cost(l, w) => w <= t)
      BY ONLY <2>1, <1>0
    <2>4. t \in Nat /\ w \in Nat
      BY ListElements
    <2>5. t = w
      BY ONLY <2>2, <2>3, <2>4
    <2> QED
      BY <2>5, <1>0, <1>t, <1>2
  <1>7. CASE ~ WithinDev(l, w, tight)
    <2>1. ~ ((l[w].cycle - c) * 100 <= tight * c)
      BY <1>7 DEF WithinDev
    <2> DEFINE x == l[w].cycle  y == l[t].cycle  p == tight * c
    <2>2. x \in Nat /\ y \in Nat /\ c \in Nat /\ p \in Nat
             /\ (y - c) * 100 <= p /\ ~ ((x - c) * 100 <= p)
      BY <2>1, <1>1, <1>2, <1>3, <1>5
    <2> HIDE DEF x, y, p, c
    <2>3. y <= x
      BY ONLY <2>2
    <2> QED
      BY <2>3, <1>0, <1>t DEF x, y
  <1> QED
    BY <1>6, <1>7

\* What is known of the arrays; they never change.
ArraysOK == \E a \in Arrays : list = a.data /\ tags = a.tag

LEMMA ArraysType ==
    ASSUME ArraysOK
    PROVE  /\ OrgList(list) /\ tags \in Seq(Organization)
           /\ \A m \in DOMAIN tags, n \in DOMAIN list :
                 tags[m].dynamic + list[n].dynamic < Big
  <1>1. PICK a \in Arrays : list = a.data /\ tags = a.tag
    BY DEF ArraysOK
  <1>2. /\ a.data \in Seq(Organization) /\ a.data # <<>> /\ a.tag \in Seq(Organization)
        /\ \A m \in DOMAIN a.tag, n \in DOMAIN a.data :
              a.tag[m].dynamic + a.data[n].dynamic < Big
    BY ArrayAssumption
  <1> QED
    BY <1>1, <1>2 DEF OrgList

(* A tag and a data array make an organization, in every access mode. *)
LEMMA CombinedType ==
    ASSUME NEW t \in Organization, NEW d \in Organization, t.dynamic + d.dynamic < Big
    PROVE  Combined(t, d) \in Organization
  <1>1. /\ t.cycle \in Nat \ {0} /\ t.access \in Nat \ {0} /\ t.dynamic \in 1 .. Big - 1
        /\ d.cycle \in Nat \ {0} /\ d.access \in Nat \ {0} /\ d.dynamic \in 1 .. Big - 1
        /\ d.efficiency \in Nat
    BY DEF Organization
  <1> DEFINE access == CASE access_mode = 2 -> Max2(t.access, d.access)
                         [] access_mode = 1 -> t.access + d.access
                         [] OTHER -> Max2(t.access + 1, d.access - 1) + 1
  <1>2. Max2(t.cycle, d.cycle) \in Nat \ {0}
    BY <1>1 DEF Max2
  <1>3. access \in Nat \ {0}
    <2>1. /\ Max2(t.access, d.access) \in Nat \ {0} /\ t.access + d.access \in Nat \ {0}
          /\ Max2(t.access + 1, d.access - 1) + 1 \in Nat \ {0}
      BY <1>1 DEF Max2
    <2>2. CASE access_mode = 2
      BY <2>1, <2>2
    <2>3. CASE access_mode = 1
      BY <2>1, <2>3
    <2>4. CASE access_mode # 2 /\ access_mode # 1
      BY <2>1, <2>4
    <2> QED
      BY <2>2, <2>3, <2>4
  <1>4. t.dynamic + d.dynamic \in 1 .. Big - 1
    BY <1>1, Numbers
  <1>5. Combined(t, d) = [cycle |-> Max2(t.cycle, d.cycle), access |-> access,
                          dynamic |-> t.dynamic + d.dynamic, efficiency |-> d.efficiency]
    BY DEF Combined
  <1> HIDE DEF access
  <1> QED
    BY <1>1, <1>2, <1>3, <1>4, <1>5 DEF Organization

(* Every search finds an organization. *)
LEMMA SearchType ==
    ASSUME ArraysOK, NEW dev \in Nat
    PROVE  OrgList(Organizations(dev)) /\ Search(dev) \in Organization
  <1>1. OrgList(Organizations(dev))
    <2>1. CASE tags = <<>>
      BY <2>1, ArraysType DEF Organizations
    <2>2. CASE tags # <<>>
      <3>1. OrgList(tags) /\ OrgList(list)
        BY <2>2, ArraysType DEF OrgList
      <3>2. Picks(tags, dev) \subseteq 1 .. Len(tags) /\ Picks(tags, dev) # {} /\ Len(tags) \in Nat
        <4>1. tags \in Seq(Organization)
          BY <3>1 DEF OrgList
        <4>2. DOMAIN tags = 1 .. Len(tags) /\ Len(tags) \in Nat
          BY ONLY <4>1
        <4>3. Picks(tags, dev) # {} /\ Picks(tags, dev) \subseteq DOMAIN tags
          BY <3>1, SomePicked
        <4> QED
          BY ONLY <4>2, <4>3
      <3> DEFINE m == GreatestOf(Picks(tags, dev))
      <3>3. m \in DOMAIN tags
        BY ONLY <3>1, <3>2, GreatestExists DEF OrgList
      <3>4. TagArray(dev) = tags[m]
        BY DEF TagArray
      <3> HIDE DEF m
      <3>5. \A i \in DOMAIN list : Combined(tags[m], list[i]) \in Organization
        BY <3>1, <3>3, ListElements, ArraysType, CombinedType
      <3>6. Organizations(dev) = [i \in 1 .. Len(list) |-> Combined(tags[m], list[i])]
        BY <2>2, <3>1, <3>4 DEF Organizations, OrgList
      <3>7. Len(list) \in Nat \ {0} /\ DOMAIN list = 1 .. Len(list)
        BY <3>1 DEF OrgList
      <3>8. Organizations(dev) \in Seq(Organization)
        BY ONLY <3>5, <3>6, <3>7, SMT
      <3>9. Organizations(dev) # <<>>
        BY <3>6, <3>7
      <3> QED
        BY <3>8, <3>9 DEF OrgList
    <2> QED
      BY <2>1, <2>2
  <1>2. \E s \in DOMAIN Organizations(dev) : Search(dev) = Organizations(dev)[s]
    BY <1>1, FirstPicked DEF Search
  <1> QED
    BY <1>1, <1>2, ListElements

LEMMA FirstType ==
    ASSUME ArraysOK
    PROVE  Firsts \subseteq Organization
  <1>1. CASE tags = <<>>
    BY <1>1, ArraysType, ListElements DEF Firsts
  <1>2. CASE tags # <<>>
    <2>1. OrgList(tags) /\ OrgList(list)
      BY <1>2, ArraysType DEF OrgList
    <2>2. \A t \in DOMAIN tags, i \in DOMAIN list : Combined(tags[t], list[i]) \in Organization
      BY <2>1, ListElements, ArraysType, CombinedType
    <2> QED
      BY <1>2, <2>2 DEF Firsts
  <1> QED
    BY <1>1, <1>2

LEMMA Measures ==
    ASSUME NEW o \in Organization
    PROVE  o.cycle \in Nat /\ o.access \in Nat /\ o.dynamic \in 1 .. Big - 1
  BY DEF Organization
-----------------------------------------------------------------------------
(* The types.  The deviation goes down in tens, so it ends at 20 exactly.  *)

Devs == {20, 30, 40, 50, 60, 70, 80, 90, 100}
TypeInv == TypeOK /\ cycle_time_dev \in Devs /\ ArraysOK

LEMMA TypeInit == Init => TypeInv
  <1> SUFFICES ASSUME Init PROVE TypeInv
    OBVIOUS
  <1>0. ArraysOK
    BY DEF Init, ArraysOK
  <1>1. /\ list \in Seq(Organization) /\ list # <<>> /\ tags \in Seq(Organization)
        /\ first \in Organization /\ access_mode \in 0 .. 2
    BY <1>0, ArraysType, FirstType DEF Init, OrgList
  <1>2. cycle_time_dev = 100
    BY DEF Init, cycle_time_dev_start
  <1>3. local_result \in Results /\ candidate_solutions \in Seq(Results)
    BY <1>1 DEF Init, Results, NoHandle
  <1>4. min_dynamic_energy \in 1 .. Big
    BY Numbers DEF Init
  <1>5. /\ candidate \in Nat \ {0} /\ live \subseteq Nat
        /\ found \subseteq Organization /\ warned \subseteq {"throughput", "latency"}
        /\ pc \in {"first", "prepare", "loop", "choose", "done"} /\ assoc \in {0, 1}
    BY DEF Init
  <1>6. /\ twice \in BOOLEAN /\ valid \in BOOLEAN /\ throughput_overflow \in BOOLEAN
        /\ latency_overflow \in BOOLEAN /\ power_gating \in BOOLEAN /\ opt \in BOOLEAN
    BY DEF Init
  <1>7. cycle_time_dev \in Devs /\ cycle_time_dev \in optimization_end .. cycle_time_dev_start
    BY <1>2 DEF Devs, optimization_end, cycle_time_dev_start
  <1> QED
    BY ONLY <1>0, <1>1, <1>3, <1>4, <1>5, <1>6, <1>7 DEF TypeInv, TypeOK

LEMMA HandleType ==
    ASSUME NEW n \in Nat
    PROVE  Handle(n) \in Nat /\ Allocated(Handle(n)) \subseteq Nat
  BY DEF Handle, Allocated, NoHandle

LEMMA NextDev ==
    ASSUME NEW dev \in Devs, dev > 20
    PROVE  dev - 10 \in Devs /\ dev - 10 \in 20 .. 100
  BY DEF Devs

LEMMA TypeIterate ==
    ASSUME TypeInv, Iterate
    PROVE  TypeInv'
  <1> DEFINE o == Search(cycle_time_dev)  h == Handle(cycle_time_dev)
             res == [org |-> o, handle |-> h]
             all == live \cup Allocated(h)
  <1>1. UNCHANGED <<list, tags, access_mode, first, assoc, power_gating, opt, pc, valid,
                    candidate, min_dynamic_energy, warned>>
    BY DEF Iterate, input
  <1>2. ArraysOK /\ cycle_time_dev \in Nat /\ cycle_time_dev > 20
    BY DEF TypeInv, Iterate, Looping, optimization_end, Devs
  <1>3. o \in Organization
    BY <1>2, SearchType
  <1>4. h \in Nat /\ Allocated(h) \subseteq Nat
    BY <1>2, HandleType
  <1>5. res \in Results /\ [res EXCEPT !.handle = NoHandle] \in Results
    BY <1>3, <1>4 DEF Results, NoHandle
  <1>6. cycle_time_dev' \in Devs /\ cycle_time_dev' \in optimization_end .. cycle_time_dev_start
    <2>1. cycle_time_dev' = cycle_time_dev - 10
      BY DEF Iterate, Tighter
    <2> QED
      BY <2>1, <1>2, NextDev DEF TypeInv, optimization_end, cycle_time_dev_start
  <1>7. found' \subseteq Organization
    BY <1>3 DEF Iterate, TypeInv, TypeOK
  <1>8. local_result' \in Results /\ candidate_solutions' \in Seq(Results)
    <2> candidate_solutions \in Seq(Results)
      BY DEF TypeInv, TypeOK
    <2>1. CASE Kept(o)
      <3>1. local_result' = res /\ candidate_solutions' = Append(candidate_solutions, res)
        BY <2>1 DEF Iterate
      <3> HIDE DEF res
      <3> QED
        BY ONLY <3>1, <1>5, candidate_solutions \in Seq(Results)
    <2>2. CASE ~ Kept(o)
      <3>1. local_result' \in {res, [res EXCEPT !.handle = NoHandle]}
               /\ candidate_solutions' = candidate_solutions
        BY <2>2 DEF Iterate
      <3> QED
        BY <3>1, <1>5
    <2> QED
      BY <2>1, <2>2
  <1>9. throughput_overflow' \in BOOLEAN /\ latency_overflow' \in BOOLEAN
    <2>1. CASE Kept(o)
      BY <2>1 DEF Iterate, TypeInv, TypeOK
    <2>2. CASE ~ Kept(o)
      BY <2>2 DEF Iterate, TypeInv, TypeOK
    <2> QED
      BY <2>1, <2>2
  <1>10. live' \subseteq Nat /\ twice' \in BOOLEAN
    <2>1. all \subseteq Nat
      BY <1>4 DEF TypeInv, TypeOK
    <2>2. CASE live' = all /\ twice' = twice
      BY <2>1, <2>2 DEF TypeInv, TypeOK
    <2>3. CASE Cleanup(h, all)
      BY <2>1, <2>3 DEF Cleanup, TypeInv, TypeOK
    <2> QED
      BY <2>2, <2>3 DEF Iterate
  <1>11. ArraysOK'
    BY <1>1, <1>2 DEF ArraysOK
  <1> QED
    BY <1>1, <1>6, <1>7, <1>8, <1>9, <1>10, <1>11 DEF TypeInv, TypeOK

LEMMA TypeNext == TypeInv /\ [Next]_vars => TypeInv'
  <1> SUFFICES ASSUME TypeInv, [Next]_vars PROVE TypeInv'
    OBVIOUS
  <1> USE DEF TypeInv
  <1>0. UNCHANGED <<list, tags>> => ArraysOK'
    BY DEF ArraysOK
  <1>1. CASE First
    <2>1. UNCHANGED <<list, tags, access_mode, first, assoc, power_gating, opt,
                      cycle_time_dev, valid, candidate_solutions, candidate,
                      min_dynamic_energy, warned, twice, found>>
      BY <1>1 DEF First, input, choice
    <2>2. Handle(1) \in Nat /\ Allocated(Handle(1)) \subseteq Nat
      BY HandleType
    <2>3. local_result' \in Results /\ live' \subseteq Nat
      BY <1>1, <2>2 DEF First, Results, TypeOK
    <2> QED
      BY <1>0, <1>1, <2>1, <2>3 DEF First, TypeOK
  <1>2. CASE Prepare
    <2>1. UNCHANGED <<list, tags, access_mode, first, assoc, power_gating, opt,
                      cycle_time_dev, valid, candidate_solutions, candidate,
                      min_dynamic_energy, warned, found>>
      BY <1>2 DEF Prepare, input, choice
    <2>2. local_result' \in Results
      <3>1. [local_result EXCEPT !.handle = NoHandle] \in Results /\ local_result \in Results
        BY DEF TypeOK, Results, NoHandle
      <3>2. local_result' \in {local_result, [local_result EXCEPT !.handle = NoHandle]}
        BY <1>2 DEF Prepare
      <3> QED
        BY ONLY <3>1, <3>2
    <2>3. live' \subseteq Nat /\ twice' \in BOOLEAN
      BY <1>2 DEF Prepare, Cleanup, TypeOK, memory
    <2>4. throughput_overflow' \in BOOLEAN /\ latency_overflow' \in BOOLEAN
      BY <1>2 DEF Prepare, TypeOK, flags
    <2> QED
      BY <1>0, <1>2, <2>1, <2>2, <2>3, <2>4 DEF Prepare, TypeOK
  <1>3. CASE Iterate
    BY <1>3, TypeIterate
  <1>4. CASE Warn
    BY <1>0, <1>4 DEF Warn, TypeOK, input, flags, choice, memory
  <1>5. CASE Choose
    <2>1. UNCHANGED <<list, tags, access_mode, first, assoc, power_gating, opt, pc, cycle_time_dev,
                      throughput_overflow, latency_overflow, valid, warned, found>>
      BY <1>5 DEF Choose, input, flags
    <2>2. candidate \in DOMAIN candidate_solutions /\ candidate' \in Nat \ {0}
      BY <1>5 DEF Choose, TypeOK
    <2>3. Candidate \in Results
      BY <2>2 DEF Candidate, TypeOK
    <2>4. Candidate.org.dynamic \in 1 .. Big
      BY <2>3, Measures, Numbers DEF Results
    <2>5. min_dynamic_energy' \in 1 .. Big /\ local_result' \in Results
      BY <1>5, <2>3, <2>4 DEF Choose, TypeOK
    <2>6. candidate_solutions' \in Seq(Results)
      <3>1. candidate_solutions \in Seq(Results)
        BY DEF TypeOK
      <3>2. [candidate_solutions[candidate] EXCEPT !.handle = NoHandle] \in Results
        BY <2>3 DEF Results, NoHandle, Candidate
      <3>3. \/ candidate_solutions' = candidate_solutions
            \/ candidate_solutions' = [candidate_solutions EXCEPT ![candidate] =
                                         [candidate_solutions[candidate] EXCEPT !.handle = NoHandle]]
        BY <1>5 DEF Choose
      <3> QED
        BY ONLY <3>1, <3>2, <3>3, <2>2
    <2>7. live' \subseteq Nat /\ twice' \in BOOLEAN
      BY <1>5 DEF Choose, Cleanup, TypeOK, memory
    <2> QED
      BY <1>0, <2>1, <2>2, <2>5, <2>6, <2>7 DEF TypeOK
  <1>6. CASE Finish
    BY <1>0, <1>6 DEF Finish, TypeOK, input, flags, memory
  <1>7. CASE UNCHANGED vars
    BY <1>0, <1>7 DEF vars, TypeOK, input, flags, choice, memory
  <1> QED
    BY <1>1, <1>2, <1>3, <1>4, <1>5, <1>6, <1>7 DEF Next, Terminated

(* Every variable of the optimization keeps its type; above all, every     *)
(* search finds an organization of the list, and the deviation stays       *)
(* within the loop's bounds.                                               *)
THEOREM TypeCorrect == Spec => []TypeOK
  <1>1. Spec => []TypeInv
    BY TypeInit, TypeNext, PTL DEF Spec
  <1> QED
    BY <1>1, PTL DEF TypeInv
-----------------------------------------------------------------------------
(* The memory.  Without power gating there is none; with it there is at    *)
(* most one candidate, which is the result: a kept solution meets both     *)
(* constraints (power gating is for set-associative arrays) and so is the  *)
(* last one searched for.                                                  *)

NoMemory ==
    /\ live = {} /\ local_result.handle = NoHandle
    /\ \A n \in DOMAIN candidate_solutions : candidate_solutions[n].handle = NoHandle

OneOwner ==
    /\ assoc # 0
    /\ live = Allocated(local_result.handle)
    /\ pc = "first" => local_result.handle = NoHandle
    /\ pc \in {"first", "prepare"} => candidate_solutions = <<>>
    /\ (pc = "loop" /\ Looping) =>
          local_result.handle = NoHandle /\ candidate_solutions = <<>>
    /\ candidate_solutions # <<>> => candidate_solutions = <<local_result>>

ChoiceInv ==
    /\ candidate = 1 => min_dynamic_energy = Big
    /\ pc \notin {"choose", "done"} => candidate = 1

MemoryInv ==
    /\ ChoiceInv
    /\ twice = FALSE
    /\ power_gating = FALSE => NoMemory
    /\ power_gating = TRUE => OneOwner

LEMMA MemoryInit == Init => MemoryInv
  <1> SUFFICES ASSUME Init PROVE MemoryInv
    OBVIOUS
  <1>1. NoMemory /\ candidate = 1 /\ min_dynamic_energy = Big /\ candidate_solutions = <<>>
    BY DEF Init, NoMemory
  <1>2. power_gating = TRUE => assoc # 0
    BY DEF Init
  <1>3. twice = FALSE /\ pc = "first"
    BY DEF Init
  <1>4. live = Allocated(local_result.handle)
    BY <1>1 DEF NoMemory, Allocated
  <1> QED
    BY <1>1, <1>2, <1>3, <1>4 DEF MemoryInv, ChoiceInv, OneOwner, NoMemory

LEMMA ChoiceNext == TypeInv /\ ChoiceInv /\ [Next]_vars => ChoiceInv'
  <1> SUFFICES ASSUME TypeInv, ChoiceInv, [Next]_vars PROVE ChoiceInv'
    OBVIOUS
  <1>1. CASE Choose
    <2>1. candidate' # 1 /\ pc' = "choose"
      BY <1>1 DEF Choose, TypeInv, TypeOK
    <2> QED
      BY <2>1 DEF ChoiceInv
  <1>2. CASE First \/ Prepare \/ Iterate \/ Warn \/ Finish \/ UNCHANGED vars
    <2>1. UNCHANGED <<candidate, min_dynamic_energy>>
      BY <1>2 DEF First, Prepare, Iterate, Warn, Finish, vars, choice
    <2>2. pc' \notin {"choose", "done"} => pc \notin {"choose", "done"}
      BY <1>2 DEF First, Prepare, Iterate, Warn, Finish, vars
    <2> QED
      BY <2>1, <2>2 DEF ChoiceInv
  <1> QED
    BY <1>1, <1>2 DEF Next, Terminated

\* Without power gating no step allocates or frees.
LEMMA NoMemoryNext ==
    ASSUME TypeInv, NoMemory, twice = FALSE, power_gating = FALSE, [Next]_vars
    PROVE  NoMemory' /\ twice' = FALSE
  <1>1. \A n : Handle(n) = NoHandle /\ Allocated(Handle(n)) = {}
    BY DEF Handle, Allocated
  <1>2. \A old : Cleanup(NoHandle, old) => live' = old \ {NoHandle} /\ twice' = twice
    BY DEF Cleanup, TypeInv, TypeOK
  <1>3. CASE First
    BY <1>1, <1>3 DEF First, NoMemory, choice
  <1>4. CASE Prepare
    <2>1. candidate_solutions' = candidate_solutions /\ local_result'.handle = NoHandle
      BY <1>4 DEF Prepare, NoMemory, choice, TypeInv, TypeOK, Results
    <2>2. live' = {} /\ twice' = FALSE
      BY <1>2, <1>4 DEF Prepare, NoMemory, memory
    <2> QED
      BY <2>1, <2>2 DEF NoMemory
  <1>5. CASE Iterate
    <2> DEFINE o == Search(cycle_time_dev)  h == Handle(cycle_time_dev)
               res == [org |-> o, handle |-> h]
               all == live \cup Allocated(h)
    <2>1. h = NoHandle /\ all = {} /\ res.handle = NoHandle
             /\ [res EXCEPT !.handle = NoHandle].handle = NoHandle
      BY <1>1 DEF NoMemory
    <2>2. candidate_solutions \in Seq(Results)
      BY DEF TypeInv, TypeOK
    <2>3. \/ candidate_solutions' = candidate_solutions
          \/ candidate_solutions' = Append(candidate_solutions, res)
      BY <1>5 DEF Iterate
    <2>4. \A n \in DOMAIN candidate_solutions' : candidate_solutions'[n].handle = NoHandle
      <3> HIDE DEF res
      <3> QED
        BY <2>1, <2>2, <2>3 DEF NoMemory
    <2>5. local_result'.handle = NoHandle
      BY <1>5, <2>1 DEF Iterate
    <2>6. live' = {} /\ twice' = FALSE
      BY <1>2, <1>5, <2>1 DEF Iterate
    <2> QED
      BY <2>4, <2>5, <2>6 DEF NoMemory
  <1>6. CASE Warn
    BY <1>6 DEF Warn, NoMemory, choice, memory
  <1>7. CASE Choose
    <2>1. candidate \in DOMAIN candidate_solutions
      BY <1>7 DEF Choose, TypeInv, TypeOK
    <2>2. Candidate.handle = NoHandle
      BY <2>1 DEF Candidate, NoMemory
    <2>3. local_result' \in {local_result, Candidate}
      BY <1>7 DEF Choose
    <2>4. live' = {} /\ twice' = FALSE
      BY <1>2, <1>7, <2>2 DEF Choose, NoMemory, memory
    <2>5. \/ candidate_solutions' = candidate_solutions
          \/ candidate_solutions' = [candidate_solutions EXCEPT ![candidate] =
                                       [candidate_solutions[candidate] EXCEPT !.handle = NoHandle]]
      BY <1>7 DEF Choose
    <2>6. [candidate_solutions[candidate] EXCEPT !.handle = NoHandle].handle = NoHandle
      BY <2>1 DEF TypeInv, TypeOK, Results
    <2>7. candidate_solutions \in Seq(Results)
      BY DEF TypeInv, TypeOK
    <2>8. \A n \in DOMAIN candidate_solutions' : candidate_solutions'[n].handle = NoHandle
      BY <2>1, <2>5, <2>6, <2>7 DEF NoMemory
    <2> QED
      BY <2>2, <2>3, <2>4, <2>8 DEF NoMemory
  <1>8. CASE Finish
    BY <1>8 DEF Finish, NoMemory, memory
  <1>9. CASE UNCHANGED vars
    BY <1>9 DEF vars, NoMemory, memory, choice
  <1> QED
    BY <1>3, <1>4, <1>5, <1>6, <1>7, <1>8, <1>9 DEF Next, Terminated

\* With power gating the memory is the result's.
LEMMA OneOwnerNext ==
    ASSUME TypeInv, ChoiceInv, OneOwner, twice = FALSE, power_gating = TRUE, [Next]_vars
    PROVE  OneOwner' /\ twice' = FALSE
  <1>1. \A n : Handle(n) = n
    BY DEF Handle
  <1>2. \A h, old : (Cleanup(h, old) /\ (h # NoHandle => h \in old)) =>
                       live' = old \ {h} /\ twice' = FALSE
    BY DEF Cleanup
  <1>3. CASE First
    <2>1. Allocated(local_result.handle) = {}
      BY <1>3 DEF First, OneOwner, Allocated
    <2>2. live' = Allocated(1) /\ local_result'.handle = 1 /\ twice' = FALSE
      BY <1>1, <1>3, <2>1 DEF First, OneOwner
    <2>3. candidate_solutions' = <<>> /\ assoc' = assoc /\ pc' \in {"prepare", "done"}
      BY <1>3 DEF First, OneOwner, choice, input
    <2> QED
      BY <2>2, <2>3 DEF OneOwner, Allocated
  <1>4. CASE Prepare
    <2>1. candidate_solutions' = <<>> /\ assoc' = assoc /\ pc' = "loop"
      BY <1>4 DEF Prepare, OneOwner, choice, input
    <2>2. CASE throughput_overflow \/ latency_overflow
      <3>1. Cleanup(local_result.handle, live) /\ local_result'.handle = NoHandle
        BY <1>4, <2>2 DEF Prepare, TypeInv, TypeOK, Results
      <3>2. live' = live \ {local_result.handle} /\ twice' = FALSE
        BY <1>2, <3>1 DEF OneOwner, Allocated
      <3>3. live' = {}
        BY <3>2 DEF OneOwner, Allocated
      <3> QED
        BY <2>1, <3>1, <3>2, <3>3 DEF OneOwner, Allocated
    <2>3. CASE ~ (throughput_overflow \/ latency_overflow)
      <3>1. UNCHANGED <<local_result, live, twice, throughput_overflow, latency_overflow>>
        BY <1>4, <2>3 DEF Prepare, flags, memory
      <3>2. ~ Looping'
        BY <2>3, <3>1 DEF Looping
      <3> QED
        BY <2>1, <3>1, <3>2 DEF OneOwner
    <2> QED
      BY <2>2, <2>3
  <1>5. CASE Iterate
    <2> DEFINE o == Search(cycle_time_dev)  h == Handle(cycle_time_dev)
               res == [org |-> o, handle |-> h]
               all == live \cup Allocated(h)
    <2>1. local_result.handle = NoHandle /\ candidate_solutions = <<>> /\ live = {}
      BY <1>5 DEF Iterate, OneOwner, Allocated
    <2>2. h # NoHandle /\ all = {h} /\ Allocated(h) = {h} /\ cycle_time_dev \in Devs
      BY <1>1, <2>1 DEF Allocated, TypeInv, Devs, NoHandle
    <2>3. assoc' = assoc /\ assoc # 0 /\ pc' = "loop"
      BY <1>5 DEF Iterate, OneOwner, input
    <2>4. CASE Kept(o)
      <3>1. Meets(o)
        BY <2>3, <2>4 DEF Kept
      <3>2. /\ local_result' = res /\ live' = all /\ twice' = twice
            /\ candidate_solutions' = Append(candidate_solutions, res)
            /\ throughput_overflow' = (throughput_overflow /\ ~ Meets(o))
            /\ latency_overflow' = (latency_overflow /\ ~ Meets(o))
        BY ONLY <1>5, <2>4 DEF Iterate
      <3>3. ~ Looping'
        BY <3>1, <3>2 DEF Looping
      <3>4. candidate_solutions' = <<res>>
        BY <2>1, <3>2
      <3> QED
        BY <2>2, <2>3, <3>2, <3>3, <3>4 DEF OneOwner
    <2>5. CASE ~ Kept(o) /\ NotLast(Tighter(cycle_time_dev))
      <3>1. /\ Cleanup(h, all) /\ local_result'.handle = NoHandle
            /\ candidate_solutions' = <<>>
        BY <1>5, <2>1, <2>5 DEF Iterate
      <3>2. live' = {} /\ twice' = FALSE
        BY <1>2, <2>2, <3>1
      <3> QED
        BY <2>3, <3>1, <3>2 DEF OneOwner, Allocated
    <2>6. CASE ~ Kept(o) /\ ~ NotLast(Tighter(cycle_time_dev))
      <3>1. /\ local_result' = res /\ candidate_solutions' = <<>>
            /\ live' = all /\ twice' = FALSE
        BY <1>5, <2>1, <2>6 DEF Iterate
      <3>2. ~ Looping'
        BY <1>5, <2>6 DEF Iterate, NotLast, Looping
      <3> QED
        BY <2>2, <2>3, <3>1, <3>2 DEF OneOwner
    <2> QED
      BY <2>4, <2>5, <2>6
  <1>6. CASE Warn
    BY <1>6 DEF Warn, OneOwner, choice, memory, input
  <1>7. CASE Choose
    <2>1. candidate \in DOMAIN candidate_solutions
      BY <1>7 DEF Choose, TypeInv, TypeOK
    <2>2. candidate_solutions = <<local_result>>
      BY <2>1 DEF OneOwner
    <2>3. candidate = 1 /\ Candidate = local_result
      BY <2>1, <2>2 DEF Candidate
    <2>4. Cheaper(Candidate.org)
      <3>1. min_dynamic_energy = Big
        BY <2>3 DEF ChoiceInv
      <3>2. Candidate.org \in Organization
        BY <2>3 DEF TypeInv, TypeOK, Results
      <3> QED
        BY <3>1, <3>2, Measures, Numbers DEF Cheaper
    <2>5. /\ UNCHANGED <<candidate_solutions, live, twice, assoc, pc>>
          /\ local_result' = local_result
      BY <1>7, <2>3, <2>4 DEF Choose, memory, input
    <2>6. pc' = "choose"
      BY <1>7, <2>5 DEF Choose
    <2> QED
      BY <2>2, <2>5, <2>6 DEF OneOwner
  <1>8. CASE Finish
    BY <1>8 DEF Finish, OneOwner, memory, input
  <1>9. CASE UNCHANGED vars
    BY <1>9 DEF vars, OneOwner, memory, choice, input, flags, Looping
  <1> QED
    BY <1>3, <1>4, <1>5, <1>6, <1>7, <1>8, <1>9 DEF Next, Terminated

LEMMA MemoryNext == TypeInv /\ MemoryInv /\ [Next]_vars => MemoryInv'
  <1> SUFFICES ASSUME TypeInv, MemoryInv, [Next]_vars PROVE MemoryInv'
    OBVIOUS
  <1>1. power_gating' = power_gating /\ power_gating \in BOOLEAN
    BY DEF Next, First, Prepare, Iterate, Warn, Choose, Finish, Terminated, vars, input,
           TypeInv, TypeOK
  <1>2. ChoiceInv'
    BY ChoiceNext DEF MemoryInv
  <1>3. CASE power_gating = FALSE
    BY <1>1, <1>2, <1>3, NoMemoryNext DEF MemoryInv
  <1>4. CASE power_gating = TRUE
    BY <1>1, <1>2, <1>4, OneOwnerNext DEF MemoryInv
  <1> QED
    BY <1>1, <1>3, <1>4

(* Every power-gated result's memory is freed once, and not while the      *)
(* result or a candidate still uses it.                                    *)
THEOREM MemoryIsOwned == Spec => []MemoryOwned
  <1>1. Spec => [](TypeInv /\ MemoryInv)
    BY TypeInit, TypeNext, MemoryInit, MemoryNext, PTL DEF Spec
  <1>2. TypeInv /\ MemoryInv => MemoryOwned
    <2> SUFFICES ASSUME TypeInv, MemoryInv PROVE MemoryOwned
      OBVIOUS
    <2> DEFINE Candidates == UNION {Allocated(candidate_solutions[n].handle) :
                                      n \in DOMAIN candidate_solutions}
    <2>1. CASE power_gating = FALSE
      <3>1. NoMemory /\ twice = FALSE
        BY <2>1 DEF MemoryInv
      <3>2. Allocated(NoHandle) = {}
        BY DEF Allocated
      <3>3. Candidates = {}
        BY <3>1, <3>2 DEF NoMemory
      <3> QED
        BY <3>1, <3>2, <3>3 DEF NoMemory, MemoryOwned
    <2>2. CASE power_gating = TRUE
      <3>1. OneOwner /\ twice = FALSE
        BY <2>2 DEF MemoryInv
      <3>2. CASE candidate_solutions = <<>>
        BY <3>1, <3>2 DEF OneOwner, MemoryOwned
      <3>3. CASE candidate_solutions = <<local_result>>
        <4>1. Candidates = Allocated(local_result.handle)
          BY <3>3
        <4> QED
          BY <3>1, <4>1 DEF OneOwner, MemoryOwned
      <3> QED
        BY <3>1, <3>2, <3>3 DEF OneOwner
    <2> QED
      BY <2>1, <2>2 DEF TypeInv, TypeOK
  <1> QED
    BY <1>1, <1>2, PTL
-----------------------------------------------------------------------------
(* The timing.  The result of the loop is that of its last search, and no  *)
(* earlier search found a faster one.                                      *)

Fastest == tags = <<>> => \A o \in found : local_result.org.cycle <= o.cycle
Whole   == power_gating = TRUE /\ cycle_time_dev = 20 => local_result.handle # NoHandle
OfLast  == tags = <<>> => local_result.org = PickOf(list, cycle_time_dev + 10)

TimingInv ==
    /\ pc \in {"first", "prepare"} => found = {}
    /\ (pc = "loop" /\ found # {}) => OfLast /\ Fastest /\ Whole
    /\ (pc = "choose" /\ found # {} /\ candidate_solutions = <<>>) => Fastest /\ Whole
    /\ pc = "choose" => (valid = TRUE <=> candidate_solutions # <<>>)
    /\ (pc = "done" /\ found # {} /\ valid = FALSE) => Fastest /\ Whole

LEMMA TimingIterate ==
    ASSUME TypeInv, TimingInv, Iterate
    PROVE  TimingInv'
  <1> DEFINE o == Search(cycle_time_dev)
  <1>1. /\ list' = list /\ tags' = tags /\ power_gating' = power_gating
        /\ pc' = "loop" /\ pc = "loop"
        /\ found' = found \cup {o} /\ cycle_time_dev' = cycle_time_dev - 10
    BY DEF Iterate, input, Tighter
  <1>2. ArraysOK /\ cycle_time_dev \in Devs /\ cycle_time_dev \in Nat
    BY DEF TypeInv, Devs
  <1>3. local_result'.org = o
    BY DEF Iterate
  <1>4. o \in Organization /\ found \subseteq Organization /\ local_result.org \in Organization
    BY <1>2, SearchType DEF TypeInv, TypeOK, Results
  <1>5. tags = <<>> => o = PickOf(list, cycle_time_dev)
    BY DEF Search, Organizations
  <1>6. OfLast'
    <2>1. cycle_time_dev' + 10 = cycle_time_dev
      BY <1>1, <1>2
    <2> HIDE DEF o
    <2> QED
      BY <1>1, <1>3, <1>5, <2>1 DEF OfLast
  <1>8. Fastest'
    <2> SUFFICES ASSUME tags = <<>>, NEW j \in found \cup {o}
                 PROVE  o.cycle <= j.cycle
      BY <1>1, <1>3 DEF Fastest
    <2>1. CASE j = o
      BY <2>1, <1>4, Measures
    <2>2. CASE j \in found
      <3>1. local_result.org = PickOf(list, cycle_time_dev + 10) /\ local_result.org.cycle <= j.cycle
        BY <1>1, <2>2 DEF TimingInv, OfLast, Fastest
      <3>2. OrgList(list)
        BY <1>2, ArraysType
      <3>3. o.cycle <= local_result.org.cycle
        <4>1. cycle_time_dev + 10 \in Nat /\ cycle_time_dev <= cycle_time_dev + 10
          BY <1>2
        <4> HIDE DEF o
        <4> QED
          BY ONLY <1>2, <1>5, <3>1, <3>2, <4>1, TighterIsFaster, tags = <<>>
      <3>4. o.cycle \in Nat /\ local_result.org.cycle \in Nat /\ j.cycle \in Nat
        BY <1>4, <2>2, Measures
      <3> HIDE DEF o
      <3> QED
        BY ONLY <3>1, <3>3, <3>4
    <2> QED
      BY <2>1, <2>2
  <1>7. Whole'
    <2> SUFFICES ASSUME power_gating = TRUE, cycle_time_dev' = 20
                 PROVE  local_result'.handle # NoHandle
      BY <1>1 DEF Whole
    <2>1. Handle(cycle_time_dev) = cycle_time_dev /\ cycle_time_dev # NoHandle
      BY <1>2 DEF Handle, Devs, NoHandle
    <2>2. ~ NotLast(Tighter(cycle_time_dev))
      BY <1>1 DEF NotLast, Tighter, optimization_end
    <2>3. local_result' = [org |-> o, handle |-> Handle(cycle_time_dev)]
      BY <2>2 DEF Iterate
    <2> QED
      BY <2>1, <2>3
  <1> QED
    BY <1>1, <1>6, <1>7, <1>8 DEF TimingInv

LEMMA TimingNext == TypeInv /\ MemoryInv /\ TimingInv /\ [Next]_vars => TimingInv'
  <1> SUFFICES ASSUME TypeInv, MemoryInv, TimingInv, [Next]_vars PROVE TimingInv'
    OBVIOUS
  <1>1. CASE First
    BY <1>1 DEF First, TimingInv
  <1>2. CASE Prepare
    BY <1>2 DEF Prepare, TimingInv
  <1>3. CASE Iterate
    BY <1>3, TimingIterate
  <1>4. CASE Warn
    <2>1. UNCHANGED <<list, tags, power_gating, cycle_time_dev, local_result, found,
                      candidate_solutions>>
      BY <1>4 DEF Warn, input, choice
    <2>2. /\ pc = "loop" /\ pc' = "choose"
          /\ valid' = (candidate_solutions # <<>>)
      BY <1>4 DEF Warn
    <2>3. Fastest' <=> Fastest
      BY <2>1 DEF Fastest
    <2>4. Whole' <=> Whole
      BY <2>1 DEF Whole
    <2> QED
      BY <2>1, <2>2, <2>3, <2>4 DEF TimingInv
  <1>5. CASE Choose
    <2>1. candidate \in DOMAIN candidate_solutions /\ candidate_solutions \in Seq(Results)
      BY <1>5 DEF Choose, TypeInv, TypeOK
    <2>2. pc = "choose" /\ pc' = "choose" /\ valid' = valid
      BY <1>5 DEF Choose
    <2>3. candidate_solutions # <<>> /\ candidate_solutions' # <<>>
      BY <1>5, <2>1 DEF Choose
    <2> QED
      BY <2>2, <2>3 DEF TimingInv
  <1>6. CASE Finish
    <2>1. UNCHANGED <<list, tags, power_gating, cycle_time_dev, local_result, found, valid>>
      BY <1>6 DEF Finish, input
    <2>2. pc = "choose" /\ pc' = "done"
      BY <1>6 DEF Finish
    <2>3. Fastest' <=> Fastest
      BY <2>1 DEF Fastest
    <2>4. Whole' <=> Whole
      BY <2>1 DEF Whole
    <2> QED
      BY <2>1, <2>2, <2>3, <2>4 DEF TimingInv
  <1>7. CASE UNCHANGED vars
    <2>1. UNCHANGED <<list, tags, power_gating, cycle_time_dev, local_result, found,
                      valid, pc, candidate_solutions>>
      BY <1>7 DEF vars, input, choice
    <2>2. Fastest' <=> Fastest
      BY <2>1 DEF Fastest
    <2>3. Whole' <=> Whole
      BY <2>1 DEF Whole
    <2>4. OfLast' <=> OfLast
      BY <2>1 DEF OfLast
    <2> QED
      BY <2>1, <2>2, <2>3, <2>4 DEF TimingInv
  <1> QED
    BY <1>1, <1>2, <1>3, <1>4, <1>5, <1>6, <1>7 DEF Next, Terminated

(* When every search was made in vain, the result of an array without a    *)
(* tag array is the fastest of all that were found, for each tightening of *)
(* the bound on the cycle time finds the same organization or a faster     *)
(* one; and the memory of any result has not been freed.                   *)
THEOREM BestTimingIsLeft == Spec => []BestTimingLeft
  <1>1. Init => TimingInv
    BY DEF Init, TimingInv
  <1>2. Spec => [](TypeInv /\ MemoryInv /\ TimingInv)
    BY <1>1, TypeInit, TypeNext, MemoryInit, MemoryNext, TimingNext, PTL DEF Spec
  <1>3. TypeInv /\ MemoryInv /\ TimingInv => BestTimingLeft
    <2> SUFFICES ASSUME TypeInv, MemoryInv, TimingInv, pc = "done", found # {}, ~ valid,
                        cycle_time_dev = optimization_end
                 PROVE  /\ tags = <<>> => \A o \in found : local_result.org.cycle <= o.cycle
                        /\ local_result.handle # NoHandle <=> power_gating
      BY DEF BestTimingLeft
    <2>1. Fastest /\ Whole
      BY DEF TimingInv, TypeInv, TypeOK
    <2>2. power_gating = FALSE => local_result.handle = NoHandle
      BY DEF MemoryInv, NoMemory
    <2>3. power_gating = TRUE => local_result.handle # NoHandle
      BY <2>1 DEF Whole, optimization_end
    <2>4. power_gating \in BOOLEAN
      BY DEF TypeInv, TypeOK
    <2> QED
      BY <2>1, <2>2, <2>3, <2>4 DEF Fastest
  <1> QED
    BY <1>2, <1>3, PTL
-----------------------------------------------------------------------------
(* What was found.  The candidates are the solutions kept; once one meets  *)
(* both constraints nothing is left to warn of; and the choice runs        *)
(* through the candidates for the least dynamic energy.                    *)

CandidatesKept ==
    /\ \A n \in DOMAIN candidate_solutions :
          candidate_solutions[n].org \in found /\ Kept(candidate_solutions[n].org)
    /\ \A o \in found : Kept(o) =>
          \E n \in DOMAIN candidate_solutions : candidate_solutions[n].org = o

LeastSoFar ==
    /\ \A n \in DOMAIN candidate_solutions : n < candidate =>
          min_dynamic_energy <= candidate_solutions[n].org.dynamic
    /\ (candidate > 1 /\ candidate_solutions # <<>>) =>
          \E n \in DOMAIN candidate_solutions :
             /\ local_result.org = candidate_solutions[n].org
             /\ min_dynamic_energy = local_result.org.dynamic

Returned ==
    (\E o \in found : Kept(o)) =>
        /\ valid = TRUE /\ local_result.org \in found /\ Kept(local_result.org)
        /\ \A o \in found : Kept(o) => local_result.org.dynamic <= o.dynamic

SomeMeets == \E o \in found : Meets(o)

FoundInv ==
    /\ pc \in {"first", "prepare"} => found = {} /\ candidate_solutions = <<>>
    /\ pc \in {"loop", "choose"} => CandidatesKept
    /\ (pc = "loop" /\ SomeMeets) =>
          throughput_overflow = FALSE /\ latency_overflow = FALSE
    /\ (pc \in {"choose", "done"} /\ SomeMeets) => warned = {}
    /\ pc = "choose" => LeastSoFar /\ (valid = TRUE <=> candidate_solutions # <<>>)
    /\ pc = "done" => Returned

LEMMA SameJudgement ==
    ASSUME UNCHANGED assoc, NEW o
    PROVE  Kept(o)' = Kept(o) /\ Meets(o)' = Meets(o)
  BY DEF Kept, Meets, MeetsThroughput, MeetsLatency

LEMMA FoundIterate ==
    ASSUME TypeInv, FoundInv, Iterate
    PROVE  FoundInv'
  <1> DEFINE o   == Search(cycle_time_dev)
             res == [org |-> o, handle |-> Handle(cycle_time_dev)]
  <1>1. /\ list' = list /\ assoc' = assoc /\ pc' = "loop" /\ pc = "loop"
        /\ found' = found \cup {o}
    BY DEF Iterate, input
  <1>2. candidate_solutions \in Seq(Results)
    BY DEF TypeInv, TypeOK
  <1>3. CandidatesKept /\ ~ SomeMeets
    BY <1>1 DEF FoundInv, Iterate, Looping
  <1>4. CandidatesKept'
    <2>1. CASE Kept(o)
      <3>1. candidate_solutions' = Append(candidate_solutions, res)
        BY <2>1 DEF Iterate
      <3> DEFINE L == Len(candidate_solutions)
      <3>2. /\ L \in Nat
            /\ DOMAIN candidate_solutions = 1 .. L
            /\ DOMAIN candidate_solutions' = 1 .. L + 1
            /\ candidate_solutions'[L + 1].org = o
            /\ \A n \in 1 .. L : candidate_solutions'[n] = candidate_solutions[n]
        <4> HIDE DEF o
        <4> QED
          BY <3>1, <1>2
      <3> HIDE DEF o, L
      <3>3. \A n \in DOMAIN candidate_solutions' :
               candidate_solutions'[n].org \in found' /\ Kept(candidate_solutions'[n].org)
        BY <3>2, <1>1, <1>3, <2>1 DEF CandidatesKept
      <3>4. \A j \in found' : Kept(j) =>
               \E n \in DOMAIN candidate_solutions' : candidate_solutions'[n].org = j
        BY <3>2, <1>1, <1>3 DEF CandidatesKept
      <3>5. \A j : Kept(j)' = Kept(j)
        BY <1>1, SameJudgement
      <3> QED
        BY <3>3, <3>4, <3>5 DEF CandidatesKept
    <2>2. CASE ~ Kept(o)
      <3>1. candidate_solutions' = candidate_solutions
        BY <2>2 DEF Iterate
      <3>2. \A j : Kept(j)' = Kept(j)
        BY <1>1, SameJudgement
      <3> QED
        BY <1>1, <1>3, <2>2, <3>1, <3>2 DEF CandidatesKept
    <2> QED
      BY <2>1, <2>2
  <1>5. SomeMeets' => throughput_overflow' = FALSE /\ latency_overflow' = FALSE
    <2> SUFFICES ASSUME SomeMeets'
                 PROVE  throughput_overflow' = FALSE /\ latency_overflow' = FALSE
      OBVIOUS
    <2>1. \A j : Meets(j)' = Meets(j)
      BY <1>1, SameJudgement
    <2>2. Meets(o)
      BY <1>1, <1>3, <2>1 DEF SomeMeets
    <2>3. Kept(o)
      BY <2>2 DEF Kept
    <2> QED
      BY <2>2, <2>3 DEF Iterate
  <1> QED
    BY <1>1, <1>4, <1>5 DEF FoundInv

LEMMA FoundChoose ==
    ASSUME TypeInv, ChoiceInv, FoundInv, Choose
    PROVE  FoundInv'
  <1>1. /\ UNCHANGED <<list, assoc, found, warned, valid>>
        /\ pc = "choose" /\ pc' = "choose" /\ candidate' = candidate + 1
    BY DEF Choose, input
  <1>2. /\ candidate_solutions \in Seq(Results) /\ candidate \in DOMAIN candidate_solutions
        /\ candidate \in Nat \ {0} /\ min_dynamic_energy \in 1 .. Big
    BY DEF Choose, TypeInv, TypeOK
  <1>3. \/ candidate_solutions' = candidate_solutions
        \/ candidate_solutions' = [candidate_solutions EXCEPT ![candidate] =
                                     [candidate_solutions[candidate] EXCEPT !.handle = NoHandle]]
    BY DEF Choose
  <1>4. /\ DOMAIN candidate_solutions' = DOMAIN candidate_solutions
        /\ \A n \in DOMAIN candidate_solutions :
              candidate_solutions'[n].org = candidate_solutions[n].org
    <2>1. [candidate_solutions[candidate] EXCEPT !.handle = NoHandle].org
             = candidate_solutions[candidate].org
      BY <1>2 DEF Results
    <2> QED
      BY <1>2, <1>3, <2>1
  <1>5. CandidatesKept /\ LeastSoFar /\ candidate_solutions # <<>> /\ candidate_solutions' # <<>>
    BY <1>1, <1>2, <1>4 DEF FoundInv
  <1>6. CandidatesKept'
    <2>1. \A j : Kept(j)' = Kept(j)
      BY <1>1, SameJudgement
    <2> QED
      BY <1>1, <1>4, <1>5, <2>1 DEF CandidatesKept
  <1>7. SomeMeets' = SomeMeets
    BY <1>1, SameJudgement DEF SomeMeets
  <1> DEFINE dyn(n) == candidate_solutions[n].org.dynamic
  <1>8. \A n \in DOMAIN candidate_solutions : dyn(n) \in 1 .. Big - 1
    <2>1. \A n \in DOMAIN candidate_solutions : candidate_solutions[n] \in Results
      BY ONLY <1>2
    <2> QED
      BY <2>1, Measures DEF Results
  <1>9. DOMAIN candidate_solutions \subseteq Nat
    BY <1>2
  <1>10. LeastSoFar'
    <2>1. CASE Cheaper(Candidate.org)
      <3>1. /\ min_dynamic_energy' = dyn(candidate)
            /\ local_result' = candidate_solutions[candidate]
            /\ min_dynamic_energy > dyn(candidate)
        BY <2>1 DEF Choose, Candidate, Cheaper
      <3> HIDE DEF dyn
      <3>2. \A n \in DOMAIN candidate_solutions : n < candidate => min_dynamic_energy <= dyn(n)
        BY <1>5 DEF LeastSoFar, dyn
      <3>3. \A n \in DOMAIN candidate_solutions : n < candidate' => min_dynamic_energy' <= dyn(n)
        BY ONLY <3>1, <3>2, <1>1, <1>2, <1>8, <1>9, Numbers
      <3> QED
        BY <1>1, <1>2, <1>4, <3>1, <3>3 DEF LeastSoFar, dyn
    <2>2. CASE ~ Cheaper(Candidate.org)
      <3>1. /\ min_dynamic_energy' = min_dynamic_energy /\ local_result' = local_result
            /\ ~ (min_dynamic_energy > dyn(candidate))
        BY <2>2 DEF Choose, Candidate, Cheaper
      <3>2. candidate > 1
        BY <1>2, <1>8, <3>1, Numbers DEF ChoiceInv
      <3> HIDE DEF dyn
      <3>3. \A n \in DOMAIN candidate_solutions : n < candidate => min_dynamic_energy <= dyn(n)
        BY <1>5 DEF LeastSoFar, dyn
      <3>4. \A n \in DOMAIN candidate_solutions : n < candidate' => min_dynamic_energy' <= dyn(n)
        BY ONLY <3>1, <3>3, <1>1, <1>2, <1>8, <1>9, Numbers
      <3>5. PICK n \in DOMAIN candidate_solutions :
               /\ local_result.org = candidate_solutions[n].org
               /\ min_dynamic_energy = local_result.org.dynamic
        BY <1>5, <3>2 DEF LeastSoFar
      <3> QED
        BY <1>1, <1>4, <3>1, <3>4, <3>5 DEF LeastSoFar, dyn
    <2> QED
      BY <2>1, <2>2
  <1> QED
    BY <1>1, <1>5, <1>6, <1>7, <1>10 DEF FoundInv

LEMMA FoundNext == TypeInv /\ ChoiceInv /\ FoundInv /\ [Next]_vars => FoundInv'
  <1> SUFFICES ASSUME TypeInv, ChoiceInv, FoundInv, [Next]_vars PROVE FoundInv'
    OBVIOUS
  <1>0. UNCHANGED <<list, assoc, found>> => SomeMeets' = SomeMeets /\ \A j : Kept(j)' = Kept(j)
    BY SameJudgement DEF SomeMeets
  <1>1. CASE First
    <2>1. found' = {} /\ candidate_solutions' = <<>> /\ pc' \in {"prepare", "done"}
      BY <1>1 DEF First, FoundInv, choice
    <2> QED
      BY <2>1 DEF FoundInv, Returned, SomeMeets
  <1>2. CASE Prepare
    <2>1. found' = {} /\ candidate_solutions' = <<>> /\ pc' = "loop"
      BY <1>2 DEF Prepare, FoundInv, choice
    <2> QED
      BY <2>1 DEF FoundInv, CandidatesKept, SomeMeets
  <1>3. CASE Iterate
    BY <1>3, FoundIterate
  <1>4. CASE Warn
    <2>1. /\ UNCHANGED <<list, assoc, found, candidate_solutions, candidate,
                         min_dynamic_energy, local_result>>
          /\ pc = "loop" /\ pc' = "choose" /\ valid' = (candidate_solutions # <<>>)
      BY <1>4 DEF Warn, input, choice
    <2>2. CandidatesKept'
      BY <1>0, <2>1 DEF FoundInv, CandidatesKept
    <2>3. SomeMeets' => warned' = {}
      BY <1>0, <1>4, <2>1 DEF FoundInv, Warn
    <2>4. candidate = 1
      BY <2>1 DEF ChoiceInv
    <2>5. candidate' = 1 /\ candidate_solutions' \in Seq(Results)
      BY <2>1, <2>4 DEF TypeInv, TypeOK
    <2>6. LeastSoFar'
      BY <2>5 DEF LeastSoFar
    <2> QED
      BY <2>1, <2>2, <2>3, <2>6 DEF FoundInv
  <1>5. CASE Choose
    BY <1>5, FoundChoose
  <1>6. CASE Finish
    <2>1. /\ UNCHANGED <<list, assoc, found, local_result, valid, warned>>
          /\ pc = "choose" /\ pc' = "done"
          /\ candidate > Len(candidate_solutions)
      BY <1>6 DEF Finish, input
    <2>2. CandidatesKept /\ LeastSoFar /\ (valid = TRUE <=> candidate_solutions # <<>>)
      BY <2>1 DEF FoundInv
    <2>3. \A n \in DOMAIN candidate_solutions : n < candidate
      BY <2>1 DEF TypeInv, TypeOK
    <2>4. Returned
      <3> SUFFICES ASSUME NEW j \in found, Kept(j)
                   PROVE  /\ valid = TRUE
                          /\ local_result.org \in found /\ Kept(local_result.org)
                          /\ \A o \in found : Kept(o) =>
                                local_result.org.dynamic <= o.dynamic
        BY DEF Returned
      <3>1. PICK k \in DOMAIN candidate_solutions : candidate_solutions[k].org = j
        BY <2>2 DEF CandidatesKept
      <3>2. candidate_solutions # <<>> /\ candidate > 1
        BY <2>1, <3>1 DEF TypeInv, TypeOK
      <3>3. PICK n \in DOMAIN candidate_solutions :
               /\ local_result.org = candidate_solutions[n].org
               /\ min_dynamic_energy = local_result.org.dynamic
        BY <2>2, <3>2 DEF LeastSoFar
      <3>4. local_result.org \in found /\ Kept(local_result.org)
        BY <2>2, <3>3 DEF CandidatesKept
      <3>5. ASSUME NEW o \in found, Kept(o)
            PROVE  local_result.org.dynamic <= o.dynamic
        <4>1. PICK m \in DOMAIN candidate_solutions : candidate_solutions[m].org = o
          BY <2>2, <3>5 DEF CandidatesKept
        <4>2. min_dynamic_energy <= candidate_solutions[m].org.dynamic
          BY <2>2, <2>3 DEF LeastSoFar
        <4> QED
          BY <3>3, <4>1, <4>2
      <3> QED
        BY <2>2, <3>2, <3>4, <3>5
    <2>5. Returned'
      BY <1>0, <2>1, <2>4 DEF Returned
    <2> QED
      BY <1>0, <2>1, <2>5 DEF FoundInv
  <1>7. CASE UNCHANGED vars
    <2>1. UNCHANGED <<list, assoc, found, pc, candidate_solutions, candidate, warned,
                      min_dynamic_energy, local_result, valid, throughput_overflow,
                      latency_overflow>>
      BY <1>7 DEF vars, input, choice, flags
    <2>2. CandidatesKept' = CandidatesKept
      BY <1>0, <2>1 DEF CandidatesKept
    <2>3. LeastSoFar' = LeastSoFar
      BY <2>1 DEF LeastSoFar
    <2>4. Returned' = Returned
      BY <1>0, <2>1 DEF Returned
    <2> QED
      BY <1>0, <2>1, <2>2, <2>3, <2>4 DEF FoundInv
  <1> QED
    BY <1>1, <1>2, <1>3, <1>4, <1>5, <1>6, <1>7 DEF Next, Terminated

(* A solution found is not lost: if some search of the loop met both       *)
(* constraints the result is valid, nothing is warned of, and the result   *)
(* is a solution kept, of the least dynamic energy.                        *)
THEOREM FoundIsNotLost == Spec => []FoundIsReturned
  <1>1. Init => FoundInv
    BY DEF Init, FoundInv
  <1>2. TypeInv /\ MemoryInv /\ FoundInv /\ [Next]_vars => FoundInv'
    BY FoundNext DEF MemoryInv
  <1>3. Spec => [](TypeInv /\ MemoryInv /\ FoundInv)
    BY <1>1, <1>2, TypeInit, TypeNext, MemoryInit, MemoryNext, PTL DEF Spec
  <1>4. FoundInv => FoundIsReturned
    <2> SUFFICES ASSUME FoundInv, pc = "done", NEW o \in found, Meets(o)
                 PROVE  /\ valid /\ warned = {}
                        /\ assoc # 0 => Meets(local_result.org)
                        /\ assoc = 0 => /\ local_result.org \in found
                                        /\ \A j \in found : Kept(j) =>
                                             local_result.org.dynamic <= j.dynamic
      BY DEF FoundIsReturned
    <2>1. SomeMeets /\ Kept(o)
      BY DEF SomeMeets, Kept
    <2>2. Returned /\ warned = {}
      BY <2>1 DEF FoundInv
    <2>3. Kept(local_result.org) /\ assoc # 0 => Meets(local_result.org)
      BY DEF Kept
    <2> QED
      BY <2>1, <2>2, <2>3 DEF Returned
  <1> QED
    BY <1>3, <1>4, PTL
=============================================================================
