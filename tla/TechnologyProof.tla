--------------------------- MODULE TechnologyProof ---------------------------
(***************************************************************************)
(* For all requests and any number of them, although g_ip, g_tp and the    *)
(* wires are global and every step leaves them to the next:                *)
(*   - every array is calculated in the technology of its own kind, input  *)
(*     and voltage (IInv);                                                 *)
(*   - g_tp is always one interpolation of one input, since reset() comes  *)
(*     first (TechInv).  Its groups are then sums over one or two tables   *)
(*     (GroupsOf, DeviceSum, DramSum, WireSum), with weights that make one *)
(*     whole (WeightsOf), so that they lie between the tables (Average);   *)
(*   - at work, that input has the node, the temperature and the types of  *)
(*     the request, which error_checking has accepted, and for those the   *)
(*     tables hold all that is asked for (AcceptedIsInTables).             *)
(***************************************************************************)
EXTENDS Technology, TLAPS

Label  == {Of(x, t) : x \in Input, t \in BOOLEAN} \cup {None}
Result == [in : Label, wires : Label]
Found  == [tag : Label, data : Label, dvs : Seq(Result), reference : {None} \cup Result, wires : Label]

(* What the labels are made of. *)
Known ==
    /\ user \in Input /\ ip \in Input
    /\ tp.of \in Label /\ wires \in Label
    /\ fin \in Found
    /\ level \in Nat \ {0}

(* g_ip is the user's input, but for the voltages. *)
LikeUser ==
    /\ ip.F = user.F /\ ip.temp = user.temp /\ ip.vcc_min = user.vcc_min
    /\ ip.ram = user.ram /\ ip.peri = user.peri /\ ip.dvs = user.dvs
SameVdd == LikeUser /\ ip.vdd = user.vdd

(* What error_checking demands for DVS. *)
OneType(x) == x.dvs # <<>> => x.ram[TRUE] = x.ram[FALSE] /\ \A t \in BOOLEAN : x.ram[t] = x.peri[t]

(* Where the call is, and what g_ip, g_tp, the wires and fin are made of. *)
Placed ==
    /\ pc \in {"begin", "init", "lookup"} => fin = NoResult
    /\ pc \in {"begin", "init", "lookup", "data"} => SameVdd /\ fin.dvs = <<>> /\ level = 1
    /\ pc = "init" => caller = "unit" \/ OneType(user)
    /\ pc \in {"lookup", "data", "updates"} => LikeUser /\ OneType(user)
    /\ pc = "lookup" => tp.of = Of(user, FALSE)
    /\ pc \in {"lookup", "data"} => wires = Of(user, FALSE)
    /\ pc = "updates" => /\ Len(fin.dvs) = level - 1
                         /\ user.dvs = <<>> => level = 1
                         /\ level = 1 => tp.of = Of(user, FALSE)
    /\ pc = "gating" => \/ user.dvs = <<>> /\ tp.of = Of(user, FALSE)
                        \/ user.dvs # <<>> /\ tp.of = Of(AtVoltage(0), TRUE)

IInv == Known /\ Placed /\ ArraysOfTheirTechnology

-----------------------------------------------------------------------------
LEMMA RequestsAreInputs ==
    ASSUME NEW q \in Requests
    PROVE  q.ip \in Input
  BY RequestsAssumption DEF Request

(* What a label is made of is all it depends on. *)
LEMMA SameLabel ==
    ASSUME NEW x, NEW y, NEW t \in BOOLEAN,
           x.F = y.F, x.temp = y.temp, x.vcc_min = y.vcc_min,
           x.ram = y.ram, x.peri = y.peri, x.vdd = y.vdd
    PROVE  Of(x, t) = Of(y, t)
  BY DEF Of

LEMMA IsLabel ==
    ASSUME NEW x \in Input, NEW t \in BOOLEAN
    PROVE  Of(x, t) \in Label
  BY DEF Label

LEMMA NoUpdates ==
    ASSUME NEW a \in Label, NEW b \in Label, NEW w \in Label
    PROVE  [tag |-> a, data |-> b, dvs |-> <<>>, reference |-> None, wires |-> w] \in Found
  <1>1. <<>> \in Seq(Result)
    OBVIOUS
  <1> QED
    BY <1>1 DEF Found

LEMMA NoLevels == Len(<<>>) = 0 /\ DOMAIN <<>> = {}
  OBVIOUS

LEMMA NoneIsLabel == None \in Label
  BY DEF Label

(* What g_tp holds when it was calculated for x and its tag or data array. *)
MadeFor(g, x, t) ==
    /\ ~ InvalidNode(x, t)
    /\ g.sum = Interpolated(Zero, x, t)
    /\ g.den = Den(x.F, SpanOf(x.F)) /\ g.of = Of(x, t)

(* init_tech_params calculates the technology of its parameters, whatever   *)
(* g_tp held, or ends the program, which says why.                         *)
LEMMA InitTechMakes ==
    ASSUME NEW x, NEW t, NEW next, InitTech(x, t, next)
    PROVE  \/ pc' = next /\ status' = status /\ MadeFor(tp', x, t)
           \/ /\ pc' = "ended" /\ status' \in {"invalid node", "Vdd too low", "Vcc_min too high"}
              /\ tp' = tp \/ MadeFor(tp', x, t)
              /\ status' = "Vdd too low" => Garbage(tp'.sum) \/ VddTooLow(tp'.sum)
  <1>1. PICK o \in Outcomes(tp, x, t) :
          /\ tp' = o.tp
          /\ IF o.status = "running" THEN pc' = next /\ UNCHANGED status ELSE Exit(o.status)
    BY DEF InitTech
  <1>2. CASE InvalidNode(x, t)
    <2>1. o = [status |-> "invalid node", tp |-> tp]
      BY <1>2 DEF Outcomes
    <2> QED
      BY <1>1, <2>1 DEF Exit
  <1>3. CASE ~ InvalidNode(x, t)
    <2> DEFINE T == Interpolated(tp.sum, x, t)
               D == [sum |-> T, den |-> Den(x.F, SpanOf(x.F)), of |-> Of(x, t)]
               S == IF Garbage(T) THEN {"Vdd too low", "Vcc_min too high", "running"}
                    ELSE IF VddTooLow(T) THEN {"Vdd too low"}
                    ELSE IF VccTooHigh(T, x) THEN {"Vcc_min too high"} ELSE {"running"}
    <2>1. o \in {[status |-> s, tp |-> D] : s \in S}
      BY <1>3 DEF Outcomes
    <2>2. T = Interpolated(Zero, x, t)
      BY DEF Interpolated, Reset
    <2>3. S \subseteq {"running", "Vdd too low", "Vcc_min too high"}
          /\ ("Vdd too low" \in S => Garbage(T) \/ VddTooLow(T))
      OBVIOUS
    <2>4. D.sum = T /\ D.den = Den(x.F, SpanOf(x.F)) /\ D.of = Of(x, t)
      OBVIOUS
    <2> HIDE DEF D, S, T
    <2>5. o.tp = D /\ o.status \in S
      BY <2>1
    <2>6. MadeFor(D, x, t)
      BY <1>3, <2>2, <2>4 DEF MadeFor
    <2>7. tp' = D
      BY <1>1, <2>5
    <2>8. CASE o.status = "running"
      BY <1>1, <2>6, <2>7, <2>8
    <2>9. CASE o.status # "running"
      <3>1. pc' = "ended" /\ status' = o.status
        BY <1>1, <2>9 DEF Exit
      <3> QED
        BY <2>3, <2>4, <2>5, <2>6, <2>7, <2>9, <3>1
    <2> QED
      BY <2>8, <2>9
  <1> QED
    BY <1>2, <1>3

LEMMA TechnologyOf ==
    ASSUME NEW x, NEW t \in BOOLEAN, NEW next, next # "ended", InitTech(x, t, next)
    PROVE  \/ pc' = next /\ tp'.of = Of(x, t) /\ ~ Exits
           \/ pc' = "ended" /\ Exits /\ (tp' = tp \/ tp'.of = Of(x, t))
  BY InitTechMakes DEF MadeFor, Exits

(* Another voltage makes another input of the same kind. *)
LEMMA AtAnotherVoltage ==
    ASSUME NEW x \in Input, NEW v \in Nat
    PROVE  LET y == [x EXCEPT !.vdd = AllAt(v)] IN
           /\ y \in Input /\ y.vdd = AllAt(v)
           /\ y.F = x.F /\ y.temp = x.temp /\ y.vcc_min = x.vcc_min
           /\ y.ram = x.ram /\ y.peri = x.peri /\ y.dvs = x.dvs
  <1>1. AllAt(v) \in [ItrsFlavors -> Nat]
    BY DEF AllAt
  <1> QED
    BY <1>1 DEF Input

-----------------------------------------------------------------------------
(* Linear interpolation: of every feature size between two nodes the two   *)
(* shares are positive, make one whole, and average to the feature size.   *)
THEOREM SharesMakeOneWhole ==
    ASSUME NEW F \in Nat, NEW s \in Spans(F), s[1] # s[2]
    PROVE  /\ Alpha(F, s, 1) > 0 /\ Alpha(F, s, 2) > 0
           /\ Alpha(F, s, 1) + Alpha(F, s, 2) = Den(F, s)
           /\ 10 * (s[1] * Alpha(F, s, 1) + s[2] * Alpha(F, s, 2)) = F * Den(F, s)
  <1>1. s \in Neighbours /\ Between(F, s[1], s[2])
    <2>1. CASE \E n \in Nodes : Near(F, n)
      <3>1. PICK n \in Nodes : s = <<n, n>>
        BY <2>1 DEF Spans
      <3> QED
        BY <3>1
    <2>2. CASE ~ \E n \in Nodes : Near(F, n)
      BY <2>2 DEF Spans
    <2> QED
      BY <2>1, <2>2
  <1>2. \E lo, hi \in Nodes : s = <<lo, hi>> /\ hi < lo
    BY <1>1 DEF Neighbours, Nodes
  <1>3. PICK lo \in Nodes, hi \in Nodes : s = <<lo, hi>> /\ hi < lo
    BY <1>2
  <1>4. s[1] = lo /\ s[2] = hi
    BY <1>3
  <1>5. /\ Alpha(F, s, 1) = F - 10 * hi /\ Alpha(F, s, 2) = 10 * lo - F
        /\ Den(F, s) = 10 * (lo - hi)
    BY <1>3, <1>4 DEF Alpha, Den, Nodes
  <1>6. hi * 10 < F /\ F < lo * 10
    BY <1>1, <1>4 DEF Between
  <1>7. 10 * (lo * (F - 10 * hi) + hi * (10 * lo - F)) = F * (10 * (lo - hi))
    BY <1>3 DEF Nodes
  <1> QED
    BY <1>4, <1>5, <1>6, <1>7 DEF Nodes

-----------------------------------------------------------------------------
LEMMA InitInv == Init => IInv
  <1> SUFFICES ASSUME Init PROVE IInv
    OBVIOUS
  <1>1. ip \in Input /\ user = ip
    BY RequestsAreInputs DEF Init
  <1>2. fin = NoResult /\ level = 1 /\ pc = "begin" /\ wires = None /\ tp.of = None
    BY DEF Init
  <1>3. Known
    BY <1>1, <1>2, NoUpdates, NoneIsLabel DEF Known, NoResult
  <1>4. Placed
    BY <1>1, <1>2 DEF Placed, SameVdd, LikeUser, NoResult
  <1>5. ArraysOfTheirTechnology
    BY <1>2 DEF ArraysOfTheirTechnology, NoResult
  <1> QED
    BY <1>3, <1>4, <1>5 DEF IInv

(* error_checking refuses DVS with arrays of different types. *)
LEMMA CheckInv == IInv /\ Check => IInv'
  <1> SUFFICES ASSUME IInv, Check PROVE IInv'
    OBVIOUS
  <1> USE DEF IInv
  <1>1. pc = "begin" /\ fin = NoResult /\ fin' = NoResult /\ level' = 1 /\ SameVdd /\ level = 1
    BY DEF Check, Placed
  <1>2. ASSUME NEW x \in Input
        PROVE  /\ Checks(x) \in Input
               /\ Checks(x).F = x.F /\ Checks(x).temp = x.temp /\ Checks(x).vcc_min = x.vcc_min
               /\ Checks(x).ram = x.ram /\ Checks(x).peri = x.peri
               /\ Checks(x).dvs = x.dvs /\ Checks(x).vdd = x.vdd
    <2> DEFINE y == [x EXCEPT !.power_gating = FALSE]
    <2>1. /\ y \in Input
          /\ y.F = x.F /\ y.temp = x.temp /\ y.vcc_min = x.vcc_min
          /\ y.ram = x.ram /\ y.peri = x.peri /\ y.dvs = x.dvs /\ y.vdd = x.vdd
      BY DEF Input
    <2>2. Checks(x) = y \/ Checks(x) = x
      BY DEF Checks
    <2> HIDE DEF y
    <2> QED
      BY <2>1, <2>2
  <1>3. SameVdd'
    BY <1>1, <1>2 DEF Check, SameVdd, LikeUser, Known
  <1>4. Known'
    BY <1>1, <1>2 DEF Check, Known
  <1>5. pc' = "ended" \/ (pc' = "init" /\ (caller' = "unit" \/ ~ Refused(ip')))
    BY DEF Check, Exit
  <1>6. ASSUME ~ Refused(ip') PROVE OneType(user')
    <2>1. OneType(ip')
      BY <1>6 DEF Refused, DvsRefused, OneType
    <2> QED
      BY <1>3, <2>1 DEF OneType, SameVdd, LikeUser
  <1>7. Placed'
    BY <1>1, <1>3, <1>5, <1>6 DEF Placed, NoResult
  <1>8. ArraysOfTheirTechnology'
    BY <1>1 DEF ArraysOfTheirTechnology, NoResult
  <1> QED
    BY <1>4, <1>7, <1>8

LEMMA InitInterfaceInv == IInv /\ InitInterface => IInv'
  <1> SUFFICES ASSUME IInv, InitInterface PROVE IInv'
    OBVIOUS
  <1> DEFINE next == IF caller = "unit" THEN "return" ELSE "lookup"
  <1>1. pc = "init" /\ InitTech(ip, FALSE, next) /\ WireInit
        /\ UNCHANGED <<caller, user, count, ip, level, fin>>
    BY DEF InitInterface, Request0
  <1>2. SameVdd /\ ip \in Input /\ fin = NoResult /\ level = 1 /\ (caller = "unit" \/ OneType(user))
    BY <1>1 DEF IInv, Placed, Known
  <1>3. Of(ip, FALSE) = Of(user, FALSE) /\ Of(ip, FALSE) \in Label
    BY <1>2, SameLabel, IsLabel DEF SameVdd, LikeUser
  <1>4. \/ pc' = next /\ tp'.of = Of(ip, FALSE) /\ ~ Exits
        \/ pc' = "ended" /\ Exits /\ (tp' = tp \/ tp'.of = Of(ip, FALSE))
    BY <1>1, TechnologyOf
  <1>5. wires' = wires \/ (wires' = tp'.of /\ ~ Exits)
    BY <1>1 DEF WireInit
  <1>6. Known'
    BY <1>1, <1>3, <1>4, <1>5 DEF IInv, Known
  <1>7. Placed'
    <2>1. ~ Exits => wires' = tp'.of
      BY <1>1 DEF WireInit
    <2> QED
      BY <1>1, <1>2, <1>3, <1>4, <2>1 DEF Placed, SameVdd, LikeUser, NoResult, Exits, OneType
  <1>8. ArraysOfTheirTechnology'
    BY <1>1, <1>2 DEF ArraysOfTheirTechnology, NoResult
  <1> QED
    BY <1>6, <1>7, <1>8 DEF IInv

LEMMA CacheHitInv == IInv /\ CacheHit => IInv'
  <1> SUFFICES ASSUME IInv, CacheHit PROVE IInv'
    OBVIOUS
  <1>1. /\ pc = "lookup" /\ pc' = "updates" /\ UNCHANGED <<caller, user, count, ip, level, tp, wires>>
        /\ fin' = [NoResult EXCEPT !.tag = IF HasTag(ip) THEN Of(ip, TRUE) ELSE None,
                                   !.data = Of(ip, FALSE), !.wires = wires]
    BY DEF CacheHit, Request0
  <1>2. /\ SameVdd /\ ip \in Input /\ level = 1 /\ OneType(user)
        /\ wires = Of(user, FALSE) /\ tp.of = Of(user, FALSE)
    BY <1>1 DEF IInv, Placed, Known
  <1>3. \A t \in BOOLEAN : Of(ip, t) = Of(user, t) /\ Of(user, t) \in Label
    BY <1>2, SameLabel, IsLabel DEF SameVdd, LikeUser
  <1>4. /\ fin'.tag = None \/ fin'.tag = Of(user, TRUE)
        /\ fin'.data = Of(user, FALSE) /\ fin'.wires = Of(user, FALSE)
        /\ fin'.dvs = <<>> /\ fin'.reference = None
        /\ fin' = [tag |-> fin'.tag, data |-> fin'.data, dvs |-> <<>>, reference |-> None, wires |-> fin'.wires]
    BY <1>1, <1>2, <1>3 DEF NoResult
  <1>5. Known'
    <2>1. fin' \in Found
      BY <1>3, <1>4, NoUpdates, NoneIsLabel
    <2> QED
      BY <1>1, <2>1 DEF IInv, Known
  <1>6. Placed'
    <2>1. SameVdd' /\ OneType(user') /\ Len(fin'.dvs) = level' - 1 /\ tp'.of = Of(user', FALSE) /\ pc' = "updates"
      BY <1>1, <1>2, <1>4, NoLevels DEF SameVdd, LikeUser
    <2> QED
      BY <2>1, <1>1, <1>2 DEF Placed, SameVdd
  <1>7. ArraysOfTheirTechnology'
    <2>1. user' = user
      BY <1>1
    <2> QED
      BY <1>4, <2>1, NoLevels DEF ArraysOfTheirTechnology
  <1> QED
    BY <1>5, <1>6, <1>7 DEF IInv

LEMMA SearchTagInv == IInv /\ SearchTag => IInv'
  <1> SUFFICES ASSUME IInv, SearchTag PROVE IInv'
    OBVIOUS
  <1>1. pc = "lookup" /\ UNCHANGED <<caller, user, count, ip, level, wires>>
    BY DEF SearchTag, Request0
  <1>2. /\ SameVdd /\ ip \in Input /\ level = 1 /\ OneType(user) /\ fin = NoResult
        /\ wires = Of(user, FALSE) /\ tp.of = Of(user, FALSE)
    BY <1>1 DEF IInv, Placed, Known
  <1>3. \A t \in BOOLEAN : Of(ip, t) = Of(user, t) /\ Of(user, t) \in Label
    BY <1>2, SameLabel, IsLabel DEF SameVdd, LikeUser
  <1>4. /\ \/ pc' = "data" /\ fin' = [fin EXCEPT !.tag = Of(user, TRUE), !.wires = wires]
           \/ pc' = "data" /\ fin' = [fin EXCEPT !.wires = wires]
           \/ pc' = "ended" /\ fin' = fin
        /\ tp' = tp \/ tp'.of = Of(user, TRUE)
    <2>1. CASE HasTag(ip)
      <3>1. InitTech(ip, TRUE, "data")
            /\ fin' = IF Exits THEN fin ELSE [fin EXCEPT !.tag = tp'.of, !.wires = wires]
        BY <2>1 DEF SearchTag
      <3>2. \/ pc' = "data" /\ tp'.of = Of(ip, TRUE) /\ ~ Exits
            \/ pc' = "ended" /\ Exits /\ (tp' = tp \/ tp'.of = Of(ip, TRUE))
        BY <3>1, TechnologyOf
      <3> QED
        BY <3>1, <3>2, <1>3
    <2>2. CASE ~ HasTag(ip)
      BY <2>2 DEF SearchTag
    <2> QED
      BY <2>1, <2>2
  <1>5. /\ fin'.tag = None \/ fin'.tag = Of(user, TRUE)
        /\ fin'.wires = None \/ fin'.wires = Of(user, FALSE)
        /\ fin'.data = None /\ fin'.dvs = <<>> /\ fin'.reference = None
        /\ fin' = [tag |-> fin'.tag, data |-> None, dvs |-> <<>>, reference |-> None, wires |-> fin'.wires]
    <2>1. fin = [tag |-> None, data |-> None, dvs |-> <<>>, reference |-> None, wires |-> None]
      BY <1>2 DEF NoResult
    <2>2. CASE fin' = [fin EXCEPT !.tag = Of(user, TRUE), !.wires = wires]
      <3>1. fin' = [tag |-> Of(user, TRUE), data |-> None, dvs |-> <<>>, reference |-> None, wires |-> wires]
        BY <2>1, <2>2
      <3> QED
        BY <1>2, <3>1
    <2>3. CASE fin' = [fin EXCEPT !.wires = wires]
      <3>1. fin' = [tag |-> None, data |-> None, dvs |-> <<>>, reference |-> None, wires |-> wires]
        BY <2>1, <2>3
      <3> QED
        BY <1>2, <3>1
    <2>4. CASE fin' = fin
      BY <2>1, <2>4
    <2> QED
      BY <1>4, <2>2, <2>3, <2>4
  <1>6. Known'
    <2>1. fin' \in Found
      BY <1>3, <1>5, NoUpdates, NoneIsLabel
    <2> QED
      BY <1>1, <1>3, <1>4, <2>1 DEF IInv, Known
  <1>7. Placed'
    BY <1>1, <1>2, <1>4, <1>5 DEF Placed, SameVdd, LikeUser, OneType
  <1>8. ArraysOfTheirTechnology'
    <2>1. user' = user
      BY <1>1
    <2> QED
      BY <1>5, <2>1, NoLevels DEF ArraysOfTheirTechnology
  <1> QED
    BY <1>6, <1>7, <1>8 DEF IInv

LEMMA SearchDataInv == IInv /\ SearchData => IInv'
  <1> SUFFICES ASSUME IInv, SearchData PROVE IInv'
    OBVIOUS
  <1>1. /\ pc = "data" /\ InitTech(ip, FALSE, "updates") /\ UNCHANGED <<caller, user, count, ip, level, wires>>
        /\ fin' = IF Exits THEN fin ELSE [fin EXCEPT !.data = tp'.of]
    BY DEF SearchData, Request0
  <1>2. SameVdd /\ ip \in Input /\ level = 1 /\ OneType(user) /\ fin.dvs = <<>>
    BY <1>1 DEF IInv, Placed, Known
  <1>3. Of(ip, FALSE) = Of(user, FALSE) /\ Of(user, FALSE) \in Label
    BY <1>2, SameLabel, IsLabel DEF SameVdd, LikeUser
  <1>4. \/ pc' = "updates" /\ tp'.of = Of(user, FALSE) /\ fin' = [fin EXCEPT !.data = Of(user, FALSE)]
        \/ pc' = "ended" /\ fin' = fin /\ (tp' = tp \/ tp'.of = Of(user, FALSE))
    <2>1. \/ pc' = "updates" /\ tp'.of = Of(ip, FALSE) /\ ~ Exits
          \/ pc' = "ended" /\ Exits /\ (tp' = tp \/ tp'.of = Of(ip, FALSE))
      BY <1>1, TechnologyOf
    <2> QED
      BY <1>1, <1>3, <2>1
  <1>5. /\ fin' \in Found
        /\ fin'.tag = fin.tag /\ fin'.wires = fin.wires /\ fin'.dvs = fin.dvs /\ fin'.reference = fin.reference
        /\ fin'.data = fin.data \/ fin'.data = Of(user, FALSE)
    BY <1>3, <1>4 DEF IInv, Known, Found
  <1>6. Known'
    BY <1>1, <1>3, <1>4, <1>5 DEF IInv, Known
  <1>7. Placed'
    <2>1. CASE pc' = "ended"
      BY <2>1 DEF Placed
    <2>2. CASE pc' = "updates"
      <3>1. tp'.of = Of(user', FALSE) /\ LikeUser' /\ OneType(user') /\ Len(fin'.dvs) = level' - 1 /\ level' = 1
        <4>1. user' = user /\ ip' = ip /\ level' = level
          BY <1>1
        <4>2. tp'.of = Of(user, FALSE)
          BY <1>4, <2>2
        <4> QED
          BY <4>1, <4>2, <1>2, <1>5, NoLevels DEF SameVdd, LikeUser
      <3> QED
        BY <2>2, <3>1 DEF Placed
    <2> QED
      BY <1>4, <2>1, <2>2
  <1>8. ArraysOfTheirTechnology'
    BY <1>1, <1>5 DEF IInv, ArraysOfTheirTechnology, Restored, AtVoltage
  <1> QED
    BY <1>6, <1>7, <1>8 DEF IInv

(* Both arrays of a DVS level are of one type, so the tag array's          *)
(* technology is the data array's.                                         *)
LEMMA DvsLevelInv == IInv /\ DvsLevel => IInv'
  <1> SUFFICES ASSUME IInv, DvsLevel PROVE IInv'
    OBVIOUS
  <1> DEFINE v == ip.dvs[level]
  <1>1. /\ pc = "updates" /\ level \in DOMAIN ip.dvs
        /\ ip' = [ip EXCEPT !.vdd = AllAt(v)] /\ InitTech(ip', TRUE, "updates")
        /\ wires' = IF Exits THEN wires ELSE tp'.of
        /\ fin' = IF Exits THEN fin ELSE [fin EXCEPT !.dvs = Append(@, [in |-> tp'.of, wires |-> wires'])]
        /\ level' = level + 1 /\ UNCHANGED <<caller, user, count>>
    BY DEF DvsLevel, Request0
  <1>2. /\ LikeUser /\ ip \in Input /\ user \in Input /\ OneType(user) /\ level \in Nat \ {0}
        /\ Len(fin.dvs) = level - 1 /\ fin \in Found
    BY <1>1 DEF IInv, Placed, Known
  <1>3. v \in Nat /\ v = user.dvs[level] /\ user.dvs # <<>>
    <2>1. ip.dvs \in Seq(Nat \ {0}) /\ ip.dvs = user.dvs
      BY <1>2 DEF Input, LikeUser
    <2>2. DOMAIN ip.dvs # {}
      BY <1>1
    <2> QED
      BY <1>1, <2>1, <2>2
  <1> HIDE DEF v
  <1>4. /\ ip' \in Input /\ ip'.vdd = AllAt(v)
        /\ ip'.F = user.F /\ ip'.temp = user.temp /\ ip'.vcc_min = user.vcc_min
        /\ ip'.ram = user.ram /\ ip'.peri = user.peri /\ ip'.dvs = user.dvs
    BY <1>1, <1>2, <1>3, AtAnotherVoltage DEF LikeUser
  <1>5. \A t \in BOOLEAN : Of(ip', TRUE) = Of(AtVoltage(v), t)
    <2>1. \A t \in BOOLEAN : user.ram[t] = user.ram[TRUE] /\ user.peri[t] = user.peri[TRUE]
      BY <1>2, <1>3 DEF OneType
    <2>2. LET y == AtVoltage(v) IN
          /\ y.vdd = AllAt(v)
          /\ y.F = user.F /\ y.temp = user.temp /\ y.vcc_min = user.vcc_min
          /\ y.ram = user.ram /\ y.peri = user.peri
      BY <1>2, <1>3, AtAnotherVoltage DEF AtVoltage
    <2> QED
      BY <1>4, <2>1, <2>2 DEF Of
  <1>6. Of(ip', TRUE) \in Label
    BY <1>4, IsLabel
  <1>7. \/ pc' = "updates" /\ tp'.of = Of(ip', TRUE) /\ ~ Exits
        \/ pc' = "ended" /\ Exits /\ (tp' = tp \/ tp'.of = Of(ip', TRUE))
    BY <1>1, TechnologyOf
  <1>8. CASE Exits
    <2>1. wires' = wires /\ fin' = fin /\ user' = user
      BY <1>1, <1>8
    <2>2. Known'
      <3>1. tp'.of \in Label
        BY <1>6, <1>7 DEF IInv, Known
      <3>2. wires \in Label /\ level' \in Nat \ {0}
        BY <1>1, <1>2 DEF IInv, Known
      <3> QED
        BY <1>2, <1>4, <2>1, <3>1, <3>2 DEF Known
    <2>3. Placed'
      BY <1>8 DEF Placed, Exits
    <2>4. ArraysOfTheirTechnology'
      BY <2>1 DEF IInv, ArraysOfTheirTechnology, Restored, AtVoltage
    <2> QED
      BY <2>2, <2>3, <2>4 DEF IInv
  <1>9. CASE ~ Exits
    <2> DEFINE r == [in |-> Of(ip', TRUE), wires |-> Of(ip', TRUE)]
    <2>1. /\ tp'.of = Of(ip', TRUE) /\ wires' = Of(ip', TRUE) /\ pc' = "updates"
          /\ fin' = [fin EXCEPT !.dvs = Append(fin.dvs, r)]
      BY <1>1, <1>7, <1>9
    <2>2. r \in Result
      BY <1>6 DEF Result
    <2>3. /\ fin.dvs \in Seq(Result) /\ fin' \in Found /\ fin'.dvs = Append(fin.dvs, r)
          /\ fin'.tag = fin.tag /\ fin'.data = fin.data /\ fin'.wires = fin.wires
          /\ fin'.reference = fin.reference
      <3>1. fin.dvs \in Seq(Result)
        BY <1>2 DEF Found
      <3> DEFINE d == Append(fin.dvs, r)
      <3>2. d \in Seq(Result)
        BY <2>2, <3>1
      <3>3. fin' = [fin EXCEPT !.dvs = d]
        BY <2>1
      <3> HIDE DEF d
      <3>4. /\ fin' \in Found /\ fin'.dvs = d
            /\ fin'.tag = fin.tag /\ fin'.data = fin.data /\ fin'.wires = fin.wires
            /\ fin'.reference = fin.reference
        BY <1>2, <3>2, <3>3 DEF Found
      <3> QED
        BY <3>1, <3>4 DEF d
    <2>4. Known'
      <3>1. level' \in Nat \ {0} /\ user' = user
        BY <1>1, <1>2
      <3> QED
        BY <1>2, <1>4, <1>6, <2>1, <2>3, <3>1 DEF Known
    <2>5. Len(fin'.dvs) = level' - 1 /\ level' # 1
      BY <1>1, <1>2, <2>3
    <2>6. Placed'
      <3>1. LikeUser' /\ OneType(user') /\ user'.dvs # <<>>
        BY <1>1, <1>2, <1>3, <1>4 DEF LikeUser
      <3> QED
        BY <2>1, <2>5, <3>1 DEF Placed
    <2>7. \A n \in DOMAIN fin'.dvs : \/ n \in DOMAIN fin.dvs /\ fin'.dvs[n] = fin.dvs[n]
                                     \/ n = level /\ fin'.dvs[n] = r
      BY <1>2, <2>2, <2>3
    <2>8. \A n \in DOMAIN fin'.dvs :
            /\ \A t \in BOOLEAN : fin'.dvs[n].in = Of(AtVoltage(user.dvs[n]), t)
            /\ fin'.dvs[n].wires = fin'.dvs[n].in
      <3> SUFFICES ASSUME NEW n \in DOMAIN fin'.dvs
                   PROVE  /\ \A t \in BOOLEAN : fin'.dvs[n].in = Of(AtVoltage(user.dvs[n]), t)
                          /\ fin'.dvs[n].wires = fin'.dvs[n].in
        OBVIOUS
      <3>1. CASE n \in DOMAIN fin.dvs /\ fin'.dvs[n] = fin.dvs[n]
        BY <3>1 DEF IInv, ArraysOfTheirTechnology
      <3>2. CASE n = level /\ fin'.dvs[n] = r
        <4>1. fin'.dvs[n].in = Of(ip', TRUE) /\ fin'.dvs[n].wires = Of(ip', TRUE)
          BY <3>2
        <4>2. v = user.dvs[n]
          BY <1>3, <3>2
        <4> QED
          BY <1>5, <4>1, <4>2
      <3> QED
        BY <2>7, <3>1, <3>2
    <2>9. ArraysOfTheirTechnology'
      <3>1. user' = user
        BY <1>1
      <3> QED
        BY <2>3, <2>8, <3>1 DEF IInv, ArraysOfTheirTechnology, Restored, AtVoltage
    <2> QED
      BY <2>4, <2>6, <2>9 DEF IInv
  <1> QED
    BY <1>8, <1>9

LEMMA EndDvsInv == IInv /\ EndDvs => IInv'
  <1> SUFFICES ASSUME IInv, EndDvs PROVE IInv'
    OBVIOUS
  <1>1. pc = "updates" /\ level \notin DOMAIN ip.dvs /\ UNCHANGED <<caller, user, count, level, wires, fin>>
    BY DEF EndDvs, Request0
  <1>2. LikeUser /\ ip \in Input /\ user \in Input /\ (user.dvs = <<>> => tp.of = Of(user, FALSE))
    BY <1>1 DEF IInv, Placed, Known
  <1>3. /\ \/ pc' = "gating" /\ user.dvs = <<>> /\ tp'.of = Of(user, FALSE)
           \/ pc' = "gating" /\ user.dvs # <<>> /\ tp'.of = Of(AtVoltage(0), TRUE)
           \/ pc' = "ended"
        /\ ip' \in Input
        /\ tp'.of \in Label
    <2>1. CASE ip.dvs = <<>>
      <3>1. pc' = "gating" /\ ip' = ip /\ tp' = tp
        BY <2>1 DEF EndDvs
      <3> QED
        BY <1>2, <2>1, <3>1 DEF LikeUser, IInv, Known
    <2>2. CASE ip.dvs # <<>>
      <3>1. ip' = [ip EXCEPT !.vdd = AllAt(0)] /\ InitTech(ip', TRUE, "gating")
        BY <2>2 DEF EndDvs
      <3>2. /\ ip' \in Input /\ ip'.vdd = AllAt(0)
            /\ ip'.F = user.F /\ ip'.temp = user.temp /\ ip'.vcc_min = user.vcc_min
            /\ ip'.ram = user.ram /\ ip'.peri = user.peri
        BY <1>2, <3>1, AtAnotherVoltage DEF LikeUser
      <3>3. LET y == AtVoltage(0) IN
            /\ y.vdd = AllAt(0)
            /\ y.F = user.F /\ y.temp = user.temp /\ y.vcc_min = user.vcc_min
            /\ y.ram = user.ram /\ y.peri = user.peri
        BY <1>2, AtAnotherVoltage DEF AtVoltage
      <3>4. Of(ip', TRUE) = Of(AtVoltage(0), TRUE) /\ Of(ip', TRUE) \in Label
        BY <3>2, <3>3, IsLabel DEF Of
      <3>5. \/ pc' = "gating" /\ tp'.of = Of(ip', TRUE) /\ ~ Exits
            \/ pc' = "ended" /\ Exits /\ (tp' = tp \/ tp'.of = Of(ip', TRUE))
        BY <3>1, TechnologyOf
      <3> QED
        BY <1>2, <2>2, <3>2, <3>4, <3>5 DEF IInv, Known, LikeUser
    <2> QED
      BY <2>1, <2>2
  <1>4. Known'
    BY <1>1, <1>3 DEF IInv, Known
  <1>5. Placed'
    <2>1. user' = user
      BY <1>1
    <2> QED
      BY <1>3, <2>1 DEF Placed, AtVoltage
  <1>6. ArraysOfTheirTechnology'
    BY <1>1 DEF IInv, ArraysOfTheirTechnology, Restored, AtVoltage
  <1> QED
    BY <1>4, <1>5, <1>6 DEF IInv

(* With power gating the reference is calculated in the technology left.   *)
LEMMA UpdateGatingInv == IInv /\ UpdateGating => IInv'
  <1> SUFFICES ASSUME IInv, UpdateGating PROVE IInv'
    OBVIOUS
  <1>1. /\ pc = "gating" /\ pc' = "return" /\ UNCHANGED <<caller, user, count, ip, level, tp, status>>
        /\ \/ wires' = tp.of /\ fin' = [fin EXCEPT !.reference = [in |-> tp.of, wires |-> wires']]
           \/ UNCHANGED <<wires, fin>>
    BY DEF UpdateGating, Request0
  <1> DEFINE r == [in |-> tp.of, wires |-> tp.of]
  <1>2. r \in Result
    BY DEF IInv, Known, Result
  <1>3. \/ wires' = tp.of /\ fin' = [fin EXCEPT !.reference = r]
        \/ wires' = wires /\ fin' = fin
    BY <1>1
  <1>4. Restored => tp.of = Of(user, FALSE)
    <2> SUFFICES ASSUME Restored, user.dvs # <<>>, tp.of = Of(AtVoltage(0), TRUE)
                 PROVE  tp.of = Of(user, FALSE)
      BY <1>1 DEF IInv, Placed
    <2>1. user \in Input /\ user.vdd = AllAt(0)
      BY DEF IInv, Known, Restored
    <2>2. LET y == AtVoltage(0) IN
          /\ y.vdd = user.vdd
          /\ y.F = user.F /\ y.temp = user.temp /\ y.vcc_min = user.vcc_min
          /\ y.ram = user.ram /\ y.peri = user.peri
      BY <2>1, AtAnotherVoltage DEF AtVoltage
    <2>3. Of(AtVoltage(0), TRUE) = Of(user, TRUE)
      BY <2>2 DEF Of
    <2> QED
      BY <2>3 DEF Restored
  <1> HIDE DEF r
  <1>5. Known'
    <2>1. fin' \in Found
      BY <1>2, <1>3 DEF IInv, Known, Found
    <2> QED
      BY <1>1, <1>3, <2>1 DEF IInv, Known
  <1>6. Placed'
    BY <1>1 DEF Placed
  <1>7. ArraysOfTheirTechnology'
    <2>1. /\ fin'.tag = fin.tag /\ fin'.data = fin.data /\ fin'.wires = fin.wires /\ fin'.dvs = fin.dvs
          /\ fin'.reference = fin.reference \/ fin'.reference = r
      BY <1>3 DEF IInv, Known, Found
    <2>2. user' = user
      BY <1>1
    <2> QED
      BY <1>4, <2>1, <2>2 DEF IInv, ArraysOfTheirTechnology, Restored, AtVoltage, r
  <1> QED
    BY <1>5, <1>6, <1>7 DEF IInv

LEMMA ReturnInv == IInv /\ Return => IInv'
  <1> SUFFICES ASSUME IInv, Return PROVE IInv'
    OBVIOUS
  <1>1. pc = "return" /\ tp' = tp /\ (wires' = tp.of \/ wires' = wires)
    BY DEF Return
  <1>2. CASE caller = "file" \/ count = MaxRequests
    <2>1. pc' = "ended" /\ UNCHANGED <<caller, ip, user, level, fin, count>>
      BY <1>2 DEF Return, Exit
    <2>2. Known'
      BY <1>1, <2>1 DEF IInv, Known
    <2>3. Placed'
      BY <2>1 DEF Placed
    <2>4. ArraysOfTheirTechnology'
      BY <2>1 DEF IInv, ArraysOfTheirTechnology, Restored, AtVoltage
    <2> QED
      BY <2>2, <2>3, <2>4 DEF IInv
  <1>3. CASE ~ (caller = "file" \/ count = MaxRequests)
    <2>1. /\ \E q \in Requests : ip' = q.ip /\ user' = q.ip
          /\ pc' = "begin" /\ level' = 1 /\ fin' = NoResult
      BY <1>3 DEF Return
    <2>2. ip' \in Input /\ user' = ip'
      BY <2>1, RequestsAreInputs
    <2>3. fin' \in Found /\ fin'.dvs = <<>>
      BY <2>1, NoUpdates, NoneIsLabel DEF NoResult
    <2>4. Known'
      BY <1>1, <2>1, <2>2, <2>3 DEF IInv, Known
    <2>5. Placed'
      BY <2>1, <2>2, <2>3 DEF Placed, SameVdd, LikeUser
    <2>6. ArraysOfTheirTechnology'
      BY <2>1 DEF ArraysOfTheirTechnology, NoResult
    <2> QED
      BY <2>4, <2>5, <2>6 DEF IInv
  <1> QED
    BY <1>2, <1>3

LEMMA StepInv == IInv /\ [Next]_vars => IInv'
  <1> SUFFICES ASSUME IInv, [Next]_vars PROVE IInv'
    OBVIOUS
  <1>1. CASE UNCHANGED vars
    <2>1. UNCHANGED <<caller, ip, user, pc, level, tp, wires, fin>>
      BY <1>1 DEF vars
    <2>2. Known'
      BY <2>1 DEF IInv, Known
    <2>3. Placed'
      <3>1. (SameVdd <=> SameVdd') /\ (LikeUser <=> LikeUser')
        BY <2>1 DEF SameVdd, LikeUser
      <3>2. Placed
        BY DEF IInv
      <3> QED
        BY <2>1, <3>1, <3>2 DEF Placed, AtVoltage
    <2>4. ArraysOfTheirTechnology'
      BY <2>1 DEF IInv, ArraysOfTheirTechnology, Restored, AtVoltage
    <2> QED
      BY <2>2, <2>3, <2>4 DEF IInv
  <1>2. CASE Next
    BY <1>1, <1>2, CheckInv, InitInterfaceInv, CacheHitInv, SearchTagInv, SearchDataInv,
       DvsLevelInv, EndDvsInv, UpdateGatingInv, ReturnInv DEF Next, Ended
  <1> QED
    BY <1>1, <1>2

-----------------------------------------------------------------------------
(* Whatever McPAT or a user asks for and in whatever order, the tag and    *)
(* the data array, each DVS level and the reference are calculated in the  *)
(* technology of their own kind, input and voltage, and with its wires.    *)
THEOREM ArraysAlwaysOfTheirTechnology == Spec => []ArraysOfTheirTechnology
  <1>1. IInv => ArraysOfTheirTechnology
    BY DEF IInv
  <1> QED
    BY <1>1, InitInv, StepInv, PTL DEF Spec

-----------------------------------------------------------------------------
(* g_tp was calculated for x and its tag or data array. *)
TechOf(x, t) ==
    /\ ~ InvalidNode(x, t)
    /\ tp.sum = Interpolated(Zero, x, t)
    /\ tp.den = Den(x.F, SpanOf(x.F)) /\ tp.of = Of(x, t)

(* One node alone, in its window; or two neighbours and a size between.    *)
LEMMA SpanIs ==
    ASSUME NEW F \in Nat, Spans(F) # {}
    PROVE  /\ SpanOf(F) \in Spans(F)
           /\ \/ \E n \in Nodes : SpanOf(F) = <<n, n>> /\ Near(F, n)
              \/ /\ SpanOf(F) \in Neighbours /\ Between(F, SpanOf(F)[1], SpanOf(F)[2])
                 /\ \A n \in Nodes : ~ Near(F, n)
  <1>1. SpanOf(F) \in Spans(F)
    BY Zenon DEF SpanOf
  <1>2. CASE \E n \in Nodes : Near(F, n)
    BY <1>1, <1>2 DEF Spans
  <1>3. CASE ~ \E n \in Nodes : Near(F, n)
    BY <1>1, <1>3 DEF Spans
  <1> QED
    BY <1>1, <1>2, <1>3

(* The weights of the node or of the two nodes, and the node or nodes they *)
(* are the weights of.                                                     *)
LEMMA WeightsOf ==
    ASSUME NEW F \in Nat, Spans(F) # {}, NEW s, s = SpanOf(F)
    PROVE  /\ s[1] \in Nodes /\ s[2] \in Nodes /\ Den(F, s) \in Nat \ {0}
           /\ Alpha(F, s, 1) \in Nat \ {0} /\ Alpha(F, s, 2) \in Nat \ {0}
           /\ s[1] = s[2] => Den(F, s) = 1 /\ Alpha(F, s, 1) = 1 /\ Near(F, s[1])
           /\ s[1] # s[2] =>
                /\ s \in Neighbours /\ Between(F, s[1], s[2]) /\ \A n \in Nodes : ~ Near(F, n)
                /\ Alpha(F, s, 1) + Alpha(F, s, 2) = Den(F, s)
                /\ 10 * (s[1] * Alpha(F, s, 1) + s[2] * Alpha(F, s, 2)) = F * Den(F, s)
  <1>1. CASE \E n \in Nodes : s = <<n, n>> /\ Near(F, n)
    <2>1. PICK n \in Nodes : s = <<n, n>> /\ Near(F, n)
      BY <1>1
    <2>2. s[1] = n /\ s[2] = n
      BY <2>1
    <2>3. Den(F, s) = 1 /\ Alpha(F, s, 1) = 1 /\ Alpha(F, s, 2) = 1
      BY <2>2 DEF Den, Alpha
    <2> QED
      BY <2>1, <2>2, <2>3
  <1>2. CASE ~ \E n \in Nodes : s = <<n, n>> /\ Near(F, n)
    <2>1. /\ s \in Neighbours /\ Between(F, s[1], s[2]) /\ s \in Spans(F)
          /\ \A n \in Nodes : ~ Near(F, n)
      BY <1>2, SpanIs
    <2>2. s[1] \in Nodes /\ s[2] \in Nodes /\ s[1] # s[2] /\ s[2] < s[1]
      BY <2>1 DEF Neighbours, Nodes
    <2>3. Alpha(F, s, 1) = F - 10 * s[2] /\ Alpha(F, s, 2) = 10 * s[1] - F
          /\ Den(F, s) = 10 * (s[1] - s[2])
      BY <2>2 DEF Alpha, Den
    <2>4. s[1] \in Nat /\ s[2] \in Nat
      BY <2>2 DEF Nodes
    <2>5. Den(F, s) \in Nat \ {0}
      BY <2>2, <2>3, <2>4
    <2>6. /\ Alpha(F, s, 1) > 0 /\ Alpha(F, s, 2) > 0
          /\ Alpha(F, s, 1) + Alpha(F, s, 2) = Den(F, s)
          /\ 10 * (s[1] * Alpha(F, s, 1) + s[2] * Alpha(F, s, 2)) = F * Den(F, s)
      BY <2>1, <2>2, SharesMakeOneWhole
    <2>7. Alpha(F, s, 1) \in Int /\ Alpha(F, s, 2) \in Int
      BY <2>3, <2>4
    <2> QED
      BY <2>1, <2>2, <2>5, <2>6, <2>7
  <1> QED
    BY <1>1, <1>2

(* The tables: which flavors a node has, and that they hold numbers. *)
LEMMA FlavorsOfNodes ==
    ASSUME NEW n \in Nodes, NEW f \in ItrsFlavors
    PROVE  /\ HasFlavor(n, f) <=> f = HP \/ n # 180
           /\ HasFlavor(n, f) =>
                DeviceOf(n, f).vdd \in Nat /\ DeviceOf(n, f).v_th \in Nat
  <1>0. f \in {0, 1, 2} /\ HP = 0
    BY DEF ItrsFlavors, HP, LSTP, LOP
  <1>1. CASE n = 180
    <2>1. Devices(n) = << HP180 >>
      BY <1>1 DEF Devices
    <2> QED
      BY <1>0, <1>1, <2>1 DEF HasFlavor, DeviceOf, HP180, Device
  <1>2. CASE n = 90
    <2>1. Devices(n) = << HP90, LSTP90, LOP90 >>
      BY <1>2 DEF Devices
    <2> QED
      BY <1>0, <1>2, <2>1 DEF HasFlavor, DeviceOf, HP90, LSTP90, LOP90, Device
  <1>3. CASE n = 65
    <2>1. Devices(n) = << HP65, LSTP65, LOP65 >>
      BY <1>3 DEF Devices
    <2> QED
      BY <1>0, <1>3, <2>1 DEF HasFlavor, DeviceOf, HP65, LSTP65, LOP65, Device
  <1>4. CASE n = 45
    <2>1. Devices(n) = << HP45, LSTP45, LOP45 >>
      BY <1>4 DEF Devices
    <2> QED
      BY <1>0, <1>4, <2>1 DEF HasFlavor, DeviceOf, HP45, LSTP45, LOP45, Device
  <1>5. CASE n = 32
    <2>1. Devices(n) = << HP32, LSTP32, LOP32 >>
      BY <1>5 DEF Devices
    <2> QED
      BY <1>0, <1>5, <2>1 DEF HasFlavor, DeviceOf, HP32, LSTP32, LOP32, Device
  <1>6. CASE n = 22
    <2>1. Devices(n) = << HP22, LSTP22, LOP22 >>
      BY <1>6 DEF Devices
    <2> QED
      BY <1>0, <1>6, <2>1 DEF HasFlavor, DeviceOf, HP22, LSTP22, LOP22, Device
  <1> QED
    BY <1>1, <1>2, <1>3, <1>4, <1>5, <1>6 DEF Nodes

(* The local arrays at an iteration: a flavor's table is of the node when  *)
(* the node has it, or of the node before.                                 *)
Locals1(x, t) == Load(NoLocals, SpanOf(x.F)[1], x.ram[t])
Locals2(x, t) == Load(Locals1(x, t), SpanOf(x.F)[2], x.ram[t])

LEMMA Loaded ==
    ASSUME NEW x, NEW t, NEW s, s = SpanOf(x.F)
    PROVE  /\ \A f \in 0 .. 4 :
                /\ Locals1(x, t).dev[f] = IF f \in ItrsFlavors /\ HasFlavor(s[1], f) THEN s[1] ELSE 0
                /\ Locals2(x, t).dev[f] = IF f \in ItrsFlavors /\ HasFlavor(s[2], f) THEN s[2]
                                          ELSE Locals1(x, t).dev[f]
           /\ Locals1(x, t).dram = IF HasDram(s[1], x.ram[t]) THEN s[1] ELSE 0
           /\ Locals2(x, t).dram = IF HasDram(s[2], x.ram[t]) THEN s[2] ELSE Locals1(x, t).dram
  BY DEF Locals1, Locals2, Load, NoLocals

(* An iteration adds a share to every group, and to each apart. *)
LEMMA OneIteration ==
    ASSUME NEW D, NEW R, NEW W, NEW L, NEW alpha, NEW loc, NEW x, NEW t, NEW node
    PROVE  Others1(Devices1([dev |-> D, dram |-> R, wire |-> W, logic |-> L], alpha, loc, x, t),
                   alpha, node, x, t)
             = [dev |-> [g \in DevGroups |-> AddDevice(D[g], g, alpha, loc, FlavorOf(g, x, t), x)],
                dram |-> AddDram(R, alpha, loc, x.ram[t]),
                wire |-> [g \in WireGroups |-> AddWire(W[g], alpha, node, TypeOfWire(g, x, t), x)],
                logic |-> AddLogic(L, alpha, node)]
  <1> DEFINE D2 == [g \in DevGroups |-> AddDevice(D[g], g, alpha, loc, FlavorOf(g, x, t), x)]
             R2 == AddDram(R, alpha, loc, x.ram[t])
             W2 == [g \in WireGroups |-> AddWire(W[g], alpha, node, TypeOfWire(g, x, t), x)]
             L2 == AddLogic(L, alpha, node)
  <1>1. Devices1([dev |-> D, dram |-> R, wire |-> W, logic |-> L], alpha, loc, x, t)
          = [dev |-> D2, dram |-> R2, wire |-> W, logic |-> L]
    <2> DEFINE r == [dev |-> D, dram |-> R, wire |-> W, logic |-> L]
               D3 == [g \in DevGroups |-> AddDevice(r.dev[g], g, alpha, loc, FlavorOf(g, x, t), x)]
               R3 == AddDram(r.dram, alpha, loc, x.ram[t])
    <2>1. Devices1(r, alpha, loc, x, t) = [r EXCEPT !.dev = D3, !.dram = R3]
      BY Zenon DEF Devices1
    <2>2. r.dev = D /\ r.dram = R
      OBVIOUS
    <2>3. D3 = D2 /\ R3 = R2
      BY <2>2, Zenon
    <2> HIDE DEF D2, R2, D3, R3
    <2>4. [r EXCEPT !.dev = D2, !.dram = R2] = [dev |-> D2, dram |-> R2, wire |-> W, logic |-> L]
      <3>1. [r EXCEPT !.dev = D2] = [dev |-> D2, dram |-> R, wire |-> W, logic |-> L]
        OBVIOUS
      <3>2. [[dev |-> D2, dram |-> R, wire |-> W, logic |-> L] EXCEPT !.dram = R2]
              = [dev |-> D2, dram |-> R2, wire |-> W, logic |-> L]
        OBVIOUS
      <3> HIDE DEF r
      <3>3. [r EXCEPT !.dev = D2, !.dram = R2] = [[r EXCEPT !.dev = D2] EXCEPT !.dram = R2]
        OBVIOUS
      <3> QED
        BY <3>1, <3>2, <3>3
    <2> QED
      BY <2>1, <2>3, <2>4
  <1> HIDE DEF D2, R2
  <1>2. Others1([dev |-> D2, dram |-> R2, wire |-> W, logic |-> L], alpha, node, x, t)
          = [dev |-> D2, dram |-> R2, wire |-> W2, logic |-> L2]
    <2> DEFINE r == [dev |-> D2, dram |-> R2, wire |-> W, logic |-> L]
               W3 == [g \in WireGroups |-> AddWire(r.wire[g], alpha, node, TypeOfWire(g, x, t), x)]
               L3 == AddLogic(r.logic, alpha, node)
    <2>1. Others1(r, alpha, node, x, t) = [r EXCEPT !.logic = L3, !.wire = W3]
      BY Zenon DEF Others1
    <2>2. r.wire = W /\ r.logic = L
      OBVIOUS
    <2>3. W3 = W2 /\ L3 = L2
      BY <2>2, Zenon
    <2> HIDE DEF W2, L2, W3, L3
    <2>4. [r EXCEPT !.logic = L2, !.wire = W2] = [dev |-> D2, dram |-> R2, wire |-> W2, logic |-> L2]
      <3>1. [r EXCEPT !.logic = L2] = [dev |-> D2, dram |-> R2, wire |-> W, logic |-> L2]
        OBVIOUS
      <3>2. [[dev |-> D2, dram |-> R2, wire |-> W, logic |-> L2] EXCEPT !.wire = W2]
              = [dev |-> D2, dram |-> R2, wire |-> W2, logic |-> L2]
        OBVIOUS
      <3> HIDE DEF r
      <3>3. [r EXCEPT !.logic = L2, !.wire = W2] = [[r EXCEPT !.logic = L2] EXCEPT !.wire = W2]
        OBVIOUS
      <3> QED
        BY <3>1, <3>2, <3>3
    <2> QED
      BY <2>1, <2>3, <2>4
  <1> QED
    BY <1>1, <1>2 DEF D2, R2

ZeroWire  == [share |-> 0, node |-> 0, ild_thickness |-> 0, unset |-> {}]
ZeroDram  == [share |-> 0, node |-> 0, Vdd |-> 0, unset |-> {}]
ZeroLogic == [share |-> 0, node |-> 0, co_eff |-> 0]

(* What a group comes to: in one iteration or in both, from nothing. *)
LEMMA GroupsOf ==
    ASSUME NEW x, NEW t, NEW s, s = SpanOf(x.F), NEW T, T = Interpolated(Zero, x, t),
           NEW a, a = Alpha(x.F, s, 1), NEW b, b = Alpha(x.F, s, 2),
           NEW one, one = Locals1(x, t), NEW two, two = Locals2(x, t)
    PROVE  /\ s[1] = s[2] =>
                /\ \A g \in DevGroups :
                     T.dev[g] = AddDevice(ZeroDevice, g, a, one, FlavorOf(g, x, t), x)
                /\ T.dram = AddDram(ZeroDram, a, one, x.ram[t])
                /\ \A g \in WireGroups : T.wire[g] = AddWire(ZeroWire, a, s[1], TypeOfWire(g, x, t), x)
                /\ T.logic = AddLogic(ZeroLogic, a, s[1])
           /\ s[1] # s[2] =>
                /\ \A g \in DevGroups :
                     T.dev[g] = AddDevice(AddDevice(ZeroDevice, g, a, one, FlavorOf(g, x, t), x),
                                          g, b, two, FlavorOf(g, x, t), x)
                /\ T.dram = AddDram(AddDram(ZeroDram, a, one, x.ram[t]), b, two, x.ram[t])
                /\ \A g \in WireGroups :
                     T.wire[g] = AddWire(AddWire(ZeroWire, a, s[1], TypeOfWire(g, x, t), x),
                                         b, s[2], TypeOfWire(g, x, t), x)
                /\ T.logic = AddLogic(AddLogic(ZeroLogic, a, s[1]), b, s[2])
  <1> DEFINE D0 == [g \in DevGroups |-> ZeroDevice]
             W0 == [g \in WireGroups |-> ZeroWire]
             D1 == [g \in DevGroups |-> AddDevice(D0[g], g, a, one, FlavorOf(g, x, t), x)]
             R1 == AddDram(ZeroDram, a, one, x.ram[t])
             W1 == [g \in WireGroups |-> AddWire(W0[g], a, s[1], TypeOfWire(g, x, t), x)]
             L1 == AddLogic(ZeroLogic, a, s[1])
             first == [dev |-> D1, dram |-> R1, wire |-> W1, logic |-> L1]
  <1>1. Zero = [dev |-> D0, dram |-> ZeroDram, wire |-> W0, logic |-> ZeroLogic]
    BY DEF Zero, ZeroDram, ZeroWire, ZeroLogic
  <1>2. T = IF s[1] = s[2] THEN Others1(Devices1(Zero, a, one, x, t), a, s[1], x, t)
            ELSE Others1(Devices1(Others1(Devices1(Zero, a, one, x, t), a, s[1], x, t), b, two, x, t),
                         b, s[2], x, t)
    <2>1. 2 \in Iterations(s) <=> s[1] # s[2]
      BY DEF Iterations
    <2> QED
      BY <2>1 DEF Interpolated, Reset, Locals1, Locals2
  <1> HIDE DEF D0, W0
  <1>3. Others1(Devices1(Zero, a, one, x, t), a, s[1], x, t) = first
    BY <1>1, OneIteration
  <1> HIDE DEF D1, R1, W1, L1
  <1>4. Others1(Devices1(first, b, two, x, t), b, s[2], x, t)
          = [dev |-> [g \in DevGroups |-> AddDevice(D1[g], g, b, two, FlavorOf(g, x, t), x)],
             dram |-> AddDram(R1, b, two, x.ram[t]),
             wire |-> [g \in WireGroups |-> AddWire(W1[g], b, s[2], TypeOfWire(g, x, t), x)],
             logic |-> AddLogic(L1, b, s[2])]
    BY OneIteration
  <1>5. \A g \in DevGroups : D1[g] = AddDevice(ZeroDevice, g, a, one, FlavorOf(g, x, t), x)
    BY DEF D1, D0
  <1>6. \A g \in WireGroups : W1[g] = AddWire(ZeroWire, a, s[1], TypeOfWire(g, x, t), x)
    BY DEF W1, W0
  <1>7. CASE s[1] = s[2]
    BY <1>2, <1>3, <1>5, <1>6, <1>7 DEF R1, L1
  <1>8. CASE s[1] # s[2]
    <2>1. T = Others1(Devices1(first, b, two, x, t), b, s[2], x, t)
      BY <1>2, <1>3, <1>8
    <2> HIDE DEF first
    <2> QED
      BY <1>4, <1>5, <1>6, <1>8, <2>1 DEF R1, L1
  <1> QED
    BY <1>7, <1>8

-----------------------------------------------------------------------------
(* A share of a device whose table is loaded, and of one's that is not. *)
Supply(x, n, f) == IF x.vdd[f] = 0 THEN DeviceOf(n, f).vdd ELSE x.vdd[f]

LEMMA AddLoaded ==
    ASSUME NEW acc, NEW g, NEW alpha, NEW loc, NEW f, NEW x, NEW n, n # 0, loc.dev[f] = n,
           NEW r, r = AddDevice(acc, g, alpha, loc, f, x)
    PROVE  /\ r.share = acc.share + alpha /\ r.node = acc.node + alpha * n
           /\ r.Vdd = acc.Vdd + alpha * Supply(x, n, f)
           /\ r.Vdd_default = acc.Vdd_default + alpha * DeviceOf(n, f).vdd
           /\ r.Vth = acc.Vth + alpha * DeviceOf(n, f).v_th
           /\ r.Vcc_min_default = acc.Vcc_min_default + VccShare(g, r.Vdd, r.Vdd_default)
           /\ r.unset = acc.unset \cup (IF x.temp \in TableTemps THEN {} ELSE {"I_off"})
  <1> DEFINE vdd == acc.Vdd + alpha * Supply(x, n, f)
             default == acc.Vdd_default + alpha * DeviceOf(n, f).vdd
             q == [share |-> acc.share + alpha, node |-> acc.node + alpha * n,
                   Vdd |-> vdd, Vdd_default |-> default, Vth |-> acc.Vth + alpha * DeviceOf(n, f).v_th,
                   Vcc_min_default |-> acc.Vcc_min_default + VccShare(g, vdd, default),
                   unset |-> acc.unset \cup (IF x.temp \in TableTemps THEN {} ELSE {"I_off"})]
  <1>1. r = q
    BY DEF AddDevice, Supply
  <1>2. r.Vdd = vdd /\ r.Vdd_default = default
    BY <1>1
  <1> QED
    BY <1>1, <1>2

LEMMA AddNotLoaded ==
    ASSUME NEW acc, NEW g, NEW alpha, NEW loc, NEW f, NEW x, loc.dev[f] = 0,
           {"share", "unset"} \subseteq DOMAIN acc,
           NEW r, r = AddDevice(acc, g, alpha, loc, f, x)
    PROVE  /\ {"share", "unset"} \subseteq DOMAIN r
           /\ r.share = acc.share /\ "Vdd" \in r.unset
  <1> DEFINE u == acc.unset \cup (IF x.temp \in TableTemps THEN {} ELSE {"I_off"}) \cup {"Vdd"}
  <1>1. r = [acc EXCEPT !.unset = u]
    BY DEF AddDevice
  <1>2. "Vdd" \in u
    OBVIOUS
  <1> HIDE DEF u
  <1> QED
    BY <1>1, <1>2

(* The flavors that can be asked of a group. *)
LEMMA FlavorsAsked ==
    ASSUME NEW x \in Input, NEW t \in BOOLEAN, NEW g \in DevGroups
    PROVE  /\ FlavorOf(g, x, t) \in 0 .. 4
           /\ g = "peri_global" => FlavorOf(g, x, t) = x.peri[t]
           /\ g = "sleep_tx" => FlavorOf(g, x, t) = LSTP
           /\ g \in {"sram_cell", "cam_cell"} => FlavorOf(g, x, t) = x.ram[t]
  <1>1. x.ram[t] \in 0 .. 4 /\ x.peri[t] \in 0 .. 4
    BY DEF Input
  <1>2. CASE g = "peri_global"
    BY <1>1, <1>2 DEF FlavorOf
  <1>3. CASE g = "sleep_tx"
    BY <1>3 DEF FlavorOf, LSTP
  <1>4. CASE g = "sram_cell"
    BY <1>1, <1>4 DEF FlavorOf
  <1>5. CASE g = "cam_cell"
    BY <1>1, <1>5 DEF FlavorOf
  <1> QED
    BY <1>2, <1>3, <1>4, <1>5 DEF DevGroups

(* A device group of g_tp: whole of what both nodes have, or marked. *)
LEMMA DeviceSum ==
    ASSUME NEW x \in Input, NEW t \in BOOLEAN, TechOf(x, t), NEW g \in DevGroups,
           NEW f, f = FlavorOf(g, x, t), NEW s, s = SpanOf(x.F), NEW d, d = tp.sum.dev[g]
    PROVE  /\ d.share \in 0 .. tp.den
           /\ ~ (f \in ItrsFlavors /\ HasFlavor(s[1], f)) => "Vdd" \in d.unset
           /\ f \in ItrsFlavors /\ HasFlavor(s[1], f) =>
                /\ HasFlavor(s[2], f)
                /\ d.unset = IF x.temp \in TableTemps THEN {} ELSE {"I_off"}
                /\ d.share = tp.den
                /\ s[1] = s[2] => /\ d.node = s[1]
                                  /\ d.Vdd = Supply(x, s[1], f)
                                  /\ d.Vdd_default = DeviceOf(s[1], f).vdd
                                  /\ d.Vth = DeviceOf(s[1], f).v_th
                                  /\ d.Vcc_min_default = VccShare(g, d.Vdd, d.Vdd_default)
                /\ s[1] # s[2] =>
                     LET a == Alpha(x.F, s, 1)  b == Alpha(x.F, s, 2) IN
                     /\ d.node = a * s[1] + b * s[2]
                     /\ d.Vdd = a * Supply(x, s[1], f) + b * Supply(x, s[2], f)
                     /\ d.Vdd_default = a * DeviceOf(s[1], f).vdd + b * DeviceOf(s[2], f).vdd
                     /\ d.Vth = a * DeviceOf(s[1], f).v_th + b * DeviceOf(s[2], f).v_th
  <1>1. x.F \in Nat /\ Spans(x.F) # {}
    BY DEF TechOf, InvalidNode, Input
  <1>2. PICK a : a = Alpha(x.F, s, 1)
    OBVIOUS
  <1>3. PICK b : b = Alpha(x.F, s, 2)
    OBVIOUS
  <1>4. PICK one : one = Locals1(x, t)
    OBVIOUS
  <1>5. PICK two : two = Locals2(x, t)
    OBVIOUS
  <1>6. /\ s[1] \in Nodes /\ s[2] \in Nodes /\ tp.den \in Nat \ {0}
        /\ a \in Nat \ {0} /\ b \in Nat \ {0}
        /\ s[1] = s[2] => tp.den = 1 /\ a = 1
        /\ s[1] # s[2] => s \in Neighbours /\ a + b = tp.den
    BY <1>1, <1>2, <1>3, WeightsOf DEF TechOf
  <1>7. /\ s[1] = s[2] => d = AddDevice(ZeroDevice, g, a, one, f, x)
        /\ s[1] # s[2] => d = AddDevice(AddDevice(ZeroDevice, g, a, one, f, x), g, b, two, f, x)
    BY <1>2, <1>3, <1>4, <1>5, GroupsOf DEF TechOf
  <1>8. f \in 0 .. 4
    BY FlavorsAsked
  <1>9. /\ one.dev[f] = IF f \in ItrsFlavors /\ HasFlavor(s[1], f) THEN s[1] ELSE 0
        /\ two.dev[f] = IF f \in ItrsFlavors /\ HasFlavor(s[2], f) THEN s[2] ELSE one.dev[f]
    BY <1>4, <1>5, <1>8, Loaded
  <1>10. PICK r : r = AddDevice(ZeroDevice, g, a, one, f, x)
    OBVIOUS
  <1>11. /\ s[1] = s[2] => d = r
         /\ s[1] # s[2] => d = AddDevice(r, g, b, two, f, x)
    BY <1>7, <1>10
  <1>12. /\ ZeroDevice.share = 0 /\ ZeroDevice.node = 0 /\ ZeroDevice.Vdd = 0
         /\ ZeroDevice.Vdd_default = 0 /\ ZeroDevice.Vth = 0 /\ ZeroDevice.Vcc_min_default = 0
         /\ ZeroDevice.unset = {} /\ {"share", "unset"} \subseteq DOMAIN ZeroDevice
    BY DEF ZeroDevice
  <1>13. 0 \notin Nodes /\ Nodes \subseteq Nat /\ \A n \in Neighbours : n[2] # 180
    BY DEF Nodes, Neighbours
  <1>14. CASE f \in ItrsFlavors /\ HasFlavor(s[1], f)
    <2>1. HasFlavor(s[2], f)
      <3>1. CASE s[1] = s[2]
        BY <1>14, <3>1
      <3>2. CASE s[1] # s[2]
        <4>1. s[2] # 180
          BY <1>6, <1>13, <3>2
        <4>2. s[2] \in Nodes /\ f \in ItrsFlavors
          BY <1>6, <1>14
        <4> QED
          BY <4>1, <4>2, FlavorsOfNodes
      <3> QED
        BY <3>1, <3>2
    <2>2. one.dev[f] = s[1] /\ two.dev[f] = s[2] /\ s[1] # 0 /\ s[2] # 0
      BY <1>6, <1>9, <1>13, <1>14, <2>1
    <2>3. PICK p, q : p = DeviceOf(s[1], f) /\ q = DeviceOf(s[2], f)
      OBVIOUS
    <2>4. p.vdd \in Nat /\ p.v_th \in Nat /\ q.vdd \in Nat /\ q.v_th \in Nat
      BY <1>6, <1>14, <2>1, <2>3, FlavorsOfNodes
    <2>5. PICK u, w : u = Supply(x, s[1], f) /\ w = Supply(x, s[2], f)
      OBVIOUS
    <2>6. u \in Nat /\ w \in Nat
      BY <1>14, <2>3, <2>4, <2>5 DEF Supply, Input
    <2>7. /\ r.share = 0 + a /\ r.node = 0 + a * s[1]
          /\ r.Vdd = 0 + a * u /\ r.Vdd_default = 0 + a * p.vdd /\ r.Vth = 0 + a * p.v_th
          /\ r.Vcc_min_default = 0 + VccShare(g, r.Vdd, r.Vdd_default)
          /\ r.unset = {} \cup (IF x.temp \in TableTemps THEN {} ELSE {"I_off"})
      <3>1. /\ r.share = ZeroDevice.share + a /\ r.node = ZeroDevice.node + a * s[1]
            /\ r.Vdd = ZeroDevice.Vdd + a * Supply(x, s[1], f)
            /\ r.Vdd_default = ZeroDevice.Vdd_default + a * DeviceOf(s[1], f).vdd
            /\ r.Vth = ZeroDevice.Vth + a * DeviceOf(s[1], f).v_th
            /\ r.Vcc_min_default = ZeroDevice.Vcc_min_default + VccShare(g, r.Vdd, r.Vdd_default)
            /\ r.unset = ZeroDevice.unset \cup (IF x.temp \in TableTemps THEN {} ELSE {"I_off"})
        <4>1. PICK z : z = ZeroDevice
          OBVIOUS
        <4>2. r = AddDevice(z, g, a, one, f, x)
          BY <1>10, <4>1
        <4>3. /\ r.share = z.share + a /\ r.node = z.node + a * s[1]
              /\ r.Vdd = z.Vdd + a * Supply(x, s[1], f)
              /\ r.Vdd_default = z.Vdd_default + a * DeviceOf(s[1], f).vdd
              /\ r.Vth = z.Vth + a * DeviceOf(s[1], f).v_th
              /\ r.unset = z.unset \cup (IF x.temp \in TableTemps THEN {} ELSE {"I_off"})
          BY <2>2, <4>2, AddLoaded
        <4>4. r.Vcc_min_default = z.Vcc_min_default + VccShare(g, r.Vdd, r.Vdd_default)
          BY <2>2, <4>2, AddLoaded
        <4> QED
          BY <4>1, <4>3, <4>4, Zenon
      <3> QED
        BY <1>12, <2>3, <2>5, <3>1, Zenon
    <2>12. PICK m : m = s[1]
      OBVIOUS
    <2>8. /\ r.share = a /\ r.node = a * s[1] /\ r.Vdd = a * u
          /\ r.Vdd_default = a * p.vdd /\ r.Vth = a * p.v_th
          /\ r.unset = IF x.temp \in TableTemps THEN {} ELSE {"I_off"}
      <3>1. m \in Nat /\ a \in Nat
        BY <1>6, <1>13, <2>12
      <3>2. 0 + a = a /\ 0 + a * m = a * m /\ 0 + a * u = a * u
            /\ 0 + a * p.vdd = a * p.vdd /\ 0 + a * p.v_th = a * p.v_th
        BY <2>4, <2>6, <3>1
      <3>3. {} \cup (IF x.temp \in TableTemps THEN {} ELSE {"I_off"})
              = IF x.temp \in TableTemps THEN {} ELSE {"I_off"}
        OBVIOUS
      <3> QED
        BY <2>7, <2>12, <3>2, <3>3, Zenon
    <2>9. CASE s[1] = s[2]
      <3>1. VccShare(g, u, p.vdd) \in Nat
        <4>1. 9 * p.vdd \in Nat /\ 12 * p.vdd \in Nat /\ 20 * u \in Nat
          BY <2>4, <2>6
        <4> QED
          BY <4>1, Zenon DEF VccShare
      <3>2. r.Vdd = u /\ r.Vdd_default = p.vdd /\ r.Vth = p.v_th /\ r.node = s[1] /\ r.share = tp.den
        <4>1. m \in Nat /\ a = 1 /\ tp.den = 1
          BY <1>6, <1>13, <2>9, <2>12
        <4>2. a * m = m /\ a * u = u /\ a * p.vdd = p.vdd /\ a * p.v_th = p.v_th
          BY <2>4, <2>6, <4>1
        <4> QED
          BY <2>8, <2>12, <4>1, <4>2, Zenon
      <3>3. r.Vcc_min_default = VccShare(g, r.Vdd, r.Vdd_default)
        BY <2>7, <3>1, <3>2
      <3>4. d = r /\ tp.den \in 0 .. tp.den
        BY <1>6, <1>11, <2>9
      <3> QED
        BY <1>14, <2>1, <2>3, <2>5, <2>8, <2>9, <3>2, <3>3, <3>4
    <2>10. CASE s[1] # s[2]
      <3>1. /\ d.share = r.share + b /\ d.node = r.node + b * s[2] /\ d.Vdd = r.Vdd + b * w
            /\ d.Vdd_default = r.Vdd_default + b * q.vdd /\ d.Vth = r.Vth + b * q.v_th
            /\ d.unset = r.unset \cup (IF x.temp \in TableTemps THEN {} ELSE {"I_off"})
        BY <1>11, <2>2, <2>3, <2>5, <2>10, AddLoaded
      <3>2. d.share = tp.den /\ d.unset = IF x.temp \in TableTemps THEN {} ELSE {"I_off"}
        BY <1>6, <2>8, <2>10, <3>1
      <3>3. tp.den \in 0 .. tp.den
        BY <1>6
      <3> QED
        BY <1>2, <1>3, <1>14, <2>1, <2>3, <2>5, <2>8, <2>10, <3>1, <3>2, <3>3
    <2> QED
      BY <2>9, <2>10
  <1>15. CASE ~ (f \in ItrsFlavors /\ HasFlavor(s[1], f))
    <2>1. one.dev[f] = 0
      BY <1>9, <1>15
    <2>2. {"share", "unset"} \subseteq DOMAIN r /\ r.share = 0 /\ "Vdd" \in r.unset
      BY <1>10, <1>12, <2>1, AddNotLoaded
    <2>3. CASE s[1] = s[2]
      BY <1>6, <1>11, <1>15, <2>2, <2>3
    <2>4. CASE s[1] # s[2]
      <3>1. CASE two.dev[f] = 0
        <4>1. d.share = 0 /\ "Vdd" \in d.unset
          BY <1>11, <2>2, <2>4, <3>1, AddNotLoaded
        <4> QED
          BY <1>6, <1>15, <4>1
      <3>2. CASE two.dev[f] # 0
        <4>1. d.share = 0 + b /\ d.unset = r.unset \cup (IF x.temp \in TableTemps THEN {} ELSE {"I_off"})
          BY <1>11, <2>2, <2>4, <3>2, AddLoaded
        <4> QED
          BY <1>6, <1>15, <2>2, <2>4, <4>1
      <3> QED
        BY <3>1, <3>2
    <2> QED
      BY <2>3, <2>4
  <1> QED
    BY <1>14, <1>15

(* The DRAM cell, a wire and the logic, likewise. *)
LEMMA AddDramIs ==
    ASSUME NEW acc, NEW alpha, NEW loc, NEW ram, NEW r, r = AddDram(acc, alpha, loc, ram),
           {"share", "unset"} \subseteq DOMAIN acc
    PROVE  /\ loc.dram = 0 => r.share = acc.share /\ r.unset = {"Vdd"}
           /\ loc.dram # 0 => /\ r.share = acc.share + alpha /\ r.unset = acc.unset
                              /\ r.node = acc.node + alpha * loc.dram
           /\ {"share", "unset"} \subseteq DOMAIN r
  <1>1. CASE loc.dram = 0
    <2>1. r = [acc EXCEPT !.unset = {"Vdd"}]
      BY <1>1 DEF AddDram
    <2> QED
      BY <1>1, <2>1
  <1>2. CASE loc.dram # 0
    <2>1. r = [share |-> acc.share + alpha, node |-> acc.node + alpha * loc.dram,
               Vdd |-> acc.Vdd + alpha * DramVdd(loc.dram, ram), unset |-> acc.unset]
      BY <1>2 DEF AddDram
    <2> QED
      BY <1>2, <2>1
  <1> QED
    BY <1>1, <1>2

LEMMA AddWireIs ==
    ASSUME NEW acc, NEW alpha, NEW node, NEW type, NEW x, NEW r, r = AddWire(acc, alpha, node, type, x),
           {"share", "unset"} \subseteq DOMAIN acc
    PROVE  /\ type \notin WireTypes => r.share = acc.share /\ r.unset = {"ild_thickness"}
           /\ type \in WireTypes => /\ r.share = acc.share + alpha /\ r.unset = acc.unset
                                    /\ r.node = acc.node + alpha * node
           /\ {"share", "unset"} \subseteq DOMAIN r
  <1>1. CASE type \notin WireTypes
    <2>1. r = [acc EXCEPT !.unset = {"ild_thickness"}]
      BY <1>1 DEF AddWire
    <2> QED
      BY <1>1, <2>1
  <1>2. CASE type \in WireTypes
    <2>1. r = [share |-> acc.share + alpha, node |-> acc.node + alpha * node,
               ild_thickness |-> acc.ild_thickness + alpha * WireOf(node, x.proj, type),
               unset |-> acc.unset]
      BY <1>2 DEF AddWire
    <2> QED
      BY <1>2, <2>1
  <1> QED
    BY <1>1, <1>2

LEMMA DramSum ==
    ASSUME NEW x \in Input, NEW t \in BOOLEAN, TechOf(x, t),
           NEW s, s = SpanOf(x.F), NEW d, d = tp.sum.dram
    PROVE  /\ d.share \in 0 .. tp.den
           /\ d.unset = {} <=> HasDram(s[1], x.ram[t])
           /\ HasDram(s[1], x.ram[t]) =>
                /\ d.share = tp.den
                /\ s[1] = s[2] => d.node = s[1]
                /\ s[1] # s[2] /\ HasDram(s[2], x.ram[t]) =>
                     d.node = Alpha(x.F, s, 1) * s[1] + Alpha(x.F, s, 2) * s[2]
  <1> DEFINE ram == x.ram[t]
  <1>1. x.F \in Nat /\ Spans(x.F) # {}
    BY DEF TechOf, InvalidNode, Input
  <1>2. PICK a, b : a = Alpha(x.F, s, 1) /\ b = Alpha(x.F, s, 2)
    OBVIOUS
  <1>3. PICK one, two : one = Locals1(x, t) /\ two = Locals2(x, t)
    OBVIOUS
  <1>4. PICK m, n : m = s[1] /\ n = s[2]
    OBVIOUS
  <1>5. /\ m \in Nodes /\ n \in Nodes /\ tp.den \in Nat \ {0} /\ m # 0 /\ n # 0 /\ m \in Nat /\ n \in Nat
        /\ a \in Nat \ {0} /\ b \in Nat \ {0}
        /\ m = n => tp.den = 1 /\ a = 1
        /\ m # n => a + b = tp.den
    BY <1>1, <1>2, <1>4, WeightsOf DEF TechOf, Nodes
  <1>6. PICK r : r = AddDram(ZeroDram, a, one, ram)
    OBVIOUS
  <1>7. /\ m = n => d = r
        /\ m # n => d = AddDram(r, b, two, ram)
    BY <1>2, <1>3, <1>4, <1>6, GroupsOf DEF TechOf
  <1>8. /\ one.dram = IF HasDram(m, ram) THEN m ELSE 0
        /\ two.dram = IF HasDram(n, ram) THEN n ELSE one.dram
    BY <1>3, <1>4, Loaded
  <1> HIDE DEF ram
  <1>9. PICK z : z = ZeroDram
    OBVIOUS
  <1>10. z.share = 0 /\ z.node = 0 /\ z.unset = {} /\ {"share", "unset"} \subseteq DOMAIN z
    BY <1>9 DEF ZeroDram
  <1>11. /\ one.dram = 0 => r.share = z.share /\ r.unset = {"Vdd"}
         /\ one.dram # 0 => /\ r.share = z.share + a /\ r.unset = z.unset
                            /\ r.node = z.node + a * one.dram
         /\ {"share", "unset"} \subseteq DOMAIN r
    BY <1>6, <1>9, <1>10, AddDramIs
  <1>12. m # n => /\ two.dram = 0 => d.share = r.share /\ d.unset = {"Vdd"}
                  /\ two.dram # 0 => /\ d.share = r.share + b /\ d.unset = r.unset
                                     /\ d.node = r.node + b * two.dram
    BY <1>7, <1>11, AddDramIs
  <1>13. CASE HasDram(m, ram)
    <2>1. r.share = a /\ r.unset = {} /\ r.node = a * m
      BY <1>5, <1>8, <1>10, <1>11, <1>13
    <2>2. CASE m = n
      <3>1. r.share = tp.den /\ r.node = m /\ tp.den \in 0 .. tp.den
        BY <1>5, <2>1, <2>2
      <3> QED
        BY <1>4, <1>7, <1>13, <2>1, <2>2, <3>1 DEF ram
    <2>3. CASE m # n
      <3>1. d.share = a + b /\ d.unset = {} /\ (HasDram(n, ram) => d.node = a * m + b * n)
        BY <1>5, <1>8, <1>12, <1>13, <2>1, <2>3
      <3>2. d.share = tp.den /\ tp.den \in 0 .. tp.den
        BY <1>5, <2>3, <3>1
      <3> QED
        BY <1>2, <1>4, <1>13, <2>3, <3>1, <3>2 DEF ram
    <2> QED
      BY <2>2, <2>3
  <1>14. CASE ~ HasDram(m, ram)
    <2>1. r.share = 0 /\ r.unset = {"Vdd"}
      BY <1>8, <1>10, <1>11, <1>14
    <2>2. d.unset # {} /\ d.share \in 0 .. tp.den
      <3>1. CASE m = n
        BY <1>5, <1>7, <2>1, <3>1
      <3>2. CASE m # n
        <4>1. d.unset = {"Vdd"} /\ (d.share = 0 \/ d.share = 0 + b)
          BY <1>12, <2>1, <3>2
        <4> QED
          BY <1>5, <3>2, <4>1
      <3> QED
        BY <3>1, <3>2
    <2> QED
      BY <1>4, <1>14, <2>2 DEF ram
  <1> QED
    BY <1>13, <1>14

LEMMA WireSum ==
    ASSUME NEW x \in Input, NEW t \in BOOLEAN, TechOf(x, t), NEW g \in WireGroups,
           NEW s, s = SpanOf(x.F), NEW d, d = tp.sum.wire[g]
    PROVE  /\ d.share \in 0 .. tp.den
           /\ d.unset = {} => /\ d.share = tp.den
                              /\ s[1] = s[2] => d.node = s[1]
                              /\ s[1] # s[2] => d.node = Alpha(x.F, s, 1) * s[1] + Alpha(x.F, s, 2) * s[2]
           /\ d.unset = {} \/ (g = "wire_local" /\ x.ram[t] = CommDram)
  <1>1. x.F \in Nat /\ Spans(x.F) # {}
    BY DEF TechOf, InvalidNode, Input
  <1>2. PICK a, b : a = Alpha(x.F, s, 1) /\ b = Alpha(x.F, s, 2)
    OBVIOUS
  <1>4. PICK m, n : m = s[1] /\ n = s[2]
    OBVIOUS
  <1>5. /\ tp.den \in Nat \ {0} /\ m \in Nat /\ n \in Nat
        /\ a \in Nat \ {0} /\ b \in Nat \ {0}
        /\ m = n => tp.den = 1 /\ a = 1
        /\ m # n => a + b = tp.den
    BY <1>1, <1>2, <1>4, WeightsOf DEF TechOf, Nodes
  <1>3. PICK type : type = TypeOfWire(g, x, t)
    OBVIOUS
  <1>6. PICK r : r = AddWire(ZeroWire, a, m, type, x)
    OBVIOUS
  <1>7. /\ m = n => d = r
        /\ m # n => d = AddWire(r, b, n, type, x)
    BY <1>2, <1>3, <1>4, <1>6, GroupsOf DEF TechOf
  <1>8. type \in WireTypes \/ (g = "wire_local" /\ x.ram[t] = CommDram)
    <2>1. CASE g = "wire_local"
      BY <1>3, <2>1 DEF TypeOfWire, WireTypes
    <2>2. CASE g = "wire_inside_mat"
      BY <1>3, <2>2 DEF TypeOfWire, Input
    <2>3. CASE g = "wire_outside_mat"
      BY <1>3, <2>3 DEF TypeOfWire, Input
    <2> QED
      BY <2>1, <2>2, <2>3 DEF WireGroups
  <1>9. PICK z : z = ZeroWire
    OBVIOUS
  <1>10. z.share = 0 /\ z.node = 0 /\ z.unset = {} /\ {"share", "unset"} \subseteq DOMAIN z
    BY <1>9 DEF ZeroWire
  <1>11. /\ type \notin WireTypes => r.share = z.share /\ r.unset = {"ild_thickness"}
         /\ type \in WireTypes => /\ r.share = z.share + a /\ r.unset = z.unset /\ r.node = z.node + a * m
         /\ {"share", "unset"} \subseteq DOMAIN r
    BY <1>6, <1>9, <1>10, AddWireIs
  <1>12. m # n => /\ type \notin WireTypes => d.share = r.share /\ d.unset = {"ild_thickness"}
                  /\ type \in WireTypes => /\ d.share = r.share + b /\ d.unset = r.unset
                                           /\ d.node = r.node + b * n
    BY <1>7, <1>11, AddWireIs
  <1>13. CASE type \in WireTypes
    <2>1. r.share = a /\ r.unset = {} /\ r.node = a * m
      BY <1>5, <1>10, <1>11, <1>13
    <2>2. CASE m = n
      <3>1. r.share = tp.den /\ r.node = m /\ tp.den \in 0 .. tp.den
        BY <1>5, <2>1, <2>2
      <3> QED
        BY <1>4, <1>7, <2>1, <2>2, <3>1
    <2>3. CASE m # n
      <3>1. d.share = a + b /\ d.unset = {} /\ d.node = a * m + b * n
        BY <1>5, <1>12, <1>13, <2>1, <2>3
      <3>2. d.share = tp.den /\ tp.den \in 0 .. tp.den
        BY <1>5, <2>3, <3>1
      <3> QED
        BY <1>2, <1>4, <2>3, <3>1, <3>2
    <2> QED
      BY <2>2, <2>3
  <1>14. CASE type \notin WireTypes
    <2>1. r.share = 0 /\ r.unset = {"ild_thickness"}
      BY <1>10, <1>11, <1>14
    <2>2. d.unset = {"ild_thickness"} /\ d.share = 0
      BY <1>7, <1>12, <1>14, <2>1
    <2> QED
      BY <1>5, <1>8, <1>14, <2>2
  <1> QED
    BY <1>13, <1>14

LEMMA LogicSum ==
    ASSUME NEW x \in Input, NEW t \in BOOLEAN, TechOf(x, t)
    PROVE  tp.sum.logic.share = tp.den /\ tp.den \in Nat \ {0}
  <1> DEFINE s == SpanOf(x.F)
  <1>1. x.F \in Nat /\ Spans(x.F) # {}
    BY DEF TechOf, InvalidNode, Input
  <1>2. PICK a, b : a = Alpha(x.F, s, 1) /\ b = Alpha(x.F, s, 2)
    OBVIOUS
  <1>3. /\ tp.den \in Nat \ {0} /\ a \in Nat /\ b \in Nat
        /\ s[1] = s[2] => tp.den = 1 /\ a = 1
        /\ s[1] # s[2] => a + b = tp.den
    BY <1>1, <1>2, WeightsOf DEF TechOf
  <1> HIDE DEF s
  <1>4. /\ s[1] = s[2] => tp.sum.logic = AddLogic(ZeroLogic, a, s[1])
        /\ s[1] # s[2] => tp.sum.logic = AddLogic(AddLogic(ZeroLogic, a, s[1]), b, s[2])
    BY <1>2, GroupsOf DEF TechOf, s
  <1>5. \A acc, c, n : AddLogic(acc, c, n).share = acc.share + c
    BY DEF AddLogic
  <1>6. ZeroLogic.share = 0
    BY DEF ZeroLogic
  <1> QED
    BY <1>3, <1>4, <1>5, <1>6

-----------------------------------------------------------------------------
(* A weighted average lies between what it is the average of. *)
LEMMA Average ==
    ASSUME NEW a \in Nat, NEW b \in Nat, NEW v \in Nat, NEW w \in Nat, NEW den, den = a + b,
           NEW value, value = a * v + b * w
    PROVE  \/ v * den <= value /\ value <= w * den
           \/ w * den <= value /\ value <= v * den
  <1>1. v * den = a * v + b * v /\ w * den = a * w + b * w
    OBVIOUS
  <1>2. CASE v <= w
    <2>1. a * v <= a * w /\ b * v <= b * w
      BY <1>2
    <2> QED
      BY <1>1, <2>1
  <1>3. CASE w <= v
    <2>1. a * w <= a * v /\ b * w <= b * v
      BY <1>3
    <2> QED
      BY <1>1, <2>1
  <1> QED
    BY <1>2, <1>3

(* What is known of an input and of the technology calculated for it. *)
LEMMA InputIs ==
    ASSUME NEW x \in Input, NEW t \in BOOLEAN
    PROVE  /\ x.F \in Nat /\ x.temp \in Nat /\ x.vdd \in [ItrsFlavors -> Nat]
           /\ x.ram[t] \in 0 .. 4 /\ x.peri[t] \in 0 .. 4
  BY DEF Input

LEMMA TechIs ==
    ASSUME NEW x, NEW t, TechOf(x, t)
    PROVE  /\ Spans(x.F) # {} /\ ~ (Near(x.F, 22) /\ x.ram[t] = LPDram)
           /\ tp.of.F = x.F /\ tp.of.ram = x.ram[t] /\ tp.of.peri = x.peri[t] /\ tp.of.vdd = x.vdd
  <1>1. Spans(x.F) # {} /\ ~ (Near(x.F, 22) /\ x.ram[t] = LPDram)
    BY DEF TechOf, InvalidNode
  <1>2. tp.of = Of(x, t)
    BY DEF TechOf
  <1> QED
    BY <1>1, <1>2 DEF Of

LEMMA DeviceInterpolated ==
    ASSUME NEW x \in Input, NEW t \in BOOLEAN, TechOf(x, t), NEW g \in DevGroups,
           NEW f, f = FlavorOf(g, x, t), NEW d, d = tp.sum.dev[g]
    PROVE  OneWhole(d) /\ DeviceBetween(d, f)
  <1>1. x.F \in Nat /\ Spans(x.F) # {} /\ tp.of.F = x.F /\ tp.of.vdd = x.vdd
    BY InputIs, TechIs
  <1>2. PICK s : s = SpanOf(x.F)
    OBVIOUS
  <1>3. PICK a, b : a = Alpha(x.F, s, 1) /\ b = Alpha(x.F, s, 2)
    OBVIOUS
  <1>4. /\ s[1] \in Nodes /\ s[2] \in Nodes /\ tp.den \in Nat \ {0}
        /\ a \in Nat /\ b \in Nat
        /\ s[1] = s[2] => tp.den = 1
        /\ s[1] # s[2] => a + b = tp.den /\ 10 * (s[1] * a + s[2] * b) = x.F * tp.den
    BY <1>1, <1>2, <1>3, WeightsOf DEF TechOf
  <1> SUFFICES ASSUME d.unset = {} PROVE OneWhole(d) /\ DeviceBetween(d, f)
    BY DEF OneWhole, DeviceBetween
  <1>5. f \in ItrsFlavors /\ HasFlavor(s[1], f)
    BY <1>2, DeviceSum
  <1>6. /\ HasFlavor(s[2], f) /\ d.share = tp.den
        /\ s[1] = s[2] => /\ d.node = s[1] /\ d.Vdd = Supply(x, s[1], f)
                          /\ d.Vdd_default = DeviceOf(s[1], f).vdd /\ d.Vth = DeviceOf(s[1], f).v_th
        /\ s[1] # s[2] => /\ d.node = a * s[1] + b * s[2]
                          /\ d.Vdd = a * Supply(x, s[1], f) + b * Supply(x, s[2], f)
                          /\ d.Vdd_default = a * DeviceOf(s[1], f).vdd + b * DeviceOf(s[2], f).vdd
                          /\ d.Vth = a * DeviceOf(s[1], f).v_th + b * DeviceOf(s[2], f).v_th
    BY <1>2, <1>3, <1>5, DeviceSum
  <1>7. PICK p, q : p = DeviceOf(s[1], f) /\ q = DeviceOf(s[2], f)
    OBVIOUS
  <1>8. p.vdd \in Nat /\ p.v_th \in Nat /\ q.vdd \in Nat /\ q.v_th \in Nat
    BY <1>4, <1>5, <1>6, <1>7, FlavorsOfNodes
  <1>9. PICK m, n : m = s[1] /\ n = s[2]
    OBVIOUS
  <1>10. m \in Nat /\ n \in Nat
    BY <1>4, <1>9 DEF Nodes
  <1>11. PICK y : y = x.vdd[f]
    OBVIOUS
  <1>12. y \in Nat
    BY <1>5, <1>11 DEF Input
  <1>13. /\ Supply(x, m, f) = IF y = 0 THEN p.vdd ELSE y
         /\ Supply(x, n, f) = IF y = 0 THEN q.vdd ELSE y
    BY <1>7, <1>9, <1>11 DEF Supply
  <1>14. CASE m = n
    <2>1. p = q
      BY <1>7, <1>9, <1>14
    <2>2. OneWhole(d)
      BY <1>1, <1>2, <1>6, <1>9, <1>14 DEF OneWhole
    <2>3. d.Vdd_default = p.vdd /\ d.Vth = p.v_th /\ d.Vdd = (IF y = 0 THEN p.vdd ELSE y) /\ tp.den = 1
      BY <1>4, <1>6, <1>7, <1>9, <1>13, <1>14
    <2>4. Within(d.Vdd_default, p.vdd, q.vdd) /\ Within(d.Vth, p.v_th, q.v_th)
      BY <1>8, <2>1, <2>3 DEF Within
    <2>5. d.Vdd = IF y = 0 THEN d.Vdd_default ELSE y * tp.den
      BY <1>12, <2>3
    <2> QED
      BY <1>1, <1>2, <1>7, <1>11, <2>2, <2>4, <2>5, Zenon DEF DeviceBetween
  <1>15. CASE m # n
    <2>1. /\ a + b = tp.den /\ 10 * (m * a + n * b) = x.F * tp.den
          /\ d.node = a * m + b * n
          /\ d.Vdd = a * Supply(x, m, f) + b * Supply(x, n, f)
          /\ d.Vdd_default = a * p.vdd + b * q.vdd /\ d.Vth = a * p.v_th + b * q.v_th
      BY <1>4, <1>6, <1>7, <1>9, <1>15
    <2>2. OneWhole(d)
      <3>1. a * m = m * a /\ b * n = n * b
        BY <1>4, <1>10
      <3>2. d.node * 10 = x.F * tp.den
        <4>1. m * a \in Nat /\ n * b \in Nat
          BY <1>4, <1>10
        <4> QED
          BY <2>1, <3>1, <4>1
      <3> QED
        BY <1>1, <1>2, <1>6, <1>9, <1>15, <3>2 DEF OneWhole
    <2>3. Within(d.Vdd_default, p.vdd, q.vdd)
      BY <1>4, <1>8, <2>1, Average DEF Within
    <2>4. Within(d.Vth, p.v_th, q.v_th)
      BY <1>4, <1>8, <2>1, Average DEF Within
    <2>5. d.Vdd = IF y = 0 THEN d.Vdd_default ELSE y * tp.den
      <3>1. CASE y = 0
        BY <1>13, <2>1, <3>1
      <3>2. CASE y # 0
        <4>1. a * y + b * y = y * (a + b)
          BY <1>4, <1>12
        <4> QED
          BY <1>13, <2>1, <3>2, <4>1
      <3> QED
        BY <3>1, <3>2
    <2> QED
      BY <1>1, <1>2, <1>7, <1>11, <2>2, <2>3, <2>4, <2>5, Zenon DEF DeviceBetween
  <1> QED
    BY <1>14, <1>15

LEMMA OthersInterpolated ==
    ASSUME NEW x \in Input, NEW t \in BOOLEAN, TechOf(x, t)
    PROVE  /\ \A g \in WireGroups : OneWhole(tp.sum.wire[g])
           /\ EmbeddedBelow32 \/ OneWhole(tp.sum.dram)
  <1>1. /\ x.F \in Nat /\ Spans(x.F) # {} /\ tp.of.F = x.F /\ tp.of.ram = x.ram[t]
        /\ x.ram[t] \in 0 .. 4 /\ ~ (Near(x.F, 22) /\ x.ram[t] = LPDram)
    BY InputIs, TechIs
  <1>2. PICK s : s = SpanOf(x.F)
    OBVIOUS
  <1>3. PICK a, b : a = Alpha(x.F, s, 1) /\ b = Alpha(x.F, s, 2)
    OBVIOUS
  <1>4. /\ s[1] \in Nodes /\ s[2] \in Nodes /\ tp.den \in Nat \ {0}
        /\ a \in Nat /\ b \in Nat
        /\ s[1] # s[2] => /\ a + b = tp.den /\ 10 * (s[1] * a + s[2] * b) = x.F * tp.den
                          /\ s \in Neighbours /\ Between(x.F, s[1], s[2])
                          /\ \A n \in Nodes : ~ Near(x.F, n)
    BY <1>1, <1>2, <1>3, WeightsOf DEF TechOf
  <1>5. PICK m, n : m = s[1] /\ n = s[2]
    OBVIOUS
  <1>6. m \in Nat /\ n \in Nat
    BY <1>4, <1>5 DEF Nodes
  <1>7. m # n => (a * m + b * n) * 10 = x.F * tp.den
    <2>1. a * m = m * a /\ b * n = n * b /\ m * a \in Nat /\ n * b \in Nat
      BY <1>4, <1>6
    <2> QED
      BY <1>4, <1>5, <2>1
  <1>8. ASSUME NEW d, d.unset = {} => /\ d.share = tp.den
                                      /\ m = n => d.node = m
                                      /\ m # n => d.node = a * m + b * n
        PROVE  OneWhole(d)
    BY <1>1, <1>2, <1>5, <1>7, <1>8 DEF OneWhole
  <1>9. \A g \in WireGroups : OneWhole(tp.sum.wire[g])
    <2> TAKE g \in WireGroups
    <2>1. PICK d : d = tp.sum.wire[g]
      OBVIOUS
    <2>2. d.unset = {} => /\ d.share = tp.den
                          /\ m = n => d.node = m
                          /\ m # n => d.node = a * m + b * n
      BY <1>2, <1>3, <1>5, <2>1, WireSum
    <2> QED
      BY <1>8, <2>1, <2>2
  <1>10. EmbeddedBelow32 \/ OneWhole(tp.sum.dram)
    <2>1. PICK d : d = tp.sum.dram
      OBVIOUS
    <2>2. /\ d.unset = {} <=> HasDram(m, x.ram[t])
          /\ HasDram(m, x.ram[t]) =>
                /\ d.share = tp.den
                /\ m = n => d.node = m
                /\ m # n /\ HasDram(n, x.ram[t]) => d.node = a * m + b * n
      BY <1>2, <1>3, <1>5, <2>1, DramSum
    <2>3. CASE d.unset = {} /\ m # n /\ ~ HasDram(n, x.ram[t])
      <3>1. s \in Neighbours /\ Between(x.F, m, n) /\ ~ Near(x.F, 32)
        BY <1>4, <1>5, <2>3 DEF Nodes
      <3>2. x.ram[t] \in DramFlavors /\ n # 180
        BY <1>5, <2>2, <2>3, <3>1 DEF HasDram, Neighbours
      <3>3. n = 22 /\ x.ram[t] = LPDram
        BY <2>3, <3>2 DEF HasDram
      <3>4. m = 32
        <4>1. \A q \in Neighbours : q[2] = 22 => q[1] = 32
          BY DEF Neighbours
        <4> QED
          BY <1>5, <3>1, <3>3, <4>1
      <3>5. x.F <= 310
        BY <1>1, <3>1, <3>3, <3>4 DEF Between, Near
      <3> QED
        BY <1>1, <3>3, <3>5 DEF EmbeddedBelow32
    <2>4. CASE ~ (d.unset = {} /\ m # n /\ ~ HasDram(n, x.ram[t]))
      BY <1>8, <2>1, <2>2, <2>4
    <2> QED
      BY <2>3, <2>4
  <1> QED
    BY <1>9, <1>10

(* A node's own voltages are high enough. *)
LEMMA OwnVoltagesFit ==
    ASSUME NEW x \in Input, NEW t \in BOOLEAN, TechOf(x, t), ~ Garbage(tp.sum), x.vdd = AllAt(0),
           SpanOf(x.F)[1] = SpanOf(x.F)[2]
    PROVE  ~ VddTooLow(tp.sum)
  <1>1. PICK m : m = SpanOf(x.F)[1]
    OBVIOUS
  <1>2. m \in Nodes
    <2>1. x.F \in Nat /\ Spans(x.F) # {}
      BY DEF TechOf, InvalidNode, Input
    <2> QED
      BY <1>1, <2>1, WeightsOf
  <1>3. ASSUME NEW g \in {"sram_cell", "peri_global"}, NEW d, d = tp.sum.dev[g]
        PROVE  /\ d.Vdd \in Nat /\ d.Vdd_default = d.Vdd
               /\ d.Vcc_min_default = VccShare(g, d.Vdd, d.Vdd_default)
    <2>1. PICK f : f = FlavorOf(g, x, t)
      OBVIOUS
    <2>2. g \in DevGroups
      BY DEF DevGroups
    <2>3. "Vdd" \notin d.unset
      BY <1>3 DEF Garbage
    <2>4. f \in ItrsFlavors /\ HasFlavor(m, f)
      BY <1>1, <1>3, <2>1, <2>2, <2>3, DeviceSum
    <2>5. /\ d.Vdd = Supply(x, m, f) /\ d.Vdd_default = DeviceOf(m, f).vdd
          /\ d.Vcc_min_default = VccShare(g, d.Vdd, d.Vdd_default)
      BY <1>1, <1>3, <2>1, <2>2, <2>4, DeviceSum
    <2>6. x.vdd[f] = 0
      BY <2>4 DEF AllAt
    <2>7. DeviceOf(m, f).vdd \in Nat
      BY <1>2, <2>4, FlavorsOfNodes
    <2> QED
      BY <2>5, <2>6, <2>7 DEF Supply
  <1>4. PICK d, e : d = tp.sum.dev["sram_cell"] /\ e = tp.sum.dev["peri_global"]
    OBVIOUS
  <1>5. /\ d.Vdd \in Nat /\ d.Vdd_default = d.Vdd /\ e.Vdd \in Nat /\ e.Vdd_default = e.Vdd
        /\ d.Vcc_min_default = VccShare("sram_cell", d.Vdd, d.Vdd_default)
    BY <1>3, <1>4
  <1>6. \A u, v : VccShare("sram_cell", u, v) = 12 * v
    BY DEF VccShare
  <1>7. d.Vcc_min_default = 12 * d.Vdd
    BY <1>5, <1>6
  <1>8. /\ ~ (d.Vcc_min_default > 20 * d.Vdd) /\ ~ (4 * e.Vdd < 3 * e.Vdd_default)
        /\ ~ (4 * d.Vdd < 3 * d.Vdd_default)
    BY <1>5, <1>7
  <1>9. d = tp.sum.dev.sram_cell /\ e = tp.sum.dev.peri_global
    BY <1>4
  <1> QED
    BY <1>8, <1>9 DEF VddTooLow

LEMMA AfterFirst ==
    ASSUME NEW q \in Neighbours, q[1] = 180
    PROVE  q[2] = 90
  BY DEF Neighbours

(* Of what error_checking accepts, everything asked for is in the tables.  *)
LEMMA AcceptedIsInTables ==
    ASSUME NEW x \in Input, NEW t \in BOOLEAN, TechOf(x, t), ~ NodeRefused(x), ~ TempRefused(x),
           tp.of.F # 910
    PROVE  /\ tp.sum.dev.peri_global.unset = {} \/ tp.of.peri \in DramFlavors
           /\ \A g \in {"sram_cell", "cam_cell"} : tp.sum.dev[g].unset = {} \/ tp.of.ram \in DramFlavors
           /\ tp.sum.dev.sleep_tx.unset = {} \/ tp.of.F > 910
           /\ tp.sum.dram.unset = {} \/ tp.of.ram \notin DramFlavors
           /\ \A g \in WireGroups : tp.sum.wire[g].unset = {} \/ (g = "wire_local" /\ tp.of.ram = CommDram)
  <1>1. /\ x.F \in Nat /\ Spans(x.F) # {} /\ tp.of.F = x.F /\ tp.of.ram = x.ram[t] /\ tp.of.peri = x.peri[t]
        /\ x.ram[t] \in 0 .. 4 /\ x.peri[t] \in 0 .. 4 /\ x.temp \in Nat
        /\ ~ (Near(x.F, 22) /\ x.ram[t] = LPDram)
    BY InputIs, TechIs
  <1>2. PICK m, n : m = SpanOf(x.F)[1] /\ n = SpanOf(x.F)[2]
    OBVIOUS
  <1>3. /\ m \in Nodes /\ n \in Nodes
        /\ m = n => Near(x.F, m)
        /\ m # n => /\ SpanOf(x.F) \in Neighbours /\ Between(x.F, m, n)
                    /\ \A k \in Nodes : ~ Near(x.F, k)
    BY <1>1, <1>2, WeightsOf
  <1>4. x.temp \in TableTemps
    <2>1. x.temp \in 300 .. 400 /\ x.temp % 10 = 0
      BY <1>1 DEF TempRefused
    <2> DEFINE k == x.temp \div 10
    <2>2. x.temp = 10 * k /\ k \in Int
      BY <2>1
    <2>3. k - 30 \in 0 .. 10 /\ x.temp = 300 + 10 * (k - 30)
      BY <2>1, <2>2
    <2> HIDE DEF k
    <2> QED
      BY <2>3 DEF TableTemps
  <1>5. x.F > 910 => x.ram[t] = HP /\ x.peri[t] = HP
    <2>1. x.ram[t] \in Types(x) /\ x.peri[t] \in Types(x)
      BY DEF Types
    <2> QED
      BY <2>1 DEF NodeRefused
  <1>6. m = 180 => x.F > 910
    <2>1. SpanOf(x.F) \in Neighbours /\ m = 180 => n = 90
      <3> SUFFICES ASSUME SpanOf(x.F) \in Neighbours, m = 180 PROVE n = 90
        OBVIOUS
      <3>1. SpanOf(x.F)[1] = 180
        BY <1>2
      <3> QED
        BY <1>2, <3>1, AfterFirst
    <2>2. Near(x.F, 180) => x.F > 910
      BY <1>1 DEF Near
    <2>3. m = 180 /\ n = 90 => x.F > 910
      <3>1. m = 180 /\ n = 90 => ~ Near(x.F, 90) /\ Between(x.F, 180, 90)
        BY <1>3 DEF Nodes
      <3> QED
        BY <1>1, <3>1 DEF Between, Near
    <2> QED
      BY <1>3, <2>1, <2>2, <2>3
  <1>7. ASSUME NEW g \in DevGroups, NEW f, f = FlavorOf(g, x, t), f \in ItrsFlavors, f = HP \/ x.F <= 910
        PROVE  tp.sum.dev[g].unset = {}
    <2>1. HasFlavor(m, f)
      BY <1>1, <1>3, <1>6, <1>7, FlavorsOfNodes
    <2> QED
      BY <1>2, <1>4, <1>7, <2>1, DeviceSum
  <1>8. \A f \in 0 .. 4 : f \in ItrsFlavors \/ f \in DramFlavors
    BY DEF ItrsFlavors, DramFlavors, HP, LSTP, LOP, LPDram, CommDram
  <1>9. /\ "peri_global" \in DevGroups /\ "sleep_tx" \in DevGroups
        /\ "sram_cell" \in DevGroups /\ "cam_cell" \in DevGroups
    BY DEF DevGroups
  <1>10. tp.sum.dev.peri_global.unset = {} \/ tp.of.peri \in DramFlavors
    <2>1. FlavorOf("peri_global", x, t) = x.peri[t]
      BY <1>9, FlavorsAsked
    <2> QED
      BY <1>1, <1>5, <1>7, <1>8, <1>9, <2>1
  <1>11. \A g \in {"sram_cell", "cam_cell"} : tp.sum.dev[g].unset = {} \/ tp.of.ram \in DramFlavors
    <2> TAKE g \in {"sram_cell", "cam_cell"}
    <2>1. g \in DevGroups /\ FlavorOf(g, x, t) = x.ram[t]
      BY <1>9, FlavorsAsked
    <2> QED
      BY <1>1, <1>5, <1>7, <1>8, <2>1
  <1>12. tp.sum.dev.sleep_tx.unset = {} \/ tp.of.F > 910
    <2>1. FlavorOf("sleep_tx", x, t) = LSTP /\ LSTP \in ItrsFlavors
      BY <1>9, FlavorsAsked DEF ItrsFlavors
    <2> QED
      BY <1>1, <1>7, <1>9, <2>1
  <1>13. tp.sum.dram.unset = {} \/ tp.of.ram \notin DramFlavors
    <2> SUFFICES ASSUME x.ram[t] \in DramFlavors PROVE HasDram(m, x.ram[t])
      BY <1>1, <1>2, DramSum
    <2>1. m # 180
      <3>1. x.ram[t] # HP
        BY DEF DramFlavors, HP, LPDram, CommDram
      <3> QED
        BY <1>5, <1>6, <3>1
    <2>2. ~ (m = 22 /\ x.ram[t] = LPDram)
      <3>1. SpanOf(x.F) \in Neighbours => m # 22
        <4>1. \A q \in Neighbours : q[1] # 22
          BY DEF Neighbours
        <4>2. PICK q : q = SpanOf(x.F)
          OBVIOUS
        <4> QED
          BY <1>2, <4>1, <4>2
      <3> QED
        BY <1>1, <1>3, <3>1
    <2> QED
      BY <2>1, <2>2 DEF HasDram
  <1>14. \A g \in WireGroups : tp.sum.wire[g].unset = {} \/ (g = "wire_local" /\ tp.of.ram = CommDram)
    BY <1>1, WireSum
  <1> QED
    BY <1>10, <1>11, <1>12, <1>13, <1>14

-----------------------------------------------------------------------------
(* How a request fares between the calls of init_tech_params. *)
AtWork == {"lookup", "data", "updates", "gating", "return"}

\* The fields of the input that choose the tables.
Chooses(x) == [F |-> x.F, temp |-> x.temp, ram |-> x.ram, peri |-> x.peri]

(* g_tp holds nothing yet or one input's technology: at work, of the       *)
(* request's own node, temperature and types, checked unless a unit's.     *)
TechInv ==
    /\ \/ tp.of = None /\ tp.sum = Zero /\ tp.den = 1
       \/ \E x \in Input, t \in BOOLEAN : TechOf(x, t)
    /\ pc \in AtWork => \E x \in Input, t \in BOOLEAN : TechOf(x, t) /\ Chooses(x) = Chooses(user)
    /\ pc # "ended" => Chooses(ip) = Chooses(user)
    /\ pc \in AtWork \cup {"init"} /\ caller # "unit" => ~ NodeRefused(user) /\ ~ TempRefused(user)

(* The program ends with what ends it. *)
EndInv ==
    /\ pc \in {"begin", "init", "ended"} \cup AtWork
    /\ status \in {"running", "refused", "invalid node", "Vdd too low", "Vcc_min too high", "return"}
    /\ status = "running" <=> pc # "ended"
    /\ status = "Vdd too low" => Garbage(tp.sum) \/ VddTooLow(tp.sum)
    /\ caller \in {"file", "array", "unit"}
    /\ count \in 1 .. MaxRequests

(* One entry for each voltage done. *)
LevelInv == level <= Len(ip.dvs) + 1 /\ Len(fin.dvs) < level

LEMMA SameChoice ==
    ASSUME NEW x, NEW y, Chooses(x) = Chooses(y)
    PROVE  x.F = y.F /\ x.temp = y.temp /\ x.ram = y.ram /\ x.peri = y.peri
  BY DEF Chooses

LEMMA ChecksSame ==
    ASSUME NEW x, NEW y, Chooses(x) = Chooses(y)
    PROVE  (NodeRefused(x) <=> NodeRefused(y)) /\ (TempRefused(x) <=> TempRefused(y))
  <1>1. x.F = y.F /\ x.temp = y.temp /\ x.ram = y.ram /\ x.peri = y.peri
    BY SameChoice
  <1>2. Types(x) = Types(y)
    BY <1>1 DEF Types
  <1>3. PICK F, temp, T : F = x.F /\ temp = x.temp /\ T = Types(x)
    OBVIOUS
  <1>4. F = y.F /\ temp = y.temp /\ T = Types(y)
    BY <1>1, <1>2, <1>3
  <1>5. TempRefused(x) <=> TempRefused(y)
    BY <1>3, <1>4 DEF TempRefused
  <1>6. NodeRefused(x) <=> NodeRefused(y)
    BY <1>3, <1>4 DEF NodeRefused
  <1> QED
    BY <1>5, <1>6

LEMMA LevelsOfInput ==
    ASSUME NEW x \in Input
    PROVE  x.dvs \in Seq(Nat \ {0}) /\ Len(x.dvs) \in Nat
  <1>1. x.dvs \in Seq(Nat \ {0})
    BY DEF Input
  <1> QED
    BY <1>1

LEMMA Made ==
    ASSUME NEW x, NEW t
    PROVE  (MadeFor(tp, x, t) <=> TechOf(x, t)) /\ (MadeFor(tp', x, t) <=> TechOf(x, t)')
  BY DEF MadeFor, TechOf

(* A call leaves g_tp made for the input it was given. *)
LEMMA TechCalled ==
    ASSUME TechInv, EndInv, NEW x \in Input, NEW t \in BOOLEAN, NEW next \in AtWork, InitTech(x, t, next),
           UNCHANGED <<caller, user, count>>, Chooses(x) = Chooses(user), Chooses(ip') = Chooses(user),
           pc \in AtWork \cup {"init"}
    PROVE  TechInv' /\ EndInv'
  <1>1. \/ pc' = next /\ status' = status /\ TechOf(x, t)'
        \/ /\ pc' = "ended" /\ status' \in {"invalid node", "Vdd too low", "Vcc_min too high"}
           /\ tp' = tp \/ TechOf(x, t)'
           /\ status' = "Vdd too low" => Garbage(tp'.sum) \/ VddTooLow(tp'.sum)
    BY InitTechMakes, Made
  <1>2. /\ next \in AtWork /\ pc # "ended" /\ next # "ended"
        /\ next \notin {"begin", "init"}
    BY DEF AtWork
  <1>3. \/ tp'.of = None /\ tp'.sum = Zero /\ tp'.den = 1
        \/ \E y \in Input, u \in BOOLEAN : TechOf(y, u)'
    <2>1. CASE TechOf(x, t)'
      BY <2>1
    <2>2. CASE tp' = tp
      BY <2>2 DEF TechInv, TechOf
    <2> QED
      BY <1>1, <2>1, <2>2
  <1>4. pc' \in AtWork => TechOf(x, t)' /\ Chooses(x) = Chooses(user')
    BY <1>1 DEF AtWork
  <1>5. Chooses(ip') = Chooses(user')
    OBVIOUS
  <1>6. caller' # "unit" => ~ NodeRefused(user') /\ ~ TempRefused(user')
    BY DEF TechInv
  <1>7. TechInv'
    BY <1>3, <1>4, <1>5, <1>6 DEF TechInv
  <1>8. EndInv'
    <2>1. status = "running" /\ caller' \in {"file", "array", "unit"} /\ count' \in 1 .. MaxRequests
      BY <1>2 DEF EndInv
    <2>2. CASE pc' = next /\ status' = status
      BY <1>2, <2>1, <2>2 DEF EndInv
    <2>3. CASE /\ pc' = "ended" /\ status' \in {"invalid node", "Vdd too low", "Vcc_min too high"}
               /\ status' = "Vdd too low" => Garbage(tp'.sum) \/ VddTooLow(tp'.sum)
      BY <2>1, <2>3 DEF EndInv
    <2> QED
      BY <1>1, <2>2, <2>3
  <1> QED
    BY <1>7, <1>8

(* Other steps leave g_tp. *)
LEMMA TechLeft ==
    ASSUME TechInv, EndInv, UNCHANGED <<tp, status, caller, user, count>>,
           pc \in AtWork, pc' \in AtWork, Chooses(ip') = Chooses(user)
    PROVE  TechInv' /\ EndInv'
  <1>1. TechInv'
    <2>1. \A x, t : TechOf(x, t)' <=> TechOf(x, t)
      BY DEF TechOf
    <2> QED
      BY <2>1 DEF TechInv
  <1>2. pc # "ended" /\ pc' # "ended"
    BY DEF AtWork
  <1> QED
    BY <1>1, <1>2 DEF EndInv

-----------------------------------------------------------------------------
LEMMA InitTechInv == Init => TechInv /\ EndInv /\ LevelInv
  <1> SUFFICES ASSUME Init PROVE TechInv /\ EndInv /\ LevelInv
    OBVIOUS
  <1>1. /\ tp.of = None /\ tp.sum = Zero /\ tp.den = 1 /\ user = ip /\ pc = "begin" /\ level = 1
        /\ fin = NoResult /\ status = "running" /\ count = 1
    BY DEF Init
  <1>2. caller \in {"file", "array", "unit"} /\ ip \in Input
    BY RequestsAssumption DEF Init, Request
  <1>3. TechInv
    BY <1>1 DEF TechInv, AtWork
  <1>4. EndInv
    BY <1>1, <1>2, RequestsAssumption DEF EndInv
  <1>5. LevelInv
    <2>1. Len(ip.dvs) \in Nat
      BY <1>2, LevelsOfInput
    <2> QED
      BY <1>1, <2>1, NoLevels DEF LevelInv, NoResult
  <1> QED
    BY <1>3, <1>4, <1>5

LEMMA LevelStep == IInv /\ LevelInv /\ [Next]_vars => LevelInv'
  <1> SUFFICES ASSUME IInv, LevelInv, [Next]_vars PROVE LevelInv'
    OBVIOUS
  <1>1. ip \in Input /\ ip.dvs \in Seq(Nat \ {0}) /\ level \in Nat /\ Len(ip.dvs) \in Nat
        /\ fin.dvs \in Seq(Result) /\ Len(fin.dvs) \in Nat
    <2>1. ip \in Input /\ level \in Nat /\ fin.dvs \in Seq(Result)
      BY DEF IInv, Known, Found
    <2> QED
      BY <2>1, LevelsOfInput
  <1>2. ASSUME level' = level, ip'.dvs = ip.dvs, fin'.dvs = fin.dvs
        PROVE  LevelInv'
    BY <1>2 DEF LevelInv
  <1>3. CASE Check
    <2>1. level' = level /\ fin' = fin /\ ip' = Checks(ip)
      BY <1>3 DEF Check
    <2>2. Checks(ip).dvs = ip.dvs
      BY <1>1 DEF Checks, Input
    <2> QED
      BY <1>2, <2>1, <2>2
  <1>4. CASE InitInterface
    BY <1>2, <1>4 DEF InitInterface
  <1>5. CASE CacheHit
    <2>1. pc = "lookup" /\ fin'.dvs = <<>> /\ ip' = ip /\ level' = level
      BY <1>5 DEF CacheHit, NoResult
    <2>2. level = 1
      BY <2>1 DEF IInv, Placed
    <2> QED
      BY <1>1, <2>1, <2>2, NoLevels DEF LevelInv
  <1>6. CASE SearchTag
    <2>1. /\ ip' = ip /\ level' = level
          /\ \/ fin' = fin
             \/ fin' = [fin EXCEPT !.tag = tp'.of, !.wires = wires]
             \/ fin' = [fin EXCEPT !.wires = wires]
      BY <1>6 DEF SearchTag
    <2>2. fin'.dvs = fin.dvs
      <3>1. fin = [tag |-> fin.tag, data |-> fin.data, dvs |-> fin.dvs, reference |-> fin.reference, wires |-> fin.wires]
        BY DEF IInv, Known, Found
      <3> QED
        BY <2>1, <3>1
    <2> QED
      BY <1>2, <2>1, <2>2
  <1>7. CASE SearchData
    <2>1. /\ ip' = ip /\ level' = level
          /\ fin' = fin \/ fin' = [fin EXCEPT !.data = tp'.of]
      BY <1>7 DEF SearchData
    <2>2. fin'.dvs = fin.dvs
      BY <2>1 DEF IInv, Known, Found
    <2> QED
      BY <1>2, <2>1, <2>2
  <1>8. CASE DvsLevel
    <2> DEFINE v == AllAt(ip.dvs[level])
    <2>1. /\ level \in DOMAIN ip.dvs /\ level' = level + 1
          /\ ip' = [ip EXCEPT !.vdd = v]
          /\ \/ fin' = fin
             \/ fin' = [fin EXCEPT !.dvs = Append(@, [in |-> tp'.of, wires |-> wires'])]
      BY <1>8 DEF DvsLevel
    <2> HIDE DEF v
    <2>2. ip'.dvs = ip.dvs
      BY <1>1, <2>1 DEF Input
    <2>3. level <= Len(ip.dvs)
      BY <1>1, <2>1
    <2>4. Len(fin'.dvs) = Len(fin.dvs) \/ Len(fin'.dvs) = Len(fin.dvs) + 1
      <3>1. PICK e : e = [in |-> tp'.of, wires |-> wires']
        OBVIOUS
      <3>2. fin'.dvs = fin.dvs \/ fin'.dvs = Append(fin.dvs, e)
        BY <2>1, <3>1 DEF IInv, Known, Found
      <3>3. Len(Append(fin.dvs, e)) = Len(fin.dvs) + 1
        BY <1>1
      <3> QED
        BY <3>2, <3>3
    <2> QED
      BY <1>1, <2>1, <2>2, <2>3, <2>4 DEF LevelInv
  <1>9. CASE EndDvs
    <2>1. level' = level /\ fin' = fin /\ (ip' = ip \/ ip' = [ip EXCEPT !.vdd = AllAt(0)])
      BY <1>9 DEF EndDvs
    <2>2. ip'.dvs = ip.dvs
      BY <1>1, <2>1 DEF Input
    <2> QED
      BY <1>2, <2>1, <2>2
  <1>10. CASE UpdateGating
    <2>1. /\ ip' = ip /\ level' = level
          /\ \/ fin' = fin
             \/ fin' = [fin EXCEPT !.reference = [in |-> tp.of, wires |-> wires']]
      BY <1>10 DEF UpdateGating
    <2>2. fin'.dvs = fin.dvs
      BY <2>1 DEF IInv, Known, Found
    <2> QED
      BY <1>2, <2>1, <2>2
  <1>11. CASE Return
    <2>1. \/ UNCHANGED <<ip, level, fin>>
          \/ /\ \E q \in Requests : ip' = q.ip
             /\ level' = 1 /\ fin' = NoResult
      BY <1>11 DEF Return
    <2>2. CASE UNCHANGED <<ip, level, fin>>
      BY <1>2, <2>2
    <2>3. CASE (\E q \in Requests : ip' = q.ip) /\ level' = 1 /\ fin' = NoResult
      <3>1. ip' \in Input
        BY <2>3, RequestsAreInputs
      <3>2. Len(ip'.dvs) \in Nat
        BY <3>1, LevelsOfInput
      <3> QED
        BY <2>3, <3>2, NoLevels DEF LevelInv, NoResult
    <2> QED
      BY <2>1, <2>2, <2>3
  <1>12. CASE Ended \/ UNCHANGED vars
    BY <1>2, <1>12 DEF Ended, vars
  <1> QED
    BY <1>3, <1>4, <1>5, <1>6, <1>7, <1>8, <1>9, <1>10, <1>11, <1>12 DEF Next

LEMMA TechStep == IInv /\ TechInv /\ EndInv /\ [Next]_vars => TechInv' /\ EndInv'
  <1> SUFFICES ASSUME IInv, TechInv, EndInv, [Next]_vars PROVE TechInv' /\ EndInv'
    OBVIOUS
  <1>1. ip \in Input /\ user \in Input
    BY DEF IInv, Known
  <1>2. pc # "ended" => Chooses(ip) = Chooses(user)
    BY DEF TechInv
  <1>3. \A p \in AtWork : p # "ended" /\ p # "begin" /\ p # "init"
    BY DEF AtWork
  <1>4. /\ "lookup" \in AtWork /\ "data" \in AtWork /\ "updates" \in AtWork
        /\ "gating" \in AtWork /\ "return" \in AtWork
    BY DEF AtWork
  <1>5. ASSUME NEW v \in Nat
        PROVE  [ip EXCEPT !.vdd = AllAt(v)] \in Input
               /\ Chooses([ip EXCEPT !.vdd = AllAt(v)]) = Chooses(ip)
    BY <1>1, <1>5, AtAnotherVoltage DEF Chooses
  <1>6. CASE Check
    <2>1. /\ pc = "begin" /\ UNCHANGED <<caller, tp, count>>
          /\ ip' = Checks(ip) /\ user' = Checks(user)
          /\ \/ pc' = "ended" /\ status' = "refused"
             \/ pc' = "init" /\ status' = status /\ (caller = "unit" \/ ~ Refused(ip'))
      BY <1>6 DEF Check, Exit
    <2>2. ASSUME NEW x \in Input PROVE Chooses(Checks(x)) = Chooses(x)
      <3> DEFINE y == [x EXCEPT !.power_gating = FALSE]
      <3>1. y.F = x.F /\ y.temp = x.temp /\ y.ram = x.ram /\ y.peri = x.peri
        BY DEF Input
      <3>2. Checks(x) = y \/ Checks(x) = x
        BY DEF Checks
      <3> HIDE DEF y
      <3> QED
        BY <3>1, <3>2 DEF Chooses
    <2>3. Chooses(ip') = Chooses(user')
      BY <1>1, <1>2, <2>1, <2>2
    <2>4. ~ Refused(ip') => ~ NodeRefused(user') /\ ~ TempRefused(user')
      BY <2>3, ChecksSame DEF Refused
    <2>5. \A x, t : TechOf(x, t)' <=> TechOf(x, t)
      BY <2>1 DEF TechOf
    <2>6. TechInv'
      <3>1. \/ tp'.of = None /\ tp'.sum = Zero /\ tp'.den = 1
            \/ \E x \in Input, t \in BOOLEAN : TechOf(x, t)'
        BY <2>1, <2>5 DEF TechInv
      <3>2. pc' \notin AtWork
        BY <1>3, <2>1
      <3> QED
        BY <2>1, <2>3, <2>4, <3>1, <3>2 DEF TechInv
    <2>7. EndInv'
      BY <2>1 DEF EndInv
    <2> QED
      BY <2>6, <2>7
  <1>7. CASE InitInterface
    <2>1. PICK next : next = IF caller = "unit" THEN "return" ELSE "lookup"
      OBVIOUS
    <2>2. pc = "init" /\ InitTech(ip, FALSE, next) /\ UNCHANGED <<caller, user, count, ip>> /\ next \in AtWork
      BY <1>4, <1>7, <2>1 DEF InitInterface, Request0
    <2>3. PICK x \in Input : x = ip
      BY <1>1
    <2> QED
      BY <1>2, <2>2, <2>3, TechCalled
  <1>8. CASE CacheHit
    <2>1. pc = "lookup" /\ pc' = "updates" /\ UNCHANGED <<caller, user, count, ip, tp, status>>
      BY <1>8 DEF CacheHit, Request0
    <2> QED
      BY <1>2, <1>4, <2>1, TechLeft
  <1>9. CASE SearchTag
    <2>1. pc = "lookup" /\ UNCHANGED <<caller, user, count, ip>>
      BY <1>9 DEF SearchTag, Request0
    <2>2. InitTech(ip, TRUE, "data") \/ (pc' = "data" /\ UNCHANGED <<tp, status>>)
      BY <1>9 DEF SearchTag
    <2>3. CASE InitTech(ip, TRUE, "data")
      BY <1>1, <1>2, <1>4, <2>1, <2>3, TechCalled
    <2>4. CASE pc' = "data" /\ UNCHANGED <<tp, status>>
      BY <1>2, <1>4, <2>1, <2>4, TechLeft
    <2> QED
      BY <2>2, <2>3, <2>4
  <1>10. CASE SearchData
    <2>1. pc = "data" /\ UNCHANGED <<caller, user, count, ip>> /\ InitTech(ip, FALSE, "updates")
      BY <1>10 DEF SearchData, Request0
    <2> QED
      BY <1>1, <1>2, <1>4, <2>1, TechCalled
  <1>11. CASE DvsLevel
    <2>1. /\ pc = "updates" /\ level \in DOMAIN ip.dvs /\ UNCHANGED <<caller, user, count>>
          /\ ip' = [ip EXCEPT !.vdd = AllAt(ip.dvs[level])] /\ InitTech(ip', TRUE, "updates")
      BY <1>11 DEF DvsLevel, Request0
    <2>2. ip.dvs[level] \in Nat
      <3>1. ip.dvs \in Seq(Nat \ {0})
        BY <1>1, LevelsOfInput
      <3> QED
        BY <2>1, <3>1
    <2>3. ip' \in Input /\ Chooses(ip') = Chooses(user)
      BY <1>2, <1>5, <2>1, <2>2
    <2>4. PICK x \in Input : x = ip'
      BY <2>3
    <2> QED
      BY <1>4, <2>1, <2>3, <2>4, TechCalled
  <1>12. CASE EndDvs
    <2>1. pc = "updates" /\ UNCHANGED <<caller, user, count>>
      BY <1>12 DEF EndDvs, Request0
    <2>2. \/ pc' = "gating" /\ UNCHANGED <<ip, tp, status>>
          \/ ip' = [ip EXCEPT !.vdd = AllAt(0)] /\ InitTech(ip', TRUE, "gating")
      BY <1>12 DEF EndDvs
    <2>3. CASE pc' = "gating" /\ UNCHANGED <<ip, tp, status>>
      BY <1>2, <1>4, <2>1, <2>3, TechLeft
    <2>4. CASE ip' = [ip EXCEPT !.vdd = AllAt(0)] /\ InitTech(ip', TRUE, "gating")
      <3>1. ip' \in Input /\ Chooses(ip') = Chooses(user)
        BY <1>2, <1>5, <2>1, <2>4
      <3>2. PICK x \in Input : x = ip'
        BY <3>1
      <3> QED
        BY <1>4, <2>1, <2>4, <3>1, <3>2, TechCalled
    <2> QED
      BY <2>2, <2>3, <2>4
  <1>13. CASE UpdateGating
    <2>1. pc = "gating" /\ pc' = "return" /\ UNCHANGED <<caller, user, count, ip, tp, status>>
      BY <1>13 DEF UpdateGating, Request0
    <2> QED
      BY <1>2, <1>4, <2>1, TechLeft
  <1>14. CASE Return
    <2>1. \A x, t : TechOf(x, t)' <=> TechOf(x, t)
      BY <1>14 DEF Return, TechOf
    <2>2. /\ pc = "return" /\ tp' = tp
          /\ \/ pc' = "ended" /\ status' = "return" /\ UNCHANGED <<caller, count>>
             \/ /\ pc' = "begin" /\ status' = status /\ count # MaxRequests /\ count' = count + 1
                /\ \E q \in Requests : caller' = q.caller /\ ip' = q.ip /\ user' = q.ip
      BY <1>14 DEF Return, Exit
    <2>3. \/ tp'.of = None /\ tp'.sum = Zero /\ tp'.den = 1
          \/ \E x \in Input, t \in BOOLEAN : TechOf(x, t)'
      BY <2>1, <2>2 DEF TechInv
    <2>4. CASE pc' = "ended" /\ status' = "return" /\ UNCHANGED <<caller, count>>
      <3>1. TechInv'
        BY <1>3, <2>3, <2>4 DEF TechInv
      <3> QED
        BY <2>4, <3>1 DEF EndInv
    <2>5. CASE /\ pc' = "begin" /\ status' = status /\ count # MaxRequests /\ count' = count + 1
               /\ \E q \in Requests : caller' = q.caller /\ ip' = q.ip /\ user' = q.ip
      <3>1. TechInv'
        BY <1>3, <2>3, <2>5 DEF TechInv
      <3>2. caller' \in {"file", "array", "unit"}
        BY <2>5, RequestsAssumption DEF Request
      <3>3. count' \in 1 .. MaxRequests
        <4>1. count \in 1 .. MaxRequests /\ MaxRequests \in Nat
          BY RequestsAssumption DEF EndInv
        <4> QED
          BY <2>5, <4>1
      <3>4. status' = "running"
        BY <2>2, <2>5 DEF EndInv
      <3> QED
        BY <2>5, <3>1, <3>2, <3>3, <3>4 DEF EndInv
    <2> QED
      BY <2>2, <2>4, <2>5
  <1>15. CASE Ended \/ UNCHANGED vars
    <2>1. UNCHANGED <<caller, ip, user, pc, tp, status, count>>
      BY <1>15 DEF Ended, vars
    <2>2. \A x, t : TechOf(x, t)' <=> TechOf(x, t)
      BY <2>1 DEF TechOf
    <2>3. TechInv'
      BY <2>1, <2>2 DEF TechInv
    <2> QED
      BY <2>1, <2>3 DEF EndInv
  <1> QED
    BY <1>6, <1>7, <1>8, <1>9, <1>10, <1>11, <1>12, <1>13, <1>14, <1>15 DEF Next

(* Everything known of the state, in one invariant. *)
AllInv == IInv /\ TechInv /\ EndInv /\ LevelInv

LEMMA AllInvHolds == Spec => []AllInv
  <1>1. Init => AllInv
    BY InitInv, InitTechInv DEF AllInv
  <1>2. AllInv /\ [Next]_vars => AllInv'
    BY StepInv, TechStep, LevelStep DEF AllInv
  <1> QED
    BY <1>1, <1>2, PTL DEF Spec

-----------------------------------------------------------------------------
LEMMA ZeroShares ==
    /\ \A g \in DevGroups : Zero.dev[g].share = 0
    /\ \A g \in WireGroups : Zero.wire[g].share = 0
    /\ Zero.dram.share = 0 /\ Zero.logic.share = 0
  BY DEF Zero, ZeroDevice

(* Every variable keeps its type, and no share of a group of g_tp comes to *)
(* more than the whole, whatever was calculated before.                    *)
THEOREM TypesKept == Spec => []TypeOK
  <1>1. AllInv => TypeOK
    <2> SUFFICES ASSUME AllInv PROVE TypeOK
      OBVIOUS
    <2>1. tp.den \in Nat \ {0} /\ Shares(tp.sum) \subseteq 0 .. tp.den
      <3>1. CASE tp.of = None /\ tp.sum = Zero /\ tp.den = 1
        BY <3>1, ZeroShares DEF Shares
      <3>2. ASSUME NEW x \in Input, NEW t \in BOOLEAN, TechOf(x, t)
            PROVE  tp.den \in Nat \ {0} /\ Shares(tp.sum) \subseteq 0 .. tp.den
        <4>1. tp.sum.logic.share \in 0 .. tp.den /\ tp.den \in Nat \ {0}
          BY <3>2, LogicSum
        <4>2. \A g \in DevGroups : tp.sum.dev[g].share \in 0 .. tp.den
          BY <3>2, DeviceSum
        <4>3. \A g \in WireGroups : tp.sum.wire[g].share \in 0 .. tp.den
          BY <3>2, WireSum
        <4>4. tp.sum.dram.share \in 0 .. tp.den
          BY <3>2, DramSum
        <4> QED
          BY <4>1, <4>2, <4>3, <4>4 DEF Shares
      <3> QED
        BY <3>1, <3>2 DEF AllInv, TechInv
    <2>2. ip \in Input /\ user \in Input /\ level \in Nat \ {0} /\ Len(ip.dvs) \in Nat
      <3>1. ip \in Input /\ user \in Input /\ level \in Nat \ {0}
        BY DEF AllInv, IInv, Known
      <3> QED
        BY <3>1, LevelsOfInput
    <2>3. level \in 1 .. Len(ip.dvs) + 1 /\ Len(fin.dvs) < level
      BY <2>2 DEF AllInv, LevelInv
    <2> QED
      BY <2>1, <2>2, <2>3 DEF AllInv, EndInv, AtWork, TypeOK
  <1> QED
    BY <1>1, AllInvHolds, PTL

(* Whatever was calculated before, each group of g_tp is one whole of the  *)
(* node or the two nodes around the feature size, its values between       *)
(* theirs; and a node's own voltages are never said to be too low.         *)
THEOREM TechnologyInterpolated == Spec => []InterpolatedOnce
  <1>1. AllInv => InterpolatedOnce
    <2> SUFFICES ASSUME AllInv, Calculated PROVE InterpolatedOnce
      BY DEF InterpolatedOnce
    <2>1. PICK x \in Input, t \in BOOLEAN : TechOf(x, t)
      BY DEF AllInv, TechInv, Calculated
    <2>2. tp.of.F = x.F /\ tp.of.ram = x.ram[t] /\ tp.of.peri = x.peri[t] /\ tp.of.vdd = x.vdd
      BY <2>1, TechIs
    <2>3. \A g \in DevGroups : OneWhole(tp.sum.dev[g]) /\ DeviceBetween(tp.sum.dev[g], FlavorOf(g, x, t))
      BY <2>1, DeviceInterpolated
    <2>4. /\ "peri_global" \in DevGroups /\ "sleep_tx" \in DevGroups
          /\ "sram_cell" \in DevGroups /\ "cam_cell" \in DevGroups
      BY DEF DevGroups
    <2>5. /\ FlavorOf("peri_global", x, t) = tp.of.peri /\ FlavorOf("sram_cell", x, t) = tp.of.ram
          /\ FlavorOf("cam_cell", x, t) = tp.of.ram /\ FlavorOf("sleep_tx", x, t) = LSTP
      BY <2>2, <2>4, FlavorsAsked
    <2>6. /\ DeviceBetween(tp.sum.dev.peri_global, tp.of.peri)
          /\ DeviceBetween(tp.sum.dev.sram_cell, tp.of.ram)
          /\ DeviceBetween(tp.sum.dev.cam_cell, tp.of.ram)
          /\ DeviceBetween(tp.sum.dev.sleep_tx, LSTP)
      BY <2>3, <2>4, <2>5
    <2>7. (\A g \in WireGroups : OneWhole(tp.sum.wire[g])) /\ (EmbeddedBelow32 \/ OneWhole(tp.sum.dram))
      BY <2>1, OthersInterpolated
    <2>8. status = "Vdd too low" /\ ~ Garbage(tp.sum) /\ tp.of.vdd = AllAt(0)
            => SpanOf(tp.of.F)[1] # SpanOf(tp.of.F)[2]
      BY <2>1, <2>2, OwnVoltagesFit DEF AllInv, EndInv
    <2> QED
      BY <2>3, <2>6, <2>7, <2>8, Zenon DEF InterpolatedOnce
  <1> QED
    BY <1>1, AllInvHolds, PTL

(* Of an input that error_checking accepted, no local that nothing         *)
(* assigned enters g_tp, but where the definition says.                    *)
THEOREM AcceptedInputsAssigned == Spec => []NothingUnassigned
  <1>1. AllInv => NothingUnassigned
    <2> SUFFICES ASSUME AllInv, Accepted, Calculated, tp.of.F # 910 PROVE NothingUnassigned
      BY DEF NothingUnassigned
    <2>1. pc \in AtWork
      BY DEF AllInv, EndInv, Accepted
    <2>2. PICK x \in Input, t \in BOOLEAN : TechOf(x, t) /\ Chooses(x) = Chooses(user)
      BY <2>1 DEF AllInv, TechInv
    <2>3. ~ NodeRefused(x) /\ ~ TempRefused(x)
      <3>1. ~ NodeRefused(user) /\ ~ TempRefused(user)
        BY <2>1 DEF AllInv, TechInv, Accepted
      <3> QED
        BY <2>2, <3>1, ChecksSame
    <2> QED
      BY <2>2, <2>3, AcceptedIsInTables DEF NothingUnassigned
  <1> QED
    BY <1>1, AllInvHolds, PTL
=============================================================================
