--------------------------- MODULE McpatMainProof ---------------------------
(***************************************************************************)
(* For all files and any number of entries: the parts of every chip read   *)
(* entries that the file has filled in, while they exist; the totals hold  *)
(* each part as often as the file says; and no index leaves its range.     *)
(* For every valid configuration of a part: it follows no pointer to what  *)
(* is not built, reads no number that is not assigned, keeps its two       *)
(* passes apart and sums up what it owns once (at the end of the module).  *)
(***************************************************************************)
EXTENDS McpatMain, McpatPart, TLAPS, FiniteSetTheorems, SequenceTheorems

Reading  == {"check", "arrays", "singles", "private"}
PhaseSet == {"build", "routers", "links", "energy", "display"}

Types ==
    /\ input \in Inputs
    /\ pc \in Reading \cup PhaseSet \cup {"delete", "ended"}
    /\ section \in 1 .. Len(Deleting) /\ i \in Nat
    /\ pc = "check" => section = 1 /\ i = 0
    /\ pc = "arrays" => section \in DOMAIN Arrays
    /\ pc = "singles" => section \in DOMAIN Singles
    /\ pc = "build" => section \in DOMAIN Building
    /\ stage \in [Entries -> Int]
    /\ xml \in BOOLEAN

(* Which entries the sections so far have filled in. *)
SectionRead(n) == Arrays[n] # "NoC" => \A j \in Nat : j < Wanted(Arrays[n]) => <<Arrays[n], j>> \in FilledIn
ArraysRead  == \A n \in DOMAIN Arrays : SectionRead(n)
SinglesRead == \A n \in DOMAIN Singles : <<Singles[n], 0>> \in FilledIn
Read ==
    /\ pc \notin {"check", "ended"} => ~ TooMany
    /\ pc \in PhaseSet \cup {"delete"} => ~ L2sMissing
    /\ pc = "arrays" =>
         /\ \A n \in 1 .. section - 1 : SectionRead(n)
         /\ Arrays[section] # "NoC" => \A j \in Nat : j < i => <<Arrays[section], j>> \in FilledIn
    /\ pc = "singles" =>
         /\ ArraysRead
         /\ \A n \in 1 .. section - 1 : <<Singles[n], 0>> \in FilledIn
    /\ pc \in {"private", "delete"} \cup PhaseSet =>
         input.components = <<>> \/ (ArraysRead /\ SinglesRead)

(* The stage each part but a network is in. *)
Finished(n, j) == j < NumBuilt(Building[n]) /\ (n < section \/ (n = section /\ j < i))
AtWork(n, j)   == j < NumBuilt(Building[n]) /\ n = section /\ j = i
Built ==
    /\ pc \in Reading => \A p \in Entries : stage[p] = 1
    /\ pc = "build" =>
         /\ i <= NumBuilt(Building[section])
         /\ \A p \in Entries : p[1] = "NoC" => stage[p] = 1
         /\ \A n \in DOMAIN Building : \A j \in 0 .. MAX_NUM_CORES - 1 :
              /\ Finished(n, j) => stage[<<Building[n], j>>] = 4
              /\ ~ Finished(n, j) /\ ~ AtWork(n, j) => stage[<<Building[n], j>>] = 1
    /\ pc \in {"routers", "links", "energy", "display"} =>
         \A p \in Entries : p[1] # "NoC" => stage[p] = IF p \in Parts THEN 4 ELSE 1
    /\ pc = "delete" =>
         \A p \in Entries : p[1] # "NoC" => IF p \in Parts THEN stage[p] > 4 ELSE stage[p] = 1
    /\ ~ xml => pc \in {"delete", "ended"}

IInv == Types /\ Read /\ Built /\ ReadsFilledEntries

-----------------------------------------------------------------------------
LEMMA Sections ==
    /\ DOMAIN Arrays = 1 .. 6 /\ DOMAIN Singles = 1 .. 4 /\ DOMAIN Building = 1 .. 9
    /\ Len(Arrays) = 6 /\ Len(Singles) = 4 /\ Len(Building) = 9 /\ Len(Deleting) = 10
    /\ Arrays[1] = "core" /\ Arrays[2] = "L1Directory" /\ Arrays[3] = "L2Directory"
    /\ Arrays[4] = "L2" /\ Arrays[5] = "L3" /\ Arrays[6] = "NoC"
    /\ Singles[1] = "mc" /\ Singles[2] = "niu" /\ Singles[3] = "pcie" /\ Singles[4] = "flash"
    /\ Building[1] = "core" /\ Building[2] = "L2" /\ Building[3] = "L3"
    /\ Building[4] = "L1Directory" /\ Building[5] = "L2Directory" /\ Building[6] = "mc"
    /\ Building[7] = "flash" /\ Building[8] = "niu" /\ Building[9] = "pcie"
  BY DEF Arrays, Singles, Building, Deleting

LEMMA KindNames ==
    /\ ArrayKinds = {"core", "L1Directory", "L2Directory", "L2", "L3", "NoC"}
    /\ SingleKinds = {"mc", "niu", "pcie", "flash"}
  BY Sections DEF ArrayKinds, SingleKinds

LEMMA BuildingKinds ==
    /\ \A k \in Kinds \ {"NoC"} : \E n \in DOMAIN Building : Building[n] = k
    /\ \A n \in DOMAIN Building : Building[n] \in Kinds \ {"NoC"}
    /\ \A m, n \in DOMAIN Building : Building[m] = Building[n] => m = n
  <1>1. Kinds \ {"NoC"} = {"core", "L2", "L3", "L1Directory", "L2Directory", "mc", "flash", "niu", "pcie"}
    BY KindNames DEF Kinds
  <1> QED
    BY <1>1, Sections

LEMMA NextPhases ==
    /\ pc = "build" => NextPhase = "routers"
    /\ pc = "routers" => NextPhase = "links"
    /\ pc = "links" => NextPhase = "energy"
    /\ pc = "energy" => NextPhase = "display"
  <1>1. /\ DOMAIN Phases = 1 .. 5 /\ Phases[1] = "build" /\ Phases[2] = "routers"
        /\ Phases[3] = "links" /\ Phases[4] = "energy" /\ Phases[5] = "display"
    BY DEF Phases
  <1>2. \A m, n \in DOMAIN Phases : Phases[m] = Phases[n] => m = n
    BY <1>1
  <1> DEFINE place == CHOOSE n \in DOMAIN Phases : Phases[n] = pc
  <1>3. ASSUME NEW n \in DOMAIN Phases, pc = Phases[n] PROVE NextPhase = Phases[1 + n]
    <2>1. place \in DOMAIN Phases /\ Phases[place] = pc
      BY <1>3
    <2> HIDE DEF place
    <2>2. place = n
      BY <1>2, <1>3, <2>1
    <2> QED
      BY <2>2 DEF NextPhase, place
  <1> QED
    BY <1>1, <1>3

(* No kind has more parts than entries, when its number was not refused. *)
LEMMA PartsFit ==
    ASSUME input \in Inputs, ~ TooMany, NEW k \in Kinds
    PROVE  NumParts(k) \in 0 .. MAX_NUM_CORES /\ NumBuilt(k) \in 0 .. MAX_NUM_CORES
  <1>1. /\ input \in Input /\ MAX_NUM_CORES \in Nat \ {0}
    BY InputsAssumption
  <1>2. input.number \in [Kinds -> 0 .. MAX_NUM_CORES + 1]
    BY <1>1 DEF Input
  <1>3. k \in ArrayKinds => input.number[k] <= MAX_NUM_CORES
    BY <1>1, <1>2 DEF TooMany
  <1>4. NumParts(k) \in 0 .. MAX_NUM_CORES
    <2>1. input.number[k] \in 0 .. MAX_NUM_CORES + 1
      BY <1>2
    <2>2. CASE k \in ArrayKinds
      BY <1>1, <1>3, <2>1, <2>2 DEF NumParts
    <2>3. CASE k \notin ArrayKinds
      BY <1>1, <2>1, <2>3 DEF NumParts
    <2> QED
      BY <2>2, <2>3
  <1> QED
    BY <1>1, <1>4 DEF NumBuilt

(* The parts of a kind are no more than the entries its section fills. *)
LEMMA PartsAreWanted ==
    ASSUME input \in Inputs, NEW k \in ArrayKinds
    PROVE  NumParts(k) <= Wanted(k) /\ Wanted(k) \in Nat /\ NumParts(k) \in Nat
  <1>1. /\ input \in Input /\ k \in Kinds
    BY InputsAssumption DEF Kinds
  <1>2. input.number[k] \in Nat
    <2>1. input.number \in [Kinds -> 0 .. MAX_NUM_CORES + 1]
      BY <1>1 DEF Input
    <2> QED
      BY <1>1, <2>1, InputsAssumption
  <1>3. CASE input.homo[k]
    BY <1>2, <1>3 DEF NumParts, Wanted
  <1>4. CASE ~ input.homo[k]
    <2>1. Wanted(k) = input.number[k]
      BY <1>4 DEF Wanted
    <2>2. NumParts(k) = input.number[k]
      <3>1. k \notin {"mc", "pcie"}
        BY KindNames
      <3> QED
        BY <1>4, <3>1, Zenon DEF NumParts
    <2> QED
      BY <1>2, <2>1, <2>2
  <1> QED
    BY <1>3, <1>4

(* The file's numbers stay. *)
LEMMA Unmoved ==
    ASSUME UNCHANGED input
    PROVE  /\ TooMany' = TooMany /\ L2sMissing' = L2sMissing /\ Parts' = Parts
           /\ \A k : Wanted(k)' = Wanted(k) /\ NumParts(k)' = NumParts(k) /\ NumBuilt(k)' = NumBuilt(k)
  BY DEF TooMany, L2sMissing, Parts, Wanted, NumParts, NumBuilt

(* What a part reads is filled in, once the file is read. *)
Filled(st, x) ==
    input.components # <<>> =>
        \A p \in Entries : st[p] > 1 /\ p[1] # "NoC" => ReadsOf(p) \subseteq FilledIn /\ (st[p] < 5 => x)

LEMMA FilledBy ==
    ASSUME Types, Read, pc \in PhaseSet \cup {"delete"}, NEW st, NEW x,
           \A p \in Entries : st[p] > 1 /\ p[1] # "NoC" => p \in Parts /\ (st[p] < 5 => x)
    PROVE  Filled(st, x)
  <1> SUFFICES ASSUME input.components # <<>>, NEW p \in Parts, p \in Entries, p[1] # "NoC"
               PROVE  ReadsOf(p) \subseteq FilledIn
    BY DEF Filled
  <1>0. input \in Inputs /\ ~ L2sMissing /\ ArraysRead /\ SinglesRead
    BY DEF Types, Read, PhaseSet
  <1>1. PICK k \in Kinds : p \in {k} \X (0 .. NumBuilt(k) - 1)
    BY DEF Parts
  <1>2. p = <<k, p[2]>> /\ p[1] = k /\ p[2] \in 0 .. NumBuilt(k) - 1
    BY <1>1
  <1>3. ASSUME NEW a \in ArrayKinds \ {"NoC"}, NEW j \in Nat, j < NumParts(a)
        PROVE  <<a, j>> \in FilledIn
    <2>1. j < Wanted(a)
      BY <1>0, <1>3, PartsAreWanted
    <2>2. PICK n \in DOMAIN Arrays : Arrays[n] = a
      BY DEF ArrayKinds
    <2> QED
      BY <1>0, <2>1, <2>2 DEF ArraysRead, SectionRead
  <1>4. ASSUME NEW a \in SingleKinds PROVE <<a, 0>> \in FilledIn
    <2>1. PICK n \in DOMAIN Singles : Singles[n] = a
      BY DEF SingleKinds
    <2> QED
      BY <1>0, <2>1 DEF SinglesRead
  <1>5. NumBuilt(k) = NumParts(k) /\ p[2] < NumParts(k) /\ p[2] \in Nat
    <2>1. NumBuilt(k) = 0 \/ NumBuilt(k) = NumParts(k)
      BY DEF NumBuilt
    <2>2. NumParts(k) \in Nat
      <3>1. ~ TooMany
        BY DEF Read, PhaseSet
      <3> QED
        BY <1>0, <3>1, PartsFit
    <2> QED
      BY <1>2, <2>1, <2>2
  <1>6. p \in FilledIn
    <2>1. CASE k \in ArrayKinds
      BY <1>2, <1>3, <1>5, <2>1
    <2>2. CASE k \notin ArrayKinds
      <3>1. k \in SingleKinds /\ NumParts(k) \in {0, 1}
        BY <2>2 DEF Kinds, NumParts
      <3> QED
        BY <1>2, <1>4, <1>5, <3>1
    <2> QED
      BY <2>1, <2>2
  <1>7. ASSUME k = "core", input.Private_L2 PROVE <<"L2", p[2]>> \in FilledIn
    <2>1. NumParts("core") = NumParts("L2")
      BY <1>0, <1>7 DEF L2sMissing
    <2> QED
      BY <1>3, <1>5, <1>7, <2>1, KindNames
  <1> QED
    BY <1>2, <1>6, <1>7 DEF ReadsOf

(* The program ends where it is, with nothing else changed. *)
LEMMA ExitKeeps ==
    ASSUME IInv, pc' = "ended", UNCHANGED <<input, section, FilledIn, stage, xml>>, i' \in Nat
    PROVE  IInv'
  <1>1. Types' /\ Read' /\ Built'
    BY DEF IInv, Types, Read, Built, Reading, PhaseSet
  <1>2. ReadsFilledEntries'
    BY DEF IInv, ReadsFilledEntries, ReadsOf
  <1> QED
    BY <1>1, <1>2 DEF IInv

(* Nothing is built while the file is read. *)
LEMMA NothingBuilt ==
    ASSUME Built, Types, pc \in Reading, UNCHANGED <<input, stage, xml>>
    PROVE  ReadsFilledEntries'
  <1>1. \A p \in Entries : stage'[p] = 1
    BY DEF Built
  <1> QED
    BY <1>1 DEF ReadsFilledEntries

-----------------------------------------------------------------------------
LEMMA InitInv == Init => IInv
  <1> SUFFICES ASSUME Init PROVE IInv
    OBVIOUS
  <1>1. Types /\ Read
    BY Sections, InputsAssumption DEF Init, Types, Read, Reading, PhaseSet
  <1>2. Built
    BY DEF Init, Built, Reading, PhaseSet
  <1>3. ReadsFilledEntries
    BY DEF Init, ReadsFilledEntries
  <1> QED
    BY <1>1, <1>2, <1>3 DEF IInv

LEMMA NumbersKeep == ASSUME IInv, CheckNumbers PROVE IInv'
  <1>0. pc = "check" /\ UNCHANGED <<input, xml, section, i, w, cursor, FilledIn, stage, kind_total, chip_total>>
    BY DEF CheckNumbers, Keep, FilledIn
  <1>1. CASE pc' = "ended"
    BY <1>0, <1>1, ExitKeeps DEF IInv, Types
  <1>2. CASE pc' # "ended"
    <2>1. ~ TooMany /\ pc' = IF input.components = <<>> THEN "private" ELSE "arrays"
      BY <1>2 DEF CheckNumbers, Exit
    <2>2. section = 1 /\ i = 0 /\ (pc' = "arrays" \/ (pc' = "private" /\ input.components = <<>>))
      BY <1>0, <2>1 DEF IInv, Types
    <2>3. Types'
      BY <1>0, <2>2, Sections DEF IInv, Types, Reading, PhaseSet
    <2>4. Read'
      BY <1>0, <2>1, <2>2, Unmoved DEF Read, PhaseSet
    <2>5. Built'
      BY <1>0, <2>2 DEF IInv, Built, Reading, PhaseSet
    <2>6. ReadsFilledEntries'
      BY <1>0, NothingBuilt DEF IInv, Reading
    <2> QED
      BY <2>3, <2>4, <2>5, <2>6 DEF IInv
  <1> QED
    BY <1>1, <1>2

LEMMA EntryKeeps == ASSUME IInv, ReadEntry PROVE IInv'
  <1>0. /\ pc = "arrays" /\ UNCHANGED <<input, xml, section, stage>>
        /\ section \in 1 .. 6 /\ i \in Nat /\ i' \in {i, i + 1}
    BY Sections DEF ReadEntry, PassOver, Exit, IInv, Types
  <1>1. CASE pc' = "ended"
    <2>1. UNCHANGED <<FilledIn, i>>
      BY <1>0, <1>1 DEF ReadEntry, PassOver, Exit, FilledIn
    <2> QED
      BY <1>0, <1>1, <2>1, ExitKeeps
  <1>2. CASE pc' # "ended"
    <2>1. \/ /\ FilledIn' = FilledIn \cup {<<Arrays[section], i>>}
             /\ i' = i + 1 /\ pc' = pc
          \/ /\ Arrays[section] = "NoC"
             /\ i' = i + 1 /\ pc' = pc /\ FilledIn' = FilledIn
      <3>1. \/ /\ given' = given \cup {<<Arrays[section], i>>} /\ misread' = misread
               /\ i' = i + 1 /\ pc' = pc
            \/ /\ Arrays[section] = "L2" /\ misread' = misread \cup {i} /\ given' = given
               /\ i' = i + 1 /\ pc' = pc
            \/ /\ Arrays[section] = "NoC"
               /\ i' = i + 1 /\ pc' = pc /\ UNCHANGED <<given, misread>>
        BY <1>2, Zenon DEF ReadEntry, PassOver, Exit, Recognised
      <3> QED
        BY <3>1 DEF FilledIn
    <2>2. Types'
      BY <1>0, <2>1, Sections DEF IInv, Types, Reading, PhaseSet
    <2>3. Read'
      <3>1. \A n \in 1 .. section - 1 : SectionRead(n)'
        <4>1. \A n \in 1 .. section - 1 : SectionRead(n)
          BY <1>0 DEF IInv, Read
        <4> QED
          BY <1>0, <2>1, <4>1, Unmoved DEF SectionRead
      <3>2. Arrays[section] # "NoC" => \A j \in Nat : j < i' => <<Arrays[section], j>> \in FilledIn'
        BY <1>0, <2>1 DEF IInv, Read
      <3>3. ~ TooMany'
        BY <1>0, Unmoved DEF IInv, Read
      <3> QED
        BY <1>0, <2>1, <3>1, <3>2, <3>3 DEF Read, PhaseSet
    <2>4. Built'
      BY <1>0, <2>1 DEF IInv, Built, Reading, PhaseSet
    <2>5. ReadsFilledEntries'
      BY <1>0, NothingBuilt DEF IInv, Reading
    <2> QED
      BY <2>2, <2>3, <2>4, <2>5 DEF IInv
  <1> QED
    BY <1>1, <1>2

LEMMA SectionKeeps == ASSUME IInv, EndSection PROVE IInv'
  <1>0. /\ pc = "arrays" /\ UNCHANGED <<input, xml, FilledIn, stage>>
        /\ section \in 1 .. 6 /\ i = Wanted(Arrays[section]) /\ i' = 0
    BY Sections DEF EndSection, Keep, FilledIn, IInv, Types
  <1>1. \/ section < 6 /\ section' = section + 1 /\ pc' = "arrays"
        \/ section = 6 /\ section' = 1 /\ pc' = "singles"
    BY <1>0, Sections DEF EndSection
  <1>2. \A n \in 1 .. section : SectionRead(n)
    <2>1. SectionRead(section)
      BY <1>0 DEF IInv, Read, SectionRead
    <2>2. \A n \in 1 .. section - 1 : SectionRead(n)
      BY <1>0 DEF IInv, Read
    <2> QED
      BY <1>0, <2>1, <2>2
  <1>3. \A n \in 1 .. section : SectionRead(n)'
    BY <1>0, <1>2, Unmoved DEF SectionRead
  <1>4. Types'
    BY <1>0, <1>1, Sections DEF IInv, Types, Reading, PhaseSet
  <1>5. Read'
    <2>1. ~ TooMany'
      BY <1>0, Unmoved DEF IInv, Read
    <2>2. CASE pc' = "arrays"
      BY <1>0, <1>1, <1>3, <2>1, <2>2 DEF Read, PhaseSet
    <2>3. CASE pc' = "singles"
      <3>1. ArraysRead'
        BY <1>0, <1>1, <1>3, <2>3, Sections DEF ArraysRead
      <3> QED
        BY <1>1, <2>1, <2>3, <3>1 DEF Read, PhaseSet
    <2> QED
      BY <1>1, <2>2, <2>3
  <1>6. Built'
    BY <1>0, <1>1 DEF IInv, Built, Reading, PhaseSet
  <1>7. ReadsFilledEntries'
    BY <1>0, NothingBuilt DEF IInv, Reading
  <1> QED
    BY <1>4, <1>5, <1>6, <1>7 DEF IInv

LEMMA SingleKeeps == ASSUME IInv, ReadSingle PROVE IInv'
  <1>0. /\ pc = "singles" /\ UNCHANGED <<input, xml, i, stage>>
        /\ section \in 1 .. 4 /\ i \in Nat
    BY Sections DEF ReadSingle, Keep, FilledIn, IInv, Types
  <1>1. CASE pc' = "ended"
    <2>1. UNCHANGED <<FilledIn, section>>
      BY <1>0, <1>1, Sections DEF ReadSingle, Exit, Keep, FilledIn
    <2> QED
      BY <1>0, <1>1, <2>1, ExitKeeps
  <1>2. CASE pc' # "ended"
    <2>1. /\ FilledIn' = FilledIn \cup {<<Singles[section], 0>>}
          /\ \/ section < 4 /\ section' = section + 1 /\ pc' = "singles"
             \/ section = 4 /\ section' = 1 /\ pc' = "private"
      <3>1. Len(Singles) = 4
        BY Sections
      <3>2. /\ given' = given \cup {<<Singles[section], 0>>} /\ misread' = misread
            /\ IF section < Len(Singles) THEN section' = section + 1 /\ UNCHANGED pc
               ELSE section' = 1 /\ pc' = "private"
        BY <1>2, Zenon DEF ReadSingle, Exit, Keep
      <3> QED
        BY <1>0, <3>1, <3>2 DEF FilledIn
    <2>2. Types'
      BY <1>0, <2>1, Sections DEF IInv, Types, Reading, PhaseSet
    <2>3. Read'
      <3>1. ~ TooMany'
        BY <1>0, Unmoved DEF IInv, Read
      <3>2. ArraysRead'
        <4>1. ArraysRead
          BY <1>0 DEF IInv, Read
        <4> QED
          BY <1>0, <2>1, <4>1, Unmoved DEF ArraysRead, SectionRead
      <3>3. \A n \in 1 .. section : <<Singles[n], 0>> \in FilledIn'
        BY <1>0, <2>1 DEF IInv, Read
      <3>4. CASE pc' = "singles"
        BY <1>0, <2>1, <3>1, <3>2, <3>3, <3>4 DEF Read, PhaseSet
      <3>5. CASE pc' = "private"
        <4>1. SinglesRead'
          BY <1>0, <2>1, <3>3, <3>5, Sections DEF SinglesRead
        <4> QED
          BY <3>1, <3>2, <3>5, <4>1 DEF Read, PhaseSet
      <3> QED
        BY <2>1, <3>4, <3>5
    <2>4. Built'
      BY <1>0, <2>1 DEF IInv, Built, Reading, PhaseSet
    <2>5. ReadsFilledEntries'
      BY <1>0, NothingBuilt DEF IInv, Reading
    <2> QED
      BY <2>2, <2>3, <2>4, <2>5 DEF IInv
  <1> QED
    BY <1>1, <1>2

LEMMA PrivateKeeps == ASSUME IInv, CheckPrivateL2 PROVE IInv'
  <1>0. pc = "private" /\ section' = 1 /\ i' = 0 /\ UNCHANGED <<input, xml, FilledIn, stage>>
    BY DEF CheckPrivateL2, Keep, FilledIn
  <1>1. \/ pc' = "ended"
        \/ pc' = "build" /\ ~ L2sMissing
    <2>1. Phases[1] = "build"
      BY DEF Phases
    <2> QED
      BY <2>1 DEF CheckPrivateL2, Exit
  <1>2. /\ \A p \in Entries : stage[p] = 1
        /\ input \in Inputs /\ ~ TooMany
    BY <1>0 DEF IInv, Types, Read, Built, Reading
  <1>3. Types'
    BY <1>0, <1>1, Sections DEF IInv, Types, Reading, PhaseSet
  <1>4. Read'
    <2>1. ~ TooMany' /\ (pc' = "build" => ~ L2sMissing')
      BY <1>0, <1>1, <1>2, Unmoved
    <2>2. input'.components = <<>> \/ (ArraysRead' /\ SinglesRead')
      <3>1. input.components = <<>> \/ (ArraysRead /\ SinglesRead)
        BY <1>0 DEF IInv, Read
      <3>2. (ArraysRead => ArraysRead') /\ (SinglesRead => SinglesRead')
        BY <1>0, Unmoved DEF ArraysRead, SinglesRead, SectionRead
      <3> QED
        BY <1>0, <3>1, <3>2
    <2> QED
      BY <1>1, <2>1, <2>2 DEF Read, PhaseSet
  <1>5. Built'
    <2>1. xml' /\ pc' \notin Reading
      BY <1>0, <1>1 DEF IInv, Built, Reading
    <2>2. 0 <= NumBuilt(Building[1])'
      <3>1. Building[1] \in Kinds
        BY BuildingKinds, Sections
      <3> QED
        BY <1>0, <1>2, <3>1, PartsFit, Unmoved
    <2>3. \A n \in DOMAIN Building : \A j \in 0 .. MAX_NUM_CORES - 1 :
              /\ ~ Finished(n, j)'
              /\ stage'[<<Building[n], j>>] = 1
      <3>1. \A n \in DOMAIN Building : \A j \in 0 .. MAX_NUM_CORES - 1 : <<Building[n], j>> \in Entries
        BY BuildingKinds DEF Entries
      <3> QED
        BY <1>0, <1>2, <3>1, Sections DEF Finished
    <2> QED
      BY <1>0, <1>1, <1>2, <2>1, <2>2, <2>3 DEF Built
  <1>6. ReadsFilledEntries'
    BY <1>0, NothingBuilt DEF IInv, Reading
  <1> QED
    BY <1>3, <1>4, <1>5, <1>6 DEF IInv

-----------------------------------------------------------------------------
(* What was read, and the types, stay once the parts are built. *)
LEMMA StaysRead ==
    ASSUME IInv, pc \in PhaseSet \cup {"delete"}, pc' \in PhaseSet \cup {"delete", "ended"},
           UNCHANGED <<input, FilledIn>>
    PROVE  Read'
  <1>1. input \in Inputs /\ ~ TooMany /\ ~ L2sMissing
    BY DEF IInv, Types, Read, PhaseSet
  <1>2. input.components = <<>> \/ (ArraysRead /\ SinglesRead)
    BY DEF IInv, Read
  <1>3. (ArraysRead => ArraysRead') /\ (SinglesRead => SinglesRead')
    BY Unmoved DEF ArraysRead, SinglesRead, SectionRead
  <1>4. ~ TooMany' /\ ~ L2sMissing'
    BY <1>1, Unmoved
  <1> QED
    BY <1>2, <1>3, <1>4 DEF Read, PhaseSet

(* Every part under construction, but a network, is one of the chip. *)
LEMMA BuiltAreParts ==
    ASSUME IInv, pc = "build", NEW p \in Entries, stage[p] > 1
    PROVE  p \in Parts /\ p[1] # "NoC"
  <1>1. p[1] # "NoC"
    BY DEF IInv, Built
  <1>2. /\ p[1] \in Kinds /\ p[2] \in 0 .. MAX_NUM_CORES - 1
        /\ p = <<p[1], p[2]>>
    BY DEF Entries
  <1>3. PICK n \in DOMAIN Building : Building[n] = p[1]
    BY <1>1, <1>2, BuildingKinds
  <1>4. Finished(n, p[2]) \/ AtWork(n, p[2])
    BY <1>2, <1>3 DEF IInv, Built
  <1>5. p[2] < NumBuilt(p[1])
    BY <1>3, <1>4 DEF Finished, AtWork
  <1>6. NumBuilt(p[1]) \in 0 .. MAX_NUM_CORES
    BY <1>2, PartsFit DEF IInv, Types, Read, PhaseSet
  <1>7. MAX_NUM_CORES \in Nat
    BY InputsAssumption
  <1>8. p[2] \in 0 .. NumBuilt(p[1]) - 1
    BY <1>2, <1>5, <1>6, <1>7
  <1> QED
    BY <1>1, <1>2, <1>8 DEF Parts

LEMMA BuildKeeps == ASSUME IInv, BuildPart PROVE IInv'
  <1> DEFINE p == <<Building[section], i>>
  <1>0. /\ pc = "build" /\ UNCHANGED <<input, xml, section, FilledIn>>
        /\ section \in DOMAIN Building /\ section \in 1 .. Len(Deleting) /\ i \in Nat
        /\ xml = TRUE /\ stage \in [Entries -> Int]
        /\ input \in Inputs /\ ~ TooMany
    BY DEF BuildPart, Keep, FilledIn, IInv, Types, Read, Built, PhaseSet
  <1>1. p \in Entries /\ p \in Parts /\ p[1] # "NoC" /\ p[2] = i /\ i < NumBuilt(Building[section])
    <2>1. Building[section] \in Kinds \ {"NoC"}
      BY <1>0, BuildingKinds
    <2>2. i < NumBuilt(Building[section])
      BY DEF BuildPart
    <2>3. NumBuilt(Building[section]) \in 0 .. MAX_NUM_CORES /\ MAX_NUM_CORES \in Nat
      BY <1>0, <2>1, PartsFit, InputsAssumption
    <2>4. i \in 0 .. MAX_NUM_CORES - 1 /\ i \in 0 .. NumBuilt(Building[section]) - 1
      BY <1>0, <2>2, <2>3
    <2> QED
      BY <2>1, <2>2, <2>4 DEF Entries, Parts
  <1>2. \/ pc' = "ended" /\ stage' = stage /\ i' = i
        \/ pc' = pc /\ stage' = [stage EXCEPT ![p] = @ + 1] /\ i' = i
        \/ pc' = pc /\ stage' = stage /\ i' = i + 1 /\ stage[p] = 4
    BY <1>0 DEF BuildPart, Construct, ComputeEnergy, AddPart, Advance, Exit
  <1>3. CASE pc' = "ended" /\ stage' = stage /\ i' = i
    BY <1>0, <1>3, ExitKeeps
  <1>4. CASE pc' = pc /\ i' \in {i, i + 1}
    <2>0. /\ pc' = "build"
          /\ stage' \in [Entries -> Int]
          /\ \A q \in Entries : q # p => stage'[q] = stage[q]
          /\ i' = i + 1 => stage[p] = 4 /\ stage' = stage
          /\ i' = i \/ i' = i + 1
      <3>1. CASE stage' = stage
        BY <1>0, <1>2, <1>4, <3>1
      <3>2. CASE stage' = [stage EXCEPT ![p] = @ + 1]
        <4>1. i' = i
          BY <1>0, <1>1, <1>2, <3>2
        <4>2. /\ stage' \in [Entries -> Int]
              /\ \A q \in Entries : q # p => stage'[q] = stage[q]
          <5> HIDE DEF p
          <5> QED
            BY <1>0, <1>1, <3>2
        <4> QED
          BY <1>0, <1>4, <4>1, <4>2
      <3> QED
        BY <1>0, <1>2, <1>4, <3>1, <3>2
    <2>1. Types'
      BY <1>0, <2>0 DEF IInv, Types, PhaseSet, Reading
    <2>2. Read'
      BY <1>0, <2>0, StaysRead DEF PhaseSet
    <2>3. Built'
      <3>1. i' <= NumBuilt(Building[section])'
        <4>1. NumBuilt(Building[section]) \in Nat
          BY <1>0, PartsFit, BuildingKinds, InputsAssumption
        <4> QED
          BY <1>0, <1>1, <2>0, <4>1, Unmoved
      <3>2. \A q \in Entries : q[1] = "NoC" => stage'[q] = 1
        BY <1>0, <1>1, <2>0 DEF IInv, Built
      <3>3. ASSUME NEW n \in DOMAIN Building, NEW j \in 0 .. MAX_NUM_CORES - 1
            PROVE  /\ Finished(n, j)' => stage'[<<Building[n], j>>] = 4
                   /\ ~ Finished(n, j)' /\ ~ AtWork(n, j)' => stage'[<<Building[n], j>>] = 1
        <4> DEFINE q == <<Building[n], j>>
        <4>1. q \in Entries /\ n \in Int /\ j \in Int /\ section \in Int /\ i \in Int
          BY <1>0, BuildingKinds, InputsAssumption, Sections DEF Entries
        <4>2. /\ Finished(n, j) => stage[q] = 4
              /\ ~ Finished(n, j) /\ ~ AtWork(n, j) => stage[q] = 1
          BY <1>0 DEF IInv, Built
        <4>3. q = p <=> n = section /\ j = i
          BY <1>0, BuildingKinds
        <4>4. NumBuilt(Building[n])' = NumBuilt(Building[n])
          BY <1>0, Unmoved
        <4>5. CASE n = section /\ j = i
          <5>1. q = p /\ ~ Finished(n, j) /\ (i' = i => AtWork(n, j)' /\ ~ Finished(n, j)')
            BY <1>0, <1>1, <4>1, <4>3, <4>4, <4>5 DEF Finished, AtWork
          <5>2. i' = i + 1 => Finished(n, j)'
            BY <1>0, <1>1, <4>1, <4>4, <4>5 DEF Finished
          <5> QED
            BY <2>0, <5>1, <5>2
        <4>6. CASE ~ (n = section /\ j = i)
          <5>1. stage'[q] = stage[q]
            BY <2>0, <4>1, <4>3, <4>6
          <5>2. Finished(n, j)' <=> Finished(n, j)
            BY <1>0, <2>0, <4>1, <4>4, <4>6 DEF Finished
          <5>3. ~ AtWork(n, j)
            BY <4>6 DEF AtWork
          <5> QED
            BY <4>2, <5>1, <5>2, <5>3
        <4> QED
          BY <4>5, <4>6
      <3> QED
        BY <1>0, <2>0, <3>1, <3>2, <3>3 DEF Built, Reading
    <2>4. ReadsFilledEntries'
      <3>1. \A q \in Entries : stage'[q] > 1 /\ q[1] # "NoC" => q \in Parts /\ (stage'[q] < 5 => xml')
        <4> HIDE DEF p
        <4> QED
          BY <1>0, <1>1, <2>0, BuiltAreParts
      <3>2. Filled(stage', xml')
        BY <1>0, <3>1, FilledBy DEF IInv, PhaseSet
      <3> QED
        BY <1>0, <3>2 DEF Filled, ReadsFilledEntries, ReadsOf
    <2> QED
      BY <2>1, <2>2, <2>3, <2>4 DEF IInv
  <1> QED
    BY <1>0, <1>2, <1>3, <1>4

LEMMA KindKeeps == ASSUME IInv, EndKind PROVE IInv'
  <1>0. /\ pc = "build" /\ UNCHANGED <<input, xml, FilledIn, stage>>
        /\ section \in 1 .. 9 /\ i = NumBuilt(Building[section]) /\ i' = 0
        /\ xml = TRUE /\ input \in Inputs /\ ~ TooMany
    BY Sections DEF EndKind, Keep, FilledIn, IInv, Types, Read, Built, PhaseSet
  <1>1. \/ section < 9 /\ section' = section + 1 /\ pc' = "build"
        \/ section = 9 /\ section' = 1 /\ pc' = "routers"
    <2>1. Len(Building) = 9 /\ NextPhase = "routers"
      BY <1>0, Sections, NextPhases
    <2>2. IF section < Len(Building) THEN section' = section + 1 /\ UNCHANGED pc
          ELSE section' = 1 /\ pc' = NextPhase
      BY Zenon DEF EndKind
    <2> QED
      BY <1>0, <2>1, <2>2
  <1>2. /\ \A p \in Entries : p[1] = "NoC" => stage[p] = 1
        /\ \A n \in DOMAIN Building : \A j \in 0 .. MAX_NUM_CORES - 1 :
              IF n <= section /\ j < NumBuilt(Building[n])
              THEN stage[<<Building[n], j>>] = 4 ELSE stage[<<Building[n], j>>] = 1
    <2>1. ASSUME NEW n \in DOMAIN Building, NEW j \in 0 .. MAX_NUM_CORES - 1
          PROVE  /\ Finished(n, j) <=> n <= section /\ j < NumBuilt(Building[n])
                 /\ ~ AtWork(n, j)
      <3>1. n \in Int /\ j \in Int /\ NumBuilt(Building[n]) \in Int /\ NumBuilt(Building[section]) \in Int
        BY <1>0, BuildingKinds, PartsFit, Sections, InputsAssumption
      <3> QED
        BY <1>0, <3>1 DEF Finished, AtWork
    <2> QED
      BY <1>0, <2>1 DEF IInv, Built
  <1>3. Types'
    BY <1>0, <1>1, Sections DEF IInv, Types, PhaseSet, Reading
  <1>4. Read'
    BY <1>0, <1>1, StaysRead DEF PhaseSet
  <1>5. Built'
    <2>1. CASE pc' = "build"
      <3>1. section' = section + 1 /\ section' \in DOMAIN Building
        BY <1>0, <1>1, <2>1, Sections
      <3>2. i' <= NumBuilt(Building[section])'
        <4>1. NumBuilt(Building[section + 1]) \in Nat
          BY <1>0, <3>1, BuildingKinds, PartsFit, InputsAssumption
        <4>2. NumBuilt(Building[section])' = NumBuilt(Building[section + 1])
          BY <1>0, <3>1 DEF NumBuilt, NumParts
        <4> QED
          BY <1>0, <4>1, <4>2
      <3>3. ASSUME NEW n \in DOMAIN Building, NEW j \in 0 .. MAX_NUM_CORES - 1
            PROVE  /\ Finished(n, j)' => stage'[<<Building[n], j>>] = 4
                   /\ ~ Finished(n, j)' /\ ~ AtWork(n, j)' => stage'[<<Building[n], j>>] = 1
        <4>0. n \in Int /\ j \in Nat /\ NumBuilt(Building[n])' = NumBuilt(Building[n])
          BY <1>0, Unmoved, Sections, InputsAssumption
        <4>1. Finished(n, j)' <=> n <= section /\ j < NumBuilt(Building[n])
          BY <1>0, <3>1, <4>0 DEF Finished
        <4> QED
          BY <1>0, <1>2, <4>1
      <3> QED
        BY <1>0, <1>2, <2>1, <3>1, <3>2, <3>3 DEF Built, Reading
    <2>2. CASE pc' = "routers"
      <3>1. \A p \in Entries : p[1] # "NoC" => stage'[p] = IF p \in Parts' THEN 4 ELSE 1
        <4> SUFFICES ASSUME NEW p \in Entries, p[1] # "NoC"
                     PROVE  stage[p] = IF p \in Parts THEN 4 ELSE 1
          BY <1>0, Unmoved
        <4>1. p[1] \in Kinds /\ p[2] \in 0 .. MAX_NUM_CORES - 1 /\ p = <<p[1], p[2]>>
          BY DEF Entries
        <4>2. PICK n \in DOMAIN Building : Building[n] = p[1]
          BY <4>1, BuildingKinds
        <4>3. n <= section
          BY <1>1, <2>2, Sections
        <4>4. p \in Parts <=> p[2] < NumBuilt(p[1])
          <5>1. NumBuilt(p[1]) \in Int /\ p[2] \in Nat /\ MAX_NUM_CORES \in Nat
            BY <1>0, <4>1, PartsFit, InputsAssumption
          <5>2. p \in Parts <=> p[2] \in 0 .. NumBuilt(p[1]) - 1
            BY <4>1 DEF Parts
          <5> QED
            BY <5>1, <5>2
        <4> QED
          BY <1>2, <4>1, <4>2, <4>3, <4>4
      <3> QED
        BY <1>0, <2>2, <3>1 DEF Built, Reading
    <2> QED
      BY <1>1, <2>1, <2>2
  <1>6. ReadsFilledEntries'
    BY <1>0 DEF IInv, ReadsFilledEntries, ReadsOf
  <1> QED
    BY <1>3, <1>4, <1>5, <1>6 DEF IInv

(* The networks leave the other parts as they are. *)
LEMMA NetworksKeep ==
    ASSUME IInv, pc \in {"routers", "links", "energy"}, UNCHANGED <<input, xml, section, FilledIn>>,
           i' \in Nat, pc' \in {"routers", "links", "energy", "display"},
           stage' \in [Entries -> Int], \A p \in Entries : p[1] # "NoC" => stage'[p] = stage[p]
    PROVE  IInv'
  <1>1. Types'
    BY DEF IInv, Types, PhaseSet, Reading
  <1>2. Read'
    BY StaysRead DEF PhaseSet
  <1>3. Built'
    BY Unmoved DEF IInv, Built, Reading
  <1>4. ReadsFilledEntries'
    BY DEF IInv, ReadsFilledEntries, ReadsOf
  <1> QED
    BY <1>1, <1>2, <1>3, <1>4 DEF IInv

LEMMA NetworkStepsKeep ==
    ASSUME IInv, AddRouter \/ AddLinks \/ AddEnergy \/ EndNetworks
    PROVE  IInv'
  <1>0. i \in Nat /\ stage \in [Entries -> Int]
    BY DEF IInv, Types
  <1>1. CASE AddRouter \/ AddLinks \/ AddEnergy
    <2>1. /\ pc \in {"routers", "links", "energy"} /\ UNCHANGED <<input, xml, section, FilledIn, pc>>
          /\ i' \in Nat
          /\ stage' = stage \/ stage' = [stage EXCEPT ![<<"NoC", i>>] = @ + 1]
      BY <1>0, <1>1 DEF AddRouter, AddLinks, AddEnergy, ComputeEnergy, AddPart, Advance, Keep, FilledIn
    <2>2. stage' \in [Entries -> Int] /\ \A p \in Entries : p[1] # "NoC" => stage'[p] = stage[p]
      <3> DEFINE q == <<"NoC", i>>
      <3>1. \A p \in Entries : p[1] # "NoC" => p # q
        OBVIOUS
      <3>2. stage' = stage \/ stage' = [stage EXCEPT ![q] = @ + 1]
        BY <2>1
      <3> HIDE DEF q
      <3> QED
        BY <1>0, <3>1, <3>2
    <2> QED
      BY <2>1, <2>2, NetworksKeep
  <1>2. CASE EndNetworks
    BY <1>0, <1>2, NextPhases, NetworksKeep DEF EndNetworks, Keep, FilledIn
  <1> QED
    BY <1>1, <1>2

LEMMA DisplayKeeps == ASSUME IInv, DisplayEnergy PROVE IInv'
  <1>0. /\ pc = "display" /\ pc' = "delete" /\ UNCHANGED <<input, xml, section, i, FilledIn>>
        /\ stage' = [p \in Entries |-> IF p \in Parts THEN stage[p] + 1 ELSE stage[p]]
        /\ stage \in [Entries -> Int] /\ Parts' = Parts
    BY Unmoved DEF DisplayEnergy, Keep, FilledIn, IInv, Types
  <1>1. \A p \in Entries : p[1] # "NoC" => stage'[p] = IF p \in Parts THEN 5 ELSE 1
    BY <1>0 DEF IInv, Built
  <1>2. Types'
    BY <1>0 DEF IInv, Types, PhaseSet, Reading
  <1>3. Read'
    BY <1>0, StaysRead DEF PhaseSet
  <1>4. Built'
    BY <1>0, <1>1 DEF Built, Reading
  <1>5. ReadsFilledEntries'
    <2>1. Filled(stage', xml')
      BY <1>0, <1>1, FilledBy DEF IInv, PhaseSet
    <2> QED
      BY <1>0, <2>1 DEF Filled, ReadsFilledEntries, ReadsOf
  <1> QED
    BY <1>2, <1>3, <1>4, <1>5 DEF IInv

LEMMA DeletesKeep == ASSUME IInv, DeleteXML \/ DeleteParts PROVE IInv'
  <1>0. /\ pc = "delete" /\ pc' \in {"delete", "ended"} /\ UNCHANGED <<input, i, FilledIn>>
        /\ section' \in 1 .. Len(Deleting) /\ xml' \in BOOLEAN
        /\ stage \in [Entries -> Int] /\ stage' \in [Entries -> Int] /\ Parts' = Parts
        /\ \A p \in Entries : stage'[p] = stage[p] \/ (p \in Parts /\ stage'[p] = stage[p] + 1)
    <2>1. /\ section \in 1 .. Len(Deleting) /\ Len(Deleting) = 10 /\ xml \in BOOLEAN
          /\ stage \in [Entries -> Int]
      BY Sections DEF IInv, Types
    <2>2. CASE DeleteXML
      BY <2>1, <2>2, Unmoved DEF DeleteXML, FilledIn
    <2>3. CASE DeleteParts
      <3>1. /\ pc = "delete" /\ UNCHANGED <<input, xml, i, FilledIn>>
            /\ \/ section < Len(Deleting) /\ section' = section + 1 /\ pc' = pc
               \/ section' = 1 /\ pc' = "ended"
            /\ stage' = [p \in Entries |-> IF p \in Parts /\ p[1] = Deleting[section]
                                          THEN stage[p] + 1 ELSE stage[p]]
        BY <2>3, Zenon DEF DeleteParts, Keep, FilledIn, Exit
      <3> QED
        BY <2>1, <3>1, Unmoved
    <2> QED
      BY <2>2, <2>3
  <1>1. \A p \in Entries : p[1] # "NoC" => IF p \in Parts THEN stage'[p] > 4 ELSE stage'[p] = 1
    BY <1>0 DEF IInv, Built
  <1>2. Types'
    BY <1>0 DEF IInv, Types, PhaseSet, Reading
  <1>3. Read'
    BY <1>0, StaysRead DEF PhaseSet
  <1>4. Built'
    BY <1>0, <1>1 DEF Built, Reading
  <1>5. ReadsFilledEntries'
    <2>1. \A p \in Entries : stage'[p] > 1 /\ p[1] # "NoC" => p \in Parts /\ (stage'[p] < 5 => xml')
      BY <1>0, <1>1
    <2>2. Filled(stage', xml')
      BY <1>0, <2>1, FilledBy DEF IInv
    <2> QED
      BY <1>0, <2>2 DEF Filled, ReadsFilledEntries, ReadsOf
  <1> QED
    BY <1>2, <1>3, <1>4, <1>5 DEF IInv

-----------------------------------------------------------------------------
LEMMA StepInv == IInv /\ [Next]_vars => IInv'
  <1> SUFFICES ASSUME IInv, [Next]_vars PROVE IInv'
    OBVIOUS
  <1>1. CASE UNCHANGED vars
    <2>0. UNCHANGED <<input, pc, section, i, stage, xml, FilledIn>>
      BY <1>1 DEF vars, FilledIn
    <2>1. Types'
      BY <2>0 DEF IInv, Types
    <2>2. Read'
      BY <2>0, Unmoved DEF IInv, Read, ArraysRead, SinglesRead, SectionRead
    <2>3. Built'
      BY <2>0, Unmoved DEF IInv, Built, Finished, AtWork
    <2>4. ReadsFilledEntries'
      BY <2>0 DEF IInv, ReadsFilledEntries, ReadsOf
    <2> QED
      BY <2>1, <2>2, <2>3, <2>4 DEF IInv
  <1>2. CASE Next
    BY <1>1, <1>2, NumbersKeep, EntryKeeps, SectionKeeps, SingleKeeps, PrivateKeeps, BuildKeeps,
       KindKeeps, NetworkStepsKeep, DisplayKeeps, DeletesKeep DEF Next, Ended
  <1> QED
    BY <1>1, <1>2

(* ReadsFilledEntries, for every file and any number of entries: each core, *)
(* cache and controller under construction or at work reads only entries    *)
(* that a component of its kind has filled in, a core with a private L2     *)
(* also that L2's, and no later than the XML data are deleted - though the  *)
(* sections are counted by number and homogeneity, the parts by the same    *)
(* numbers in another order, and an end of the program may come between.    *)
(* The exception is the L2 entries for which the L2's section took the      *)
(* component of an L2 directory.                                            *)
THEOREM EntriesAreFilled == Spec => []ReadsFilledEntries
  <1>1. Init => IInv
    BY InitInv
  <1>2. IInv /\ [Next]_vars => IInv'
    BY StepInv
  <1>3. IInv => ReadsFilledEntries
    BY DEF IInv
  <1> QED
    BY <1>1, <1>2, <1>3, PTL DEF Spec
-----------------------------------------------------------------------------
(* What has been added to the totals.                                       *)
Scales == {"one", "clock rate", "1 / execution time"}
Items  == (Kinds \cup {"links"}) \X Nat
Terms  == [kind : Kinds, item : Items, copies : Nat, scale : Scales]
KindOf(item) == IF item[1] = "links" THEN "NoC" ELSE item[1]

(* A total of exactly the given parts and links, each once, as many copies *)
(* of each as the file says, scaled as t is.                               *)
TermOf(t, item, x) ==
    x.item = item /\ x.kind = KindOf(item) /\ x.copies = Copies(x.kind) /\ SameScale(t, x)
SumOf(t, items, total) ==
    /\ total \in Seq(Terms)
    /\ Distinct(total)
    /\ \A n \in DOMAIN total : TermOf(t, total[n].item, total[n]) /\ total[n].item \in items
    /\ \A item \in items : \E n \in DOMAIN total : total[n].item = item

LEMMA NothingAdded ==
    ASSUME NEW t, NEW total
    PROVE  SumOf(t, {}, total) <=> total = <<>>
  <1>1. SumOf(t, {}, <<>>)
    BY DEF SumOf, Distinct
  <1>2. ASSUME SumOf(t, {}, total) PROVE total = <<>>
    <2>1. total \in Seq(Terms) /\ DOMAIN total = {}
      BY <1>2 DEF SumOf
    <2> QED
      BY <2>1
  <1> QED
    BY <1>1, <1>2

LEMMA OneAdded ==
    ASSUME NEW t, NEW items, NEW total, SumOf(t, items, total),
           NEW x \in Terms, TermOf(t, x.item, x), x.item \notin items
    PROVE  SumOf(t, items \cup {x.item}, Append(total, x))
  <1> DEFINE more == Append(total, x)
  <1>1. total \in Seq(Terms) /\ Distinct(total)
    BY DEF SumOf
  <1>2. /\ more \in Seq(Terms) /\ DOMAIN more = 1 .. Len(total) + 1 /\ DOMAIN total = 1 .. Len(total)
        /\ Len(total) \in Nat
        /\ \A n \in 1 .. Len(total) : more[n] = total[n]
        /\ more[Len(total) + 1] = x
    BY <1>1, AppendProperties
  <1> HIDE DEF more
  <1>3. \A n \in DOMAIN more : n \in DOMAIN total \/ n = Len(total) + 1
    BY <1>2
  <1>4. \A n \in DOMAIN total : n \in DOMAIN more /\ n # Len(total) + 1
    BY <1>2
  <1>5. Distinct(more)
    <2> SUFFICES ASSUME NEW m \in DOMAIN more, NEW n \in DOMAIN more, more[m].item = more[n].item
                 PROVE  m = n
      BY DEF Distinct
    <2>1. CASE m \in DOMAIN total /\ n \in DOMAIN total
      BY <1>1, <1>2, <2>1 DEF Distinct
    <2>2. CASE m = Len(total) + 1 \/ n = Len(total) + 1
      <3>1. \A l \in DOMAIN total : more[l].item # x.item
        BY <1>2 DEF SumOf
      <3> QED
        BY <1>2, <1>3, <2>2, <3>1
    <2> QED
      BY <1>3, <2>1, <2>2
  <1>6. \A n \in DOMAIN more : TermOf(t, more[n].item, more[n]) /\ more[n].item \in items \cup {x.item}
    BY <1>2, <1>3 DEF SumOf
  <1>7. \A item \in items \cup {x.item} : \E n \in DOMAIN more : more[n].item = item
    <2>1. Len(total) + 1 \in DOMAIN more
      BY <1>2
    <2>2. \A item \in items : \E n \in DOMAIN total : total[n].item = item
      BY DEF SumOf
    <2> QED
      BY <1>2, <1>4, <2>1, <2>2
  <1>8. SumOf(t, items \cup {x.item}, more)
    BY <1>2, <1>5, <1>6, <1>7 DEF SumOf
  <1> QED
    BY <1>8 DEF more

(* As many copies of a kind as there are in its parts. *)
LEMMA CopiesCounted ==
    ASSUME NEW t, NEW items, NEW total, SumOf(t, items, total),
           NEW kind \in Kinds, NEW m \in Nat, Copies(kind) \in Nat,
           \A item : item \in items /\ item[1] = kind <=> \E j \in 0 .. m - 1 : item = <<kind, j>>
    PROVE  NumCopies(total, kind) = m * Copies(kind)
  <1> DEFINE N == {n \in DOMAIN total : total[n].kind = kind /\ total[n].item[1] = kind}
             f == [n \in N |-> total[n].item[2]]
  <1>0. kind # "links"
    BY KindNames DEF Kinds
  <1>1. \A n \in DOMAIN total : total[n].item[1] = kind => n \in N
    BY <1>0 DEF SumOf, TermOf, KindOf
  <1>2. \A n \in N : \E j \in 0 .. m - 1 : total[n].item = <<kind, j>>
    BY DEF SumOf
  <1>3. f \in Bijection(N, 0 .. m - 1)
    <2>1. f \in [N -> 0 .. m - 1]
      BY <1>2
    <2>2. \A a, b \in N : f[a] = f[b] => a = b
      <3> SUFFICES ASSUME NEW a \in N, NEW b \in N, f[a] = f[b] PROVE a = b
        OBVIOUS
      <3>1. total[a].item = <<kind, f[a]>> /\ total[b].item = <<kind, f[b]>>
        BY <1>2
      <3>2. a \in DOMAIN total /\ b \in DOMAIN total
        OBVIOUS
      <3> HIDE DEF f, N
      <3>3. total[a].item = total[b].item
        BY <3>1
      <3> QED
        BY <3>2, <3>3, Zenon DEF SumOf, Distinct
    <2>3. \A j \in 0 .. m - 1 : \E n \in N : f[n] = j
      <3> SUFFICES ASSUME NEW j \in 0 .. m - 1 PROVE \E n \in N : f[n] = j
        OBVIOUS
      <3>1. PICK n \in DOMAIN total : total[n].item = <<kind, j>>
        BY DEF SumOf
      <3> QED
        BY <1>1, <3>1
    <2> HIDE DEF f, N
    <2> QED
      BY <2>1, <2>2, <2>3, Zenon DEF Bijection, Injection, Surjection, IsInjective
  <1>4. IsFiniteSet(N) /\ Cardinality(N) = m
    <2>1. IsFiniteSet(0 .. m - 1) /\ Cardinality(0 .. m - 1) = m
      <3>1. 0 \in Int /\ m - 1 \in Int
        OBVIOUS
      <3>2. /\ IsFiniteSet(0 .. m - 1)
            /\ Cardinality(0 .. m - 1) = IF 0 > m - 1 THEN 0 ELSE m - 1 - 0 + 1
        BY ONLY <3>1, FS_Interval
      <3> QED
        BY <3>2
    <2>2. ExistsBijection(N, 0 .. m - 1)
      BY <1>3 DEF ExistsBijection
    <2> HIDE DEF N
    <2> QED
      BY <2>1, <2>2, FS_Bijection, FS_Injection, <1>3 DEF Bijection
  <1>5. CopiesOf(total, kind) = N \X (1 .. Copies(kind))
    <2>1. \A n \in N : total[n].copies = Copies(kind)
      BY DEF SumOf, TermOf
    <2> QED
      BY <2>1 DEF CopiesOf
  <1>6. IsFiniteSet(1 .. Copies(kind)) /\ Cardinality(1 .. Copies(kind)) = Copies(kind)
    BY FS_Interval
  <1> HIDE DEF N
  <1> QED
    BY <1>4, <1>5, <1>6, FS_Product DEF NumCopies

(* How far the loops over the parts have come. *)
BuiltSoFar(k) ==
    IF pc \in Reading THEN 0
    ELSE IF pc # "build" \/ (\E n \in 1 .. section - 1 : Building[n] = k) THEN NumBuilt(k)
    ELSE IF Building[section] = k THEN i ELSE 0
SoFar(during, before) == IF pc \in before THEN 0 ELSE IF pc = during THEN i ELSE NumParts("NoC")
RoutersSoFar  == SoFar("routers", Reading \cup {"build"})
LinksSoFar    == SoFar("links", Reading \cup {"build", "routers"})
EnergiesSoFar == SoFar("energy", Reading \cup {"build", "routers", "links"})

(* What has been added to a kind's total, and to the chip's. *)
LinksAdded == {Links(n) : n \in {m \in 0 .. LinksSoFar - 1 : HasLinks(m)}}
Added(k, t) ==
    IF k # "NoC" THEN {k} \X (0 .. BuiltSoFar(k) - 1)
    ELSE IF t = "area" THEN ({k} \X (0 .. RoutersSoFar - 1)) \cup LinksAdded
    ELSE {k} \X (0 .. EnergiesSoFar - 1)
AllAdded(t) == UNION {Added(k, t) : k \in Kinds}

TotalsInv ==
    /\ kind_total \in [Kinds -> [Totals -> Seq(Terms)]] /\ chip_total \in [Totals -> Seq(Terms)]
    /\ pc # "ended" =>
         /\ \A t \in Totals :
              /\ SumOf(t, AllAdded(t), chip_total[t])
              /\ \A k \in Kinds : SumOf(t, Added(k, t), kind_total[k][t])
         /\ LinksLast(chip_total["area"])

(* The same formula of the next state, where the input stays. *)
LEMMA TotalsNext ==
    ASSUME UNCHANGED input,
           kind_total' \in [Kinds -> [Totals -> Seq(Terms)]], chip_total' \in [Totals -> Seq(Terms)],
           pc' # "ended" =>
             /\ \A t \in Totals :
                  /\ SumOf(t, AllAdded(t)', chip_total'[t])
                  /\ \A k \in Kinds : SumOf(t, Added(k, t)', kind_total'[k][t])
             /\ LinksLast(chip_total'["area"])
    PROVE  TotalsInv'
  <1> SUFFICES ASSUME pc' # "ended"
               PROVE  /\ \A t \in Totals :
                           /\ SumOf(t, AllAdded(t), chip_total[t])'
                           /\ \A k \in Kinds : SumOf(t, Added(k, t), kind_total[k][t])'
                      /\ LinksLast(chip_total["area"])'
    BY DEF TotalsInv
  <1>1. ASSUME NEW t \in Totals PROVE SumOf(t, AllAdded(t), chip_total[t])'
    <2>1. SumOf(t, AllAdded(t)', chip_total'[t])
      OBVIOUS
    <2> QED
      BY <2>1 DEF SumOf, TermOf, SameScale, Copies, Distinct
  <1>2. ASSUME NEW t \in Totals, NEW k \in Kinds PROVE SumOf(t, Added(k, t), kind_total[k][t])'
    <2>1. SumOf(t, Added(k, t)', kind_total'[k][t])
      OBVIOUS
    <2> QED
      BY <2>1 DEF SumOf, TermOf, SameScale, Copies, Distinct
  <1>3. LinksLast(chip_total["area"])'
    BY Unmoved DEF LinksLast
  <1> QED
    BY <1>1, <1>2, <1>3

(* Nothing is added. *)
LEMMA TotalsStay ==
    ASSUME TotalsInv, UNCHANGED <<input, kind_total, chip_total>>,
           pc' # "ended" => pc # "ended" /\ \A k \in Kinds, t \in Totals : Added(k, t)' = Added(k, t)
    PROVE  TotalsInv'
  <1> SUFFICES ASSUME pc' # "ended"
               PROVE  \A t \in Totals : AllAdded(t)' = AllAdded(t)
    BY TotalsNext DEF TotalsInv
  <1> QED
    BY DEF AllAdded

LEMMA TermIs ==
    ASSUME input \in Inputs, NEW k \in Kinds, NEW t \in Totals, NEW item \in Items, KindOf(item) = k
    PROVE  /\ Copies(k) \in Nat
           /\ Term(k, item, t) \in Terms /\ TermOf(t, item, Term(k, item, t))
           /\ Term(k, item, t).item = item
  <1>1. Copies(k) \in Nat
    <2>1. input \in Input /\ MAX_NUM_CORES \in Nat
      BY InputsAssumption
    <2>2. input.number \in [Kinds -> 0 .. MAX_NUM_CORES + 1]
      BY <2>1 DEF Input
    <2>3. input.number[k] \in Nat
      BY <2>1, <2>2
    <2> QED
      BY <2>3 DEF Copies
  <1>2. Scale(k, t) \in Scales
    BY DEF Scale, Scales
  <1> QED
    BY <1>1, <1>2 DEF Term, Terms, TermOf, SameScale

(* A part is added to some totals of its kind and of the chip. *)
LEMMA PartIsAdded ==
    ASSUME TotalsInv, UNCHANGED input, input \in Inputs, pc # "ended", pc' # "ended",
           NEW k \in Kinds, NEW j \in Nat, NEW T \in SUBSET Totals,
           AddTo(k, <<k, j>>, T),
           \A t \in T : /\ <<k, j>> \notin Added(k, t)
                        /\ Added(k, t)' = Added(k, t) \cup {<<k, j>>}
                        /\ Whole(k) => Added(k, t) = {},
           \A l \in Kinds, t \in Totals : l # k \/ t \notin T => Added(l, t)' = Added(l, t),
           "area" \in T => LinksAdded = {}
    PROVE  TotalsInv'
  <1> DEFINE p == <<k, j>>
             x(t) == Term(k, p, t)
  <1>0. p \in Items /\ KindOf(p) = k
    BY KindNames DEF Items, KindOf, Kinds
  <1>1. ASSUME NEW t \in Totals
        PROVE  x(t) \in Terms /\ TermOf(t, p, x(t)) /\ x(t).item = p
    BY <1>0, <1>1, TermIs
  <1>2. ASSUME NEW t \in T
        PROVE  /\ SumOf(t, Added(k, t)', Append(kind_total[k][t], x(t)))
               /\ Append(kind_total[k][t], x(t)) \in Seq(Terms)
    <2>1. SumOf(t, Added(k, t), kind_total[k][t]) /\ p \notin Added(k, t) /\ t \in Totals
      BY DEF TotalsInv
    <2>2. SumOf(t, Added(k, t) \cup {p}, Append(kind_total[k][t], x(t)))
      BY <1>1, <2>1, OneAdded
    <2> QED
      BY <2>2 DEF SumOf
  <1>3. ASSUME NEW t \in T
        PROVE  \E y \in Terms :
                 /\ TermOf(t, p, y) /\ y.item = p
                 /\ chip_total[t] \o ToChip(k, x(t), Append(kind_total[k][t], x(t))) = Append(chip_total[t], y)
    <2>0. chip_total[t] \in Seq(Terms) /\ kind_total[k][t] \in Seq(Terms) /\ t \in Totals
      BY DEF TotalsInv
    <2>1. CASE Whole(k)
      <3>1. SumOf(t, {}, kind_total[k][t])
        BY <2>0, <2>1 DEF TotalsInv
      <3>2. kind_total[k][t] = <<>>
        BY <3>1, NothingAdded
      <3>3. Append(kind_total[k][t], x(t)) = <<x(t)>>
        BY <3>2
      <3>4. ToChip(k, x(t), Append(kind_total[k][t], x(t))) = <<x(t)>>
        BY <2>1, <3>3 DEF ToChip
      <3> QED
        BY <1>1, <2>0, <3>4, AppendIsConcat
    <2>2. CASE ~ Whole(k)
      <3> DEFINE y == ChipTerm(x(t))
      <3>1. y \in Terms /\ TermOf(t, p, y) /\ y.item = p
        <4>1. x(t) \in Terms /\ TermOf(t, p, x(t)) /\ x(t).item = p
          BY <1>1, <2>0
        <4>2. x(t).kind = k
          BY DEF Term
        <4>3. CASE k = "L1Directory"
          <5>1. y = [x(t) EXCEPT !.scale = "one"] /\ ~ input.homo[k]
            BY <2>2, <4>2, <4>3 DEF ChipTerm, Whole
          <5> HIDE DEF x, y, p
          <5>2. y \in Terms /\ y.item = p /\ y.kind = x(t).kind /\ y.copies = x(t).copies
            BY <4>1, <5>1 DEF Terms, Scales
          <5> QED
            BY <4>1, <4>2, <4>3, <5>1, <5>2 DEF TermOf, SameScale
        <4>4. CASE k # "L1Directory"
          BY <4>1, <4>2, <4>4 DEF ChipTerm
        <4> QED
          BY <4>3, <4>4
      <3>2. ToChip(k, x(t), Append(kind_total[k][t], x(t))) = <<y>>
        BY <2>2 DEF ToChip
      <3> HIDE DEF y
      <3> QED
        BY <2>0, <3>1, <3>2, AppendIsConcat
    <2> QED
      BY <2>1, <2>2
  <1>4. ASSUME NEW t \in T
        PROVE  /\ AllAdded(t)' = AllAdded(t) \cup {p}
               /\ p \notin AllAdded(t)
    <2>1. AllAdded(t)' = AllAdded(t) \cup {p}
      BY DEF AllAdded
    <2>2. ASSUME NEW l \in Kinds, p \in Added(l, t) PROVE FALSE
      <3>1. l = k
        BY <2>2, KindNames DEF Added, LinksAdded, Links, Kinds
      <3> QED
        BY <2>2, <3>1
    <2> QED
      BY <2>1, <2>2 DEF AllAdded
  <1>5. ASSUME NEW t \in Totals, t \notin T PROVE AllAdded(t)' = AllAdded(t)
    BY <1>5 DEF AllAdded
  <1>6. /\ kind_total' = [kind_total EXCEPT ![k] =
                [t \in Totals |-> IF t \in T THEN Append(kind_total[k][t], x(t)) ELSE @[t]]]
        /\ chip_total' = [t \in Totals |-> IF t \in T
                THEN chip_total[t] \o ToChip(k, x(t), Append(kind_total[k][t], x(t))) ELSE chip_total[t]]
    BY Zenon DEF AddTo
  <1> HIDE DEF x, p
  <1>7. ASSUME NEW t \in T
        PROVE  \E y \in Terms :
                 /\ TermOf(t, p, y) /\ y.item = p
                 /\ chip_total'[t] = Append(chip_total[t], y)
    BY <1>3, <1>6
  <1>8. \A l \in Kinds, t \in Totals :
            kind_total'[l][t] = IF l = k /\ t \in T THEN Append(kind_total[k][t], x(t)) ELSE kind_total[l][t]
    BY <1>6 DEF TotalsInv
  <1>9. kind_total' \in [Kinds -> [Totals -> Seq(Terms)]]
    <2> DEFINE new == [t \in Totals |-> IF t \in T THEN Append(kind_total[k][t], x(t)) ELSE kind_total[k][t]]
    <2>1. new \in [Totals -> Seq(Terms)]
      BY <1>2 DEF TotalsInv
    <2>2. kind_total' = [kind_total EXCEPT ![k] = new]
      BY <1>6 DEF TotalsInv
    <2> HIDE DEF new
    <2> QED
      BY <2>1, <2>2 DEF TotalsInv
  <1>10. ASSUME NEW t \in Totals
         PROVE  SumOf(t, AllAdded(t)', chip_total'[t]) /\ chip_total'[t] \in Seq(Terms)
    <2>1. SumOf(t, AllAdded(t), chip_total[t])
      BY DEF TotalsInv
    <2>2. CASE t \in T
      <3>1. PICK y \in Terms : TermOf(t, p, y) /\ y.item = p /\ chip_total'[t] = Append(chip_total[t], y)
        BY <1>7, <2>2
      <3>2. SumOf(t, AllAdded(t) \cup {p}, Append(chip_total[t], y))
        BY <1>4, <2>1, <2>2, <3>1, OneAdded
      <3>3. SumOf(t, AllAdded(t)', chip_total'[t])
        BY <1>4, <2>2, <3>1, <3>2
      <3> QED
        BY <3>3 DEF SumOf
    <2>3. CASE t \notin T
      <3>1. chip_total'[t] = chip_total[t]
        BY <1>6, <2>3
      <3> QED
        BY <1>5, <2>1, <2>3, <3>1 DEF SumOf
    <2> QED
      BY <2>2, <2>3
  <1>11. chip_total' \in [Totals -> Seq(Terms)]
    BY <1>6, <1>10
  <1>12. ASSUME NEW t \in Totals, NEW l \in Kinds PROVE SumOf(t, Added(l, t)', kind_total'[l][t])
    <2>1. SumOf(t, Added(l, t), kind_total[l][t])
      BY DEF TotalsInv
    <2>2. CASE l = k /\ t \in T
      BY <1>2, <1>8, <2>2
    <2>3. CASE l # k \/ t \notin T
      BY <1>8, <2>1, <2>3
    <2> QED
      BY <2>2, <2>3
  <1>13. LinksLast(chip_total'["area"])
    <2>1. CASE "area" \in T
      <3>1. SumOf("area", AllAdded("area")', chip_total'["area"])
        BY <1>10, <2>1
      <3>2. \A item \in AllAdded("area")' : item[1] # "links"
        BY <1>4, <2>1, KindNames DEF AllAdded, Added, p, Kinds
      <3>3. \A n \in DOMAIN chip_total'["area"] : chip_total'["area"][n].item \notin AllLinks
        BY <3>1, <3>2 DEF SumOf, AllLinks, Links
      <3> QED
        BY <3>3 DEF LinksLast
    <2>2. CASE "area" \notin T
      <3>1. chip_total'["area"] = chip_total["area"]
        BY <1>6, <2>2 DEF Totals
      <3> QED
        BY <3>1 DEF TotalsInv
    <2> QED
      BY <2>1, <2>2
  <1> QED
    BY <1>9, <1>10, <1>11, <1>12, <1>13, TotalsNext

LEMMA AddLinksTotals ==
    ASSUME TotalsInv, IInv, AddLinks
    PROVE  TotalsInv'
  <1>0. /\ pc = "links" /\ i' = i + 1 /\ UNCHANGED <<input, pc, section>> /\ i \in Nat /\ input \in Inputs
        /\ i < NumParts("NoC")
    BY DEF AddLinks, Keep, IInv, Types
  <1>1. \A k \in Kinds, t \in Totals : k # "NoC" \/ t # "area" => Added(k, t)' = Added(k, t)
    BY <1>0, Unmoved DEF Added, BuiltSoFar, EnergiesSoFar, SoFar, Reading
  <1>2. /\ Added("NoC", "area") = ({"NoC"} \X (0 .. NumParts("NoC") - 1))
                                     \cup {Links(n) : n \in {m \in 0 .. i - 1 : HasLinks(m)}}
        /\ Added("NoC", "area")' = ({"NoC"} \X (0 .. NumParts("NoC") - 1))
                                     \cup {Links(n) : n \in {m \in 0 .. i : HasLinks(m)}}
    <2>1. /\ RoutersSoFar = NumParts("NoC") /\ LinksSoFar = i
          /\ RoutersSoFar' = NumParts("NoC") /\ LinksSoFar' = i + 1
      BY <1>0, Unmoved DEF RoutersSoFar, LinksSoFar, SoFar, Reading
    <2>2. \A n : HasLinks(n)' <=> HasLinks(n)
      BY <1>0 DEF HasLinks
    <2>3. (0 .. i + 1 - 1) = 0 .. i
      BY <1>0
    <2> QED
      BY <1>0, <2>1, <2>2, <2>3 DEF Added, LinksAdded, Links
  <1>3. CASE HasLinks(i)
    <2> DEFINE p == Links(i)
               x == Term("NoC", p, "area")
    <2>1. /\ kind_total' = [kind_total EXCEPT !["NoC"].area = Append(@, x)]
          /\ chip_total' = [chip_total EXCEPT !.area = Append(@, x)]
      BY <1>3, Zenon DEF AddLinks
    <2>2. x \in Terms /\ TermOf("area", p, x) /\ x.item = p
      <3>1. p \in Items /\ KindOf(p) = "NoC" /\ "NoC" \in Kinds /\ "area" \in Totals
        BY <1>0, KindNames DEF Items, KindOf, Kinds, Totals, Links
      <3> QED
        BY <1>0, <3>1, TermIs
    <2>3. Added("NoC", "area")' = Added("NoC", "area") \cup {p}
      <3>1. {m \in 0 .. i : HasLinks(m)} = {m \in 0 .. i - 1 : HasLinks(m)} \cup {i}
        BY <1>0, <1>3
      <3> QED
        BY <1>2, <3>1
    <2>4. p \notin Added("NoC", "area")
      BY <1>0, <1>2 DEF Links
    <2>5. \A l \in Kinds : l # "NoC" => p \notin Added(l, "area")
      BY KindNames DEF Added, Links, Kinds
    <2>6. "NoC" \in Kinds /\ "area" \in Totals
      BY KindNames DEF Kinds, Totals
    <2> HIDE DEF p, x
    <2>7. /\ AllAdded("area")' = AllAdded("area") \cup {p} /\ p \notin AllAdded("area")
          /\ \A t \in Totals : t # "area" => AllAdded(t)' = AllAdded(t)
      <3>1. AllAdded("area")' = AllAdded("area") \cup {p}
        BY <1>1, <2>3, <2>6 DEF AllAdded
      <3>2. p \notin AllAdded("area")
        BY <2>4, <2>5 DEF AllAdded
      <3>3. \A t \in Totals : t # "area" => AllAdded(t)' = AllAdded(t)
        BY <1>1 DEF AllAdded
      <3> QED
        BY <3>1, <3>2, <3>3
    <2>8. /\ SumOf("area", Added("NoC", "area")', Append(kind_total["NoC"]["area"], x))
          /\ SumOf("area", AllAdded("area")', Append(chip_total["area"], x))
      <3>1. SumOf("area", Added("NoC", "area"), kind_total["NoC"]["area"]) /\ SumOf("area", AllAdded("area"), chip_total["area"])
        BY <1>0, <2>6 DEF TotalsInv
      <3> QED
        BY <2>2, <2>3, <2>4, <2>7, <3>1, OneAdded
    <2>9. /\ chip_total' \in [Totals -> Seq(Terms)]
          /\ \A t \in Totals : chip_total'[t] = IF t = "area" THEN Append(chip_total["area"], x) ELSE chip_total[t]
      <3> DEFINE new == Append(chip_total["area"], x)
      <3>1. chip_total \in [Totals -> Seq(Terms)] /\ new \in Seq(Terms)
        BY <2>2, <2>6 DEF TotalsInv
      <3>2. chip_total' = [chip_total EXCEPT !["area"] = new]
        BY <2>1
      <3> HIDE DEF new
      <3>3. /\ chip_total' \in [Totals -> Seq(Terms)]
            /\ \A t \in Totals : chip_total'[t] = IF t = "area" THEN new ELSE chip_total[t]
        BY <2>6, <3>1, <3>2
      <3> QED
        BY <3>3 DEF new
    <2>10. /\ kind_total' \in [Kinds -> [Totals -> Seq(Terms)]]
           /\ \A l \in Kinds, t \in Totals :
                kind_total'[l][t] = IF l = "NoC" /\ t = "area" THEN Append(kind_total["NoC"]["area"], x)
                                    ELSE kind_total[l][t]
      <3> DEFINE new == [kind_total["NoC"] EXCEPT !.area = Append(@, x)]
      <3>1. kind_total["NoC"] \in [Totals -> Seq(Terms)]
        BY <2>6 DEF TotalsInv
      <3>2. /\ new \in [Totals -> Seq(Terms)]
            /\ \A t \in Totals : new[t] = IF t = "area" THEN Append(kind_total["NoC"]["area"], x) ELSE kind_total["NoC"][t]
        <4> DEFINE more == Append(kind_total["NoC"]["area"], x)
                   old  == kind_total["NoC"]
        <4>0. kind_total["NoC"]["area"] \in Seq(Terms)
          BY <2>6, <3>1
        <4>1. more \in Seq(Terms)
          BY <2>2, <4>0, AppendProperties
        <4>3. old \in [Totals -> Seq(Terms)]
          BY <3>1
        <4>4. new = [old EXCEPT !["area"] = more]
          OBVIOUS
        <4> HIDE DEF more, old, new
        <4>2. /\ new \in [Totals -> Seq(Terms)]
              /\ \A t \in Totals : new[t] = IF t = "area" THEN more ELSE old[t]
          BY <2>6, <4>1, <4>3, <4>4
        <4> QED
          BY <4>2 DEF more, old
      <3>3. kind_total' = [kind_total EXCEPT !["NoC"] = new]
        BY <2>1
      <3> HIDE DEF new
      <3> QED
        BY <2>6, <3>2, <3>3 DEF TotalsInv
    <2>11. ASSUME NEW t \in Totals
           PROVE  /\ SumOf(t, AllAdded(t)', chip_total'[t])
                  /\ \A k \in Kinds : SumOf(t, Added(k, t)', kind_total'[k][t])
      BY <1>0, <1>1, <2>7, <2>8, <2>9, <2>10 DEF TotalsInv
    <2>12. LinksLast(chip_total'["area"])
      <3> DEFINE total == chip_total["area"]
                 more  == chip_total'["area"]
      <3>1. more = Append(total, x) /\ total \in Seq(Terms)
        BY <2>6, <2>9 DEF TotalsInv
      <3>2. LinksLast(total)
        BY <1>0 DEF TotalsInv
      <3> HIDE DEF total, more
      <3>3. /\ DOMAIN more = 1 .. Len(total) + 1 /\ DOMAIN total = 1 .. Len(total) /\ Len(total) \in Nat
            /\ \A n \in 1 .. Len(total) : more[n] = total[n]
            /\ more[Len(total) + 1] = x
        BY <2>2, <3>1, AppendProperties
      <3>4. x.item \notin Parts
        BY <2>2, KindNames DEF Parts, p, Links, Kinds
      <3>5. LinksLast(more)
        <4> SUFFICES ASSUME NEW m \in DOMAIN more, NEW n \in DOMAIN more,
                            more[m].item \in AllLinks, more[n].item \in Parts
                     PROVE  n < m
          BY DEF LinksLast
        <4>1. n \in DOMAIN total
          BY <3>3, <3>4
        <4>2. CASE m \in DOMAIN total
          BY <3>2, <3>3, <4>1, <4>2 DEF LinksLast
        <4>3. CASE m = Len(total) + 1
          BY <3>3, <4>1, <4>3
        <4> QED
          BY <3>3, <4>2, <4>3
      <3> QED
        BY <3>5 DEF more
    <2> QED
      BY <1>0, <2>9, <2>10, <2>11, <2>12, TotalsNext
  <1>4. CASE ~ HasLinks(i)
    <2>1. UNCHANGED <<kind_total, chip_total>>
      BY <1>4 DEF AddLinks
    <2>2. {m \in 0 .. i : HasLinks(m)} = {m \in 0 .. i - 1 : HasLinks(m)}
      BY <1>0, <1>4
    <2>3. Added("NoC", "area")' = Added("NoC", "area")
      BY <1>2, <2>2
    <2> QED
      BY <1>0, <1>1, <2>1, <2>3, TotalsStay
  <1> QED
    BY <1>3, <1>4

(* No kind that goes to the chip as a whole has more than one part. *)
LEMMA OnePartAtMost ==
    ASSUME input \in Inputs, NEW k \in Kinds, Whole(k)
    PROVE  NumParts(k) \in {0, 1} /\ NumBuilt(k) \in {0, 1}
  <1>1. NumParts(k) \in {0, 1}
    <2>1. CASE k \in ArrayKinds
      BY <2>1 DEF NumParts, Whole
    <2>2. CASE k \notin ArrayKinds
      BY <2>2 DEF NumParts
    <2> QED
      BY <2>1, <2>2
  <1> QED
    BY <1>1 DEF NumBuilt

LEMMA BuildTotals ==
    ASSUME TotalsInv, IInv, BuildPart
    PROVE  TotalsInv'
  <1> PICK k : k = Building[section]
    OBVIOUS
  <1>0. /\ pc = "build" /\ UNCHANGED <<input, section>> /\ section \in DOMAIN Building /\ i \in Nat
        /\ i < NumBuilt(k) /\ input \in Inputs /\ k \in Kinds \ {"NoC"}
    BY BuildingKinds DEF BuildPart, Keep, IInv, Types
  <1>1. \/ pc' = "ended" /\ UNCHANGED <<kind_total, chip_total>>
        \/ UNCHANGED <<pc, i, kind_total, chip_total>>
        \/ pc' = pc /\ i' = i + 1 /\ AddTo(k, <<k, i>>, Totals)
    BY <1>0 DEF BuildPart, Construct, ComputeEnergy, AddPart, Exit
  <1>2. CASE pc' = "ended" /\ UNCHANGED <<kind_total, chip_total>>
    BY <1>0, <1>2, TotalsStay
  <1>3. CASE UNCHANGED <<pc, i, kind_total, chip_total>>
    <2>1. \A l \in Kinds, t \in Totals : Added(l, t)' = Added(l, t)
      BY <1>0, <1>3, Unmoved DEF Added, BuiltSoFar, RoutersSoFar, LinksAdded, HasLinks, LinksSoFar, EnergiesSoFar, SoFar
    <2> QED
      BY <1>0, <1>3, <2>1, TotalsStay
  <1>4. CASE pc' = pc /\ i' = i + 1 /\ AddTo(k, <<k, i>>, Totals)
    <2>1. \A n \in 1 .. section - 1 : Building[n] # k
      BY <1>0, BuildingKinds, Sections
    <2>2. /\ BuiltSoFar(k) = i /\ BuiltSoFar(k)' = i + 1
      BY <1>0, <1>4, <2>1 DEF BuiltSoFar, Reading
    <2>3. \A l \in Kinds : l # k => BuiltSoFar(l)' = BuiltSoFar(l)
      BY <1>0, <1>4, Unmoved DEF BuiltSoFar
    <2>4. \A l \in Kinds, t \in Totals : l # k => Added(l, t)' = Added(l, t)
      <3>1. /\ RoutersSoFar = 0 /\ LinksSoFar = 0 /\ EnergiesSoFar = 0
            /\ RoutersSoFar' = 0 /\ LinksSoFar' = 0 /\ EnergiesSoFar' = 0
        BY <1>0, <1>4 DEF RoutersSoFar, LinksSoFar, EnergiesSoFar, SoFar
      <3>2. LinksAdded' = LinksAdded
        BY <1>0, <3>1 DEF LinksAdded, HasLinks
      <3> QED
        BY <2>3, <3>1, <3>2 DEF Added
    <2>5. \A t \in Totals : /\ <<k, i>> \notin Added(k, t)
                            /\ Added(k, t)' = Added(k, t) \cup {<<k, i>>}
                            /\ Whole(k) => Added(k, t) = {}
      <3>1. \A t \in Totals : Added(k, t) = {k} \X (0 .. i - 1)
        BY <1>0, <2>2 DEF Added
      <3>2. \A t \in Totals : Added(k, t)' = {k} \X (0 .. i)
        <4>1. \A t \in Totals : Added(k, t)' = {k} \X (0 .. BuiltSoFar(k)' - 1)
          BY <1>0 DEF Added
        <4> QED
          BY <1>0, <2>2, <4>1
      <3>3. Whole(k) => i = 0
        BY <1>0, OnePartAtMost
      <3> QED
        BY <1>0, <3>1, <3>2, <3>3
    <2>6. LinksAdded = {}
      BY <1>0 DEF LinksAdded, LinksSoFar, SoFar
    <2>7. UNCHANGED input /\ pc # "ended" /\ pc' # "ended" /\ k \in Kinds
      BY <1>0, <1>4
    <2>8. \A l \in Kinds, t \in Totals : l # k \/ t \notin Totals => Added(l, t)' = Added(l, t)
      BY <2>4
    <2>9. AddTo(k, <<k, i>>, Totals)
      BY <1>4
    <2>10. Totals \in SUBSET Totals /\ i \in Nat /\ input \in Inputs
      BY <1>0
    <2> QED
      BY <2>5, <2>6, <2>7, <2>8, <2>9, <2>10, PartIsAdded
  <1> QED
    BY <1>1, <1>2, <1>3, <1>4

LEMMA EndKindTotals ==
    ASSUME TotalsInv, IInv, EndKind
    PROVE  TotalsInv'
  <1>0. /\ pc = "build" /\ UNCHANGED <<input, kind_total, chip_total>>
        /\ section \in 1 .. 9 /\ i = NumBuilt(Building[section]) /\ i' = 0
        /\ input \in Inputs /\ ~ TooMany
    BY Sections DEF EndKind, Keep, IInv, Types, Read, PhaseSet
  <1>1. \/ section < 9 /\ section' = section + 1 /\ pc' = "build"
        \/ section = 9 /\ section' = 1 /\ pc' = "routers"
    <2>1. Len(Building) = 9 /\ NextPhase = "routers"
      BY <1>0, Sections, NextPhases
    <2>2. IF section < Len(Building) THEN section' = section + 1 /\ UNCHANGED pc
          ELSE section' = 1 /\ pc' = NextPhase
      BY Zenon DEF EndKind
    <2> QED
      BY <1>0, <2>1, <2>2
  <1>2. ASSUME NEW k \in Kinds, k # "NoC" PROVE BuiltSoFar(k)' = BuiltSoFar(k)
    <2>0. PICK n \in 1 .. 9 : Building[n] = k /\ \A m \in 1 .. 9 : Building[m] = k => m = n
      BY <1>2, BuildingKinds, Sections
    <2>1. NumBuilt(k)' = NumBuilt(k)
      BY <1>0, Unmoved
    <2>2. BuiltSoFar(k) = IF n <= section THEN NumBuilt(k) ELSE 0
      <3>1. (\E m \in 1 .. section - 1 : Building[m] = k) <=> n < section
        BY <1>0, <2>0
      <3>2. Building[section] = k <=> n = section
        BY <1>0, <2>0
      <3> QED
        BY <1>0, <3>1, <3>2 DEF BuiltSoFar, Reading
    <2>3. CASE pc' = "routers"
      BY <1>0, <1>1, <2>0, <2>1, <2>2, <2>3 DEF BuiltSoFar, Reading
    <2>4. CASE pc' = "build"
      <3>0. section' = section + 1 /\ section + 1 \in 1 .. 9
        BY <1>0, <1>1, <2>4
      <3>1. (\E m \in 1 .. section' - 1 : Building[m] = k) <=> n <= section
        BY <1>0, <2>0, <3>0
      <3>2. BuiltSoFar(k)' = IF n <= section THEN NumBuilt(k)' ELSE 0
        BY <1>0, <2>4, <3>1 DEF BuiltSoFar, Reading
      <3> QED
        BY <2>1, <2>2, <3>2
    <2> QED
      BY <1>1, <2>3, <2>4
  <1>3. \A k \in Kinds, t \in Totals : Added(k, t)' = Added(k, t)
    <2>1. /\ RoutersSoFar = 0 /\ LinksSoFar = 0 /\ EnergiesSoFar = 0
          /\ RoutersSoFar' = 0 /\ LinksSoFar' = 0 /\ EnergiesSoFar' = 0
      BY <1>0, <1>1 DEF RoutersSoFar, LinksSoFar, EnergiesSoFar, SoFar, Reading
    <2>2. LinksAdded' = LinksAdded
      BY <1>0, <2>1 DEF LinksAdded, HasLinks
    <2> QED
      BY <1>2, <2>1, <2>2 DEF Added
  <1> QED
    BY <1>0, <1>3, TotalsStay

LEMMA AddRouterTotals ==
    ASSUME TotalsInv, IInv, AddRouter
    PROVE  TotalsInv'
  <1>0. /\ pc = "routers" /\ UNCHANGED <<input, pc, section>> /\ i \in Nat /\ i' = i + 1
        /\ i < NumParts("NoC") /\ input \in Inputs /\ "NoC" \in Kinds
        /\ AddTo("NoC", <<"NoC", i>>, {"area"})
    BY KindNames DEF AddRouter, Keep, IInv, Types, Kinds
  <1>1. /\ RoutersSoFar = i /\ RoutersSoFar' = i + 1
        /\ LinksSoFar = 0 /\ EnergiesSoFar = 0 /\ LinksSoFar' = 0 /\ EnergiesSoFar' = 0
    BY <1>0 DEF RoutersSoFar, LinksSoFar, EnergiesSoFar, SoFar, Reading
  <1>2. LinksAdded = {} /\ LinksAdded' = {}
    BY <1>1 DEF LinksAdded
  <1>3. \A k \in Kinds, t \in Totals : k # "NoC" \/ t \notin {"area"} => Added(k, t)' = Added(k, t)
    <2>1. \A k \in Kinds : BuiltSoFar(k)' = BuiltSoFar(k)
      BY <1>0, Unmoved DEF BuiltSoFar, Reading
    <2> QED
      BY <1>1, <2>1 DEF Added
  <1>4. /\ Added("NoC", "area") = {"NoC"} \X (0 .. i - 1)
        /\ Added("NoC", "area")' = {"NoC"} \X (0 .. i)
    <2>1. RoutersSoFar' - 1 = i
      BY <1>0, <1>1
    <2>2. Added("NoC", "area")' = ({"NoC"} \X (0 .. RoutersSoFar' - 1)) \cup LinksAdded'
      BY DEF Added
    <2>3. Added("NoC", "area") = ({"NoC"} \X (0 .. RoutersSoFar - 1)) \cup LinksAdded
      BY DEF Added
    <2> QED
      BY <1>1, <1>2, <2>1, <2>2, <2>3
  <1>5. Whole("NoC") => i = 0
    BY <1>0, OnePartAtMost
  <1>6. \A t \in {"area"} : /\ <<"NoC", i>> \notin Added("NoC", t)
                            /\ Added("NoC", t)' = Added("NoC", t) \cup {<<"NoC", i>>}
                            /\ Whole("NoC") => Added("NoC", t) = {}
    BY <1>0, <1>4, <1>5
  <1> QED
    BY <1>0, <1>2, <1>3, <1>6, PartIsAdded DEF Totals

LEMMA AddEnergyTotals ==
    ASSUME TotalsInv, IInv, AddEnergy
    PROVE  TotalsInv'
  <1> DEFINE T == {"power", "rt_power"}
  <1>0. /\ pc = "energy" /\ UNCHANGED <<input, pc, section>> /\ i \in Nat
        /\ i < NumParts("NoC") /\ input \in Inputs /\ "NoC" \in Kinds
    BY KindNames DEF AddEnergy, ComputeEnergy, AddPart, Keep, IInv, Types, Kinds
  <1>1. \/ UNCHANGED <<i, kind_total, chip_total>>
        \/ i' = i + 1 /\ AddTo("NoC", <<"NoC", i>>, T)
    BY <1>0 DEF AddEnergy, ComputeEnergy, AddPart
  <1>2. /\ \A k \in Kinds : BuiltSoFar(k)' = BuiltSoFar(k)
        /\ RoutersSoFar' = RoutersSoFar /\ LinksSoFar' = LinksSoFar /\ LinksAdded' = LinksAdded
        /\ EnergiesSoFar = i /\ EnergiesSoFar' = i'
    <2>1. LinksSoFar' = LinksSoFar
      BY <1>0, Unmoved DEF LinksSoFar, SoFar, Reading
    <2> QED
      BY <1>0, <2>1, Unmoved DEF BuiltSoFar, RoutersSoFar, LinksAdded, HasLinks, EnergiesSoFar, SoFar, Reading
  <1>3. CASE UNCHANGED <<i, kind_total, chip_total>>
    <2>1. \A k \in Kinds, t \in Totals : Added(k, t)' = Added(k, t)
      BY <1>2, <1>3 DEF Added
    <2> QED
      BY <1>0, <1>3, <2>1, TotalsStay
  <1>4. CASE i' = i + 1 /\ AddTo("NoC", <<"NoC", i>>, T)
    <2>1. \A k \in Kinds, t \in Totals : k # "NoC" \/ t \notin T => Added(k, t)' = Added(k, t)
      BY <1>2 DEF Added, Totals
    <2>2. \A t \in T : /\ Added("NoC", t) = {"NoC"} \X (0 .. i - 1)
                       /\ Added("NoC", t)' = {"NoC"} \X (0 .. i)
      <3>1. EnergiesSoFar' - 1 = i
        BY <1>0, <1>2, <1>4
      <3>2. \A t \in T : Added("NoC", t)' = {"NoC"} \X (0 .. EnergiesSoFar' - 1)
        BY DEF Added
      <3>3. \A t \in T : Added("NoC", t) = {"NoC"} \X (0 .. EnergiesSoFar - 1)
        BY DEF Added
      <3> HIDE DEF T
      <3> QED
        BY <1>2, <3>1, <3>2, <3>3
    <2>3. Whole("NoC") => i = 0
      BY <1>0, OnePartAtMost
    <2>4. \A t \in T : /\ <<"NoC", i>> \notin Added("NoC", t)
                       /\ Added("NoC", t)' = Added("NoC", t) \cup {<<"NoC", i>>}
                       /\ Whole("NoC") => Added("NoC", t) = {}
      BY <1>0, <2>2, <2>3
    <2>5. T \in SUBSET Totals /\ "area" \notin T
      BY DEF Totals
    <2> HIDE DEF T
    <2> QED
      BY <1>0, <1>4, <2>1, <2>4, <2>5, PartIsAdded
  <1> QED
    BY <1>1, <1>3, <1>4

LEMMA EndNetworksTotals ==
    ASSUME TotalsInv, IInv, EndNetworks
    PROVE  TotalsInv'
  <1>0. /\ pc \in {"routers", "links", "energy"} /\ i = NumParts("NoC") /\ i' = 0
        /\ UNCHANGED <<input, kind_total, chip_total>>
        /\ \/ pc = "routers" /\ pc' = "links"
           \/ pc = "links" /\ pc' = "energy"
           \/ pc = "energy" /\ pc' = "display"
    BY NextPhases DEF EndNetworks, Keep
  <1>1. NumParts("NoC")' = NumParts("NoC") /\ \A k \in Kinds : NumBuilt(k)' = NumBuilt(k)
    BY <1>0, Unmoved
  <1>2. /\ \A k \in Kinds : BuiltSoFar(k)' = BuiltSoFar(k)
        /\ RoutersSoFar' = RoutersSoFar /\ LinksSoFar' = LinksSoFar /\ EnergiesSoFar' = EnergiesSoFar
    BY <1>0, <1>1 DEF BuiltSoFar, RoutersSoFar, LinksSoFar, EnergiesSoFar, SoFar, Reading
  <1>3. LinksAdded' = LinksAdded
    BY <1>0, <1>2 DEF LinksAdded, HasLinks
  <1>4. \A k \in Kinds, t \in Totals : Added(k, t)' = Added(k, t)
    BY <1>2, <1>3 DEF Added
  <1> QED
    BY <1>0, <1>4, TotalsStay

(* Nothing is added before the parts are built, nor after. *)
LEMMA OtherStepsTotals ==
    ASSUME TotalsInv, IInv, UNCHANGED <<input, kind_total, chip_total>>,
           \/ pc' = "ended"
           \/ pc \in Reading /\ (pc' \in Reading \/ (pc' = "build" /\ section' = 1 /\ i' = 0))
           \/ pc \in {"display", "delete"} /\ pc' \in {"display", "delete"}
    PROVE  TotalsInv'
  <1> SUFFICES ASSUME pc' # "ended"
               PROVE  \A k \in Kinds, t \in Totals : Added(k, t)' = Added(k, t)
    BY TotalsStay DEF Reading
  <1>1. NumParts("NoC")' = NumParts("NoC") /\ \A k \in Kinds : NumBuilt(k)' = NumBuilt(k)
    BY Unmoved
  <1>2. /\ \A k \in Kinds : BuiltSoFar(k)' = BuiltSoFar(k)
        /\ RoutersSoFar' = RoutersSoFar /\ LinksSoFar' = LinksSoFar /\ EnergiesSoFar' = EnergiesSoFar
    <2>1. CASE pc \in Reading
      <3>1. \A n \in 1 .. 0 : FALSE
        OBVIOUS
      <3> QED
        BY <2>1, <3>1 DEF BuiltSoFar, RoutersSoFar, LinksSoFar, EnergiesSoFar, SoFar, Reading
    <2>2. CASE pc \notin Reading
      BY <1>1, <2>2 DEF BuiltSoFar, RoutersSoFar, LinksSoFar, EnergiesSoFar, SoFar, Reading
    <2> QED
      BY <2>1, <2>2
  <1>3. LinksAdded' = LinksAdded
    BY <1>2 DEF LinksAdded, HasLinks
  <1> QED
    BY <1>2, <1>3 DEF Added

LEMMA InitTotals == Init => TotalsInv
  <1> SUFFICES ASSUME Init PROVE TotalsInv
    OBVIOUS
  <1>1. /\ pc = "check" /\ kind_total = [k \in Kinds |-> [t \in Totals |-> <<>>]]
        /\ chip_total = [t \in Totals |-> <<>>]
    BY DEF Init
  <1>2. \A k \in Kinds, t \in Totals : Added(k, t) = {}
    <2>1. /\ \A k \in Kinds : BuiltSoFar(k) = 0
          /\ RoutersSoFar = 0 /\ LinksSoFar = 0 /\ EnergiesSoFar = 0
      BY <1>1 DEF BuiltSoFar, RoutersSoFar, LinksSoFar, EnergiesSoFar, SoFar, Reading
    <2>2. LinksAdded = {}
      BY <2>1 DEF LinksAdded
    <2> QED
      BY <2>1, <2>2 DEF Added
  <1>3. \A t \in Totals : AllAdded(t) = {}
    BY <1>2 DEF AllAdded
  <1>4. LinksLast(chip_total["area"])
    BY <1>1 DEF LinksLast, Totals
  <1>5. \A t : SumOf(t, {}, <<>>)
    BY NothingAdded
  <1>6. /\ kind_total \in [Kinds -> [Totals -> Seq(Terms)]]
        /\ chip_total \in [Totals -> Seq(Terms)]
    <2>1. <<>> \in Seq(Terms)
      OBVIOUS
    <2>2. [t \in Totals |-> <<>>] \in [Totals -> Seq(Terms)]
      BY <2>1
    <2> QED
      BY <1>1, <2>2
  <1>7. ASSUME NEW t \in Totals
        PROVE  /\ SumOf(t, AllAdded(t), chip_total[t])
               /\ \A k \in Kinds : SumOf(t, Added(k, t), kind_total[k][t])
    <2>1. chip_total[t] = <<>> /\ \A k \in Kinds : kind_total[k][t] = <<>>
      BY <1>1
    <2> QED
      BY <1>2, <1>3, <1>5, <2>1
  <1> QED
    BY <1>4, <1>6, <1>7 DEF TotalsInv

LEMMA StepTotals == TotalsInv /\ IInv /\ [Next]_vars => TotalsInv'
  <1> SUFFICES ASSUME TotalsInv, IInv, [Next]_vars PROVE TotalsInv'
    OBVIOUS
  <1>1. CASE UNCHANGED vars
    <2>1. /\ UNCHANGED <<input, kind_total, chip_total>>
          /\ \A k \in Kinds, t \in Totals : Added(k, t)' = Added(k, t)
      <3>1. UNCHANGED <<input, pc, section, i, kind_total, chip_total>>
        BY <1>1 DEF vars
      <3>2. /\ \A k \in Kinds : BuiltSoFar(k)' = BuiltSoFar(k)
            /\ RoutersSoFar' = RoutersSoFar /\ LinksSoFar' = LinksSoFar /\ EnergiesSoFar' = EnergiesSoFar
        BY <3>1, Unmoved DEF BuiltSoFar, RoutersSoFar, LinksSoFar, EnergiesSoFar, SoFar
      <3>3. LinksAdded' = LinksAdded
        BY <3>1, <3>2 DEF LinksAdded, HasLinks
      <3> QED
        BY <3>1, <3>2, <3>3 DEF Added
    <2> QED
      BY <1>1, <2>1, TotalsStay DEF vars
  <1>2. CASE BuildPart \/ EndKind \/ AddRouter \/ AddLinks \/ AddEnergy \/ EndNetworks
    BY <1>2, BuildTotals, EndKindTotals, AddRouterTotals, AddLinksTotals, AddEnergyTotals, EndNetworksTotals
  <1>3. CASE CheckNumbers \/ ReadEntry \/ EndSection \/ ReadSingle \/ CheckPrivateL2
    <2>0. UNCHANGED <<input, kind_total, chip_total>>
      BY <1>3 DEF CheckNumbers, ReadEntry, EndSection, ReadSingle, CheckPrivateL2, Keep
    <2>1. CASE CheckNumbers
      BY <2>0, <2>1, OtherStepsTotals DEF CheckNumbers, Exit, Reading
    <2>2. CASE ReadEntry
      BY <2>0, <2>2, OtherStepsTotals DEF ReadEntry, PassOver, Exit, Reading
    <2>3. CASE EndSection
      BY <2>0, <2>3, OtherStepsTotals DEF EndSection, Reading
    <2>4. CASE ReadSingle
      <3>1. pc = "singles" /\ pc' \in {"ended", "singles", "private"}
        BY <2>4 DEF ReadSingle, Exit
      <3> QED
        BY <2>0, <3>1, OtherStepsTotals DEF Reading
    <2>5. CASE CheckPrivateL2
      <3>1. pc = "private" /\ (pc' = "ended" \/ (pc' = "build" /\ section' = 1 /\ i' = 0))
        <4>1. Phases[1] = "build"
          BY DEF Phases
        <4> QED
          BY <2>5, <4>1 DEF CheckPrivateL2, Exit
      <3> QED
        BY <2>0, <3>1, OtherStepsTotals DEF Reading
    <2> QED
      BY <1>3, <2>1, <2>2, <2>3, <2>4, <2>5
  <1>4. CASE DisplayEnergy \/ DeleteXML \/ DeleteParts
    <2>1. /\ UNCHANGED <<input, kind_total, chip_total>>
          /\ pc \in {"display", "delete"} /\ pc' \in {"delete", "ended"}
      <3>1. CASE DisplayEnergy
        BY <3>1 DEF DisplayEnergy, Keep
      <3>2. CASE DeleteXML
        BY <3>2 DEF DeleteXML
      <3>3. CASE DeleteParts
        BY <3>3, Zenon DEF DeleteParts, Keep, Exit
      <3> QED
        BY <1>4, <3>1, <3>2, <3>3
    <2> QED
      BY <2>1, OtherStepsTotals
  <1>5. CASE Ended
    BY <1>1, <1>5 DEF Ended
  <1> QED
    BY <1>1, <1>2, <1>3, <1>4, <1>5 DEF Next

LEMMA TotalsAreWhole == TotalsInv /\ IInv => ChipWhole
  <1> SUFFICES ASSUME TotalsInv, IInv, pc \in {"display", "delete"}, NEW t \in Totals
               PROVE  /\ \A kind \in Kinds :
                           /\ NumCopies(chip_total[t], kind) = Expected(kind)
                           /\ NumCopies(kind_total[kind][t], kind) = Expected(kind)
                      /\ Distinct(chip_total[t])
                      /\ \A n \in DOMAIN chip_total[t] : SameScale(t, chip_total[t][n])
                      /\ t = "area" => /\ LinksOf(chip_total[t]) = {n \in 0 .. NumParts("NoC") - 1 : HasLinks(n)}
                                       /\ LinksLast(chip_total[t])
    BY DEF ChipWhole
  <1>0. input \in Inputs /\ ~ TooMany /\ pc \notin Reading /\ MAX_NUM_CORES \in Nat /\ "NoC" \in Kinds
    BY KindNames, InputsAssumption DEF IInv, Types, Read, Reading, Kinds
  <1>1. /\ SumOf(t, AllAdded(t), chip_total[t])
        /\ \A k \in Kinds : SumOf(t, Added(k, t), kind_total[k][t])
        /\ LinksLast(chip_total["area"])
    BY DEF TotalsInv
  <1>2. /\ \A k \in Kinds : BuiltSoFar(k) = NumBuilt(k)
        /\ RoutersSoFar = NumParts("NoC") /\ LinksSoFar = NumParts("NoC") /\ EnergiesSoFar = NumParts("NoC")
        /\ NumBuilt("NoC") = NumParts("NoC")
    BY <1>0 DEF BuiltSoFar, RoutersSoFar, LinksSoFar, EnergiesSoFar, SoFar, Reading, NumBuilt
  <1>3. ASSUME NEW k \in Kinds
        PROVE  \A item : item \in Added(k, t) /\ item[1] = k <=> \E j \in 0 .. NumBuilt(k) - 1 : item = <<k, j>>
    <2>1. k # "links"
      BY KindNames DEF Kinds
    <2>2. \A item \in LinksAdded : item[1] = "links"
      BY DEF LinksAdded, Links
    <2>3. Added(k, t) = ({k} \X (0 .. NumBuilt(k) - 1))
                          \cup (IF k = "NoC" /\ t = "area" THEN LinksAdded ELSE {})
      BY <1>2 DEF Added
    <2> QED
      BY <2>1, <2>2, <2>3
  <1>4. ASSUME NEW k \in Kinds
        PROVE  \A item : item \in AllAdded(t) /\ item[1] = k <=> \E j \in 0 .. NumBuilt(k) - 1 : item = <<k, j>>
    <2>1. \A l \in Kinds : \A item \in Added(l, t) : item[1] = l \/ item[1] = "links"
      BY DEF Added, LinksAdded, Links
    <2>2. k # "links"
      BY KindNames DEF Kinds
    <2>3. \A item : item \in AllAdded(t) /\ item[1] = k <=> item \in Added(k, t) /\ item[1] = k
      BY <2>1, <2>2 DEF AllAdded
    <2> QED
      BY <1>3, <2>3
  <1>5. ASSUME NEW k \in Kinds
        PROVE  /\ NumCopies(chip_total[t], k) = NumBuilt(k) * Copies(k)
               /\ NumCopies(kind_total[k][t], k) = NumBuilt(k) * Copies(k)
    <2>1. NumBuilt(k) \in Nat /\ Copies(k) \in Nat
      <3>1. NumBuilt(k) \in Nat
        BY <1>0, PartsFit
      <3>2. "core" \in Kinds /\ KindOf(<<k, 0>>) = k /\ <<k, 0>> \in Items
        BY KindNames DEF Kinds, KindOf, Items
      <3> QED
        BY <1>0, <3>1, <3>2, TermIs
    <2>2. SumOf(t, AllAdded(t), chip_total[t]) /\ SumOf(t, Added(k, t), kind_total[k][t])
      BY <1>1
    <2>3. NumCopies(chip_total[t], k) = NumBuilt(k) * Copies(k)
      BY <1>4, <2>1, <2>2, CopiesCounted
    <2>4. NumCopies(kind_total[k][t], k) = NumBuilt(k) * Copies(k)
      BY <1>3, <2>1, <2>2, CopiesCounted
    <2> QED
      BY <2>3, <2>4
  <1>6. ASSUME NEW k \in Kinds PROVE NumBuilt(k) * Copies(k) = Expected(k)
    <2>0. input.number[k] \in Nat
      <3>1. input \in Input
        BY <1>0, InputsAssumption
      <3> QED
        BY <1>0, <3>1 DEF Input
    <2>1. CASE NumBuilt(k) = 0
      <3>1. Copies(k) \in Nat
        BY <2>0 DEF Copies
      <3> QED
        BY <2>1, <3>1 DEF Expected
    <2>2. CASE NumBuilt(k) # 0
      <3>1. NumBuilt(k) = NumParts(k)
        BY <2>2 DEF NumBuilt
      <3>2. CASE Whole(k)
        <4>1. NumBuilt(k) = 1
          BY <1>0, <2>2, <3>2, OnePartAtMost
        <4>2. Copies(k) = input.number[k]
          BY <3>2 DEF Copies, Whole
        <4> QED
          BY <2>0, <4>1, <4>2 DEF Expected
      <3>3. CASE ~ Whole(k)
        <4>1. Copies(k) = 1
          BY <3>3 DEF Copies, Whole
        <4>2. NumParts(k) = input.number[k]
          <5>1. k \in ArrayKinds /\ ~ input.homo[k]
            BY <3>3 DEF Whole
          <5>2. k \notin {"mc", "pcie"}
            BY <5>1, KindNames
          <5> QED
            BY <5>1, <5>2, Zenon DEF NumParts
        <4> QED
          BY <2>0, <2>2, <3>1, <4>1, <4>2 DEF Expected
      <3> QED
        BY <3>2, <3>3
    <2> QED
      BY <2>1, <2>2
  <1>7. ASSUME t = "area"
        PROVE  LinksOf(chip_total[t]) = {n \in 0 .. NumParts("NoC") - 1 : HasLinks(n)}
    <2>0. NumParts("NoC") \in 0 .. MAX_NUM_CORES
      BY <1>0, PartsFit
    <2>1. \A n \in 0 .. MAX_NUM_CORES : Links(n) \in AllAdded(t) <=> Links(n) \in LinksAdded
      <3>1. \A k \in Kinds : k # "links"
        BY KindNames DEF Kinds
      <3>2. LinksAdded \subseteq AllAdded(t)
        BY <1>0, <1>7 DEF AllAdded, Added
      <3>3. ASSUME NEW n \in 0 .. MAX_NUM_CORES, Links(n) \in AllAdded(t) PROVE Links(n) \in LinksAdded
        <4>1. PICK k \in Kinds : Links(n) \in Added(k, t)
          BY <3>3 DEF AllAdded
        <4> QED
          <5>1. CASE k # "NoC"
            BY <3>1, <4>1, <5>1 DEF Added, Links
          <5>2. CASE k = "NoC"
            <6>1. Links(n) \notin {k} \X (0 .. RoutersSoFar - 1)
              BY <3>1 DEF Links
            <6>2. Added(k, t) = ({k} \X (0 .. RoutersSoFar - 1)) \cup LinksAdded
              BY <1>7, <5>2 DEF Added
            <6> QED
              BY <4>1, <6>1, <6>2
          <5> QED
            BY <5>1, <5>2
      <3> QED
        BY <3>2, <3>3
    <2>2. \A n \in 0 .. MAX_NUM_CORES : Links(n) \in LinksAdded <=> n \in 0 .. NumParts("NoC") - 1 /\ HasLinks(n)
      BY <1>2 DEF LinksAdded, Links
    <2>3. \A n \in 0 .. MAX_NUM_CORES :
              n \in LinksOf(chip_total[t]) <=> Links(n) \in AllAdded(t)
      BY <1>1 DEF SumOf, LinksOf
    <2>4. LinksOf(chip_total[t]) \subseteq 0 .. MAX_NUM_CORES
      BY DEF LinksOf
    <2>5. 0 .. NumParts("NoC") - 1 \subseteq 0 .. MAX_NUM_CORES
      BY <1>0, <2>0
    <2> QED
      BY <2>1, <2>2, <2>3, <2>4, <2>5
  <1>8. Distinct(chip_total[t]) /\ \A n \in DOMAIN chip_total[t] : SameScale(t, chip_total[t][n])
    BY <1>1 DEF SumOf, TermOf
  <1> QED
    BY <1>1, <1>5, <1>6, <1>7, <1>8

(* ChipWhole, for every file and any number of entries: when the chip is    *)
(* displayed, each kind's total and the chip's hold as many copies as the   *)
(* file says - from one part standing for all, or from each part once -     *)
(* though areas and powers of the networks are added in three loops and     *)
(* the other parts in nine; every global link is there once, after all      *)
(* parts.                                                                   *)
THEOREM ChipIsWhole == Spec => []ChipWhole
  <1>1. Init => IInv /\ TotalsInv
    BY InitInv, InitTotals
  <1>2. IInv /\ TotalsInv /\ [Next]_vars => IInv' /\ TotalsInv'
    BY StepInv, StepTotals
  <1>3. IInv /\ TotalsInv => ChipWhole
    BY TotalsAreWhole
  <1> QED
    BY <1>1, <1>2, <1>3, PTL DEF Spec
-----------------------------------------------------------------------------
(* A file that promises no core at all, though its cores are not           *)
(* homogeneous, lists no more cores than there are entries: the section of *)
(* such a file ends with the first component that is not a core, and with  *)
(* no other count.                                                         *)
CoresEnd ==
    \A x \in Inputs : x.number["core"] = 0 /\ ~ x.homo["core"] =>
        \E n \in 1 .. MAX_NUM_CORES + 1 : n \notin DOMAIN x.components \/ x.components[n] # "core"

(* The indices stay within the entries. *)
IndexInv ==
    /\ i \in 0 .. MAX_NUM_CORES /\ given \subseteq Entries
    /\ pc = "check" => w = 0
    /\ pc = "arrays" /\ ~ Unbounded(Arrays[section]) => i <= Wanted(Arrays[section])
    /\ pc = "arrays" /\ Unbounded(Arrays[section]) =>
         w = i /\ \A n \in 0 .. i - 1 : Component(n) = "core"
    /\ pc \in {"routers", "links", "energy"} => i <= NumParts("NoC")

LEMMA WantedFit ==
    ASSUME input \in Inputs, ~ TooMany, NEW k \in ArrayKinds
    PROVE  Wanted(k) \in 0 .. MAX_NUM_CORES
  <1>1. input \in Input /\ MAX_NUM_CORES \in Nat \ {0} /\ k \in Kinds
    BY InputsAssumption DEF Kinds
  <1>2. input.number[k] \in 0 .. MAX_NUM_CORES + 1
    BY <1>1 DEF Input
  <1>3. input.number[k] <= MAX_NUM_CORES
    BY <1>1, <1>2 DEF TooMany
  <1> QED
    BY <1>1, <1>2, <1>3 DEF Wanted

LEMMA InitIndex == Init => IndexInv
  BY InputsAssumption DEF Init, IndexInv

LEMMA ReadEntryIndex ==
    ASSUME CoresEnd, IInv, IndexInv, ReadEntry
    PROVE  IndexInv'
  <1> PICK kind : kind = Arrays[section]
    OBVIOUS
  <1>0. /\ pc = "arrays" /\ UNCHANGED <<input, section>> /\ section \in DOMAIN Arrays /\ i \in Nat
        /\ i < Wanted(kind) \/ Unbounded(kind)
        /\ input \in Inputs /\ ~ TooMany /\ kind \in ArrayKinds /\ kind \in Kinds
        /\ MAX_NUM_CORES \in Nat \ {0}
    BY InputsAssumption DEF ReadEntry, Keep, IInv, Types, Read, PhaseSet, ArrayKinds, Kinds
  <1>1. \/ pc' = "ended" /\ UNCHANGED <<i, given>>
        \/ UNCHANGED pc /\ i' = i + 1 /\ w' = w + 1 /\ Component(w) = kind
              /\ given' = given \cup {<<kind, i>>}
        \/ UNCHANGED <<pc, given>> /\ i' = i + 1 /\ kind \in {"L2", "NoC"}
    BY <1>0, Zenon DEF ReadEntry, Recognised, PassOver, Exit
  <1>2. CASE pc' = "ended" /\ UNCHANGED <<i, given>>
    BY <1>2 DEF IndexInv
  <1>3. CASE UNCHANGED pc /\ i' = i + 1 /\ i < Wanted(kind) /\ ~ Unbounded(kind)
             /\ (given' = given \/ given' = given \cup {<<kind, i>>})
    <2>1. Wanted(kind) \in 0 .. MAX_NUM_CORES
      BY <1>0, WantedFit
    <2>2. i \in 0 .. MAX_NUM_CORES - 1 /\ i' \in 0 .. MAX_NUM_CORES /\ i' <= Wanted(kind)
      BY <1>0, <1>3, <2>1
    <2>3. given' \subseteq Entries
      <3>1. <<kind, i>> \in Entries
        BY <1>0, <2>2 DEF Entries
      <3> QED
        BY <1>3, <3>1 DEF IndexInv
    <2>4. ~ Unbounded(Arrays[section])' /\ Wanted(Arrays[section])' = Wanted(kind)
      BY <1>0, <1>3 DEF Unbounded, Wanted
    <2> QED
      BY <1>0, <1>3, <2>2, <2>3, <2>4 DEF IndexInv
  <1>4. CASE Unbounded(kind)
    <2>0. kind = "core" /\ input.number["core"] = 0 /\ ~ input.homo["core"]
      BY <1>4 DEF Unbounded, Wanted
    <2>1. CASE UNCHANGED pc /\ i' = i + 1 /\ w' = w + 1 /\ Component(w) = kind
                  /\ given' = given \cup {<<kind, i>>}
      <3>1. w = i /\ \A n \in 0 .. i - 1 : Component(n) = "core"
        BY <1>0, <1>4 DEF IndexInv
      <3>2. \A n \in 0 .. i : Component(n) = "core"
        BY <1>0, <2>0, <2>1, <3>1
      <3>3. PICK n \in 1 .. MAX_NUM_CORES + 1 : n \notin DOMAIN input.components \/ input.components[n] # "core"
        BY <1>0, <2>0 DEF CoresEnd
      <3>4. Component(n - 1) # "core"
        <4>1. n - 1 + 1 = n
          BY <1>0, <3>3
        <4> QED
          BY <3>3, <4>1 DEF Component
      <3>5. i \in 0 .. MAX_NUM_CORES - 1
        BY <1>0, <3>2, <3>3, <3>4
      <3>6. given' \subseteq Entries
        <4>1. <<kind, i>> \in Entries
          BY <1>0, <3>5 DEF Entries
        <4> QED
          BY <2>1, <4>1 DEF IndexInv
      <3>7. /\ w' = i' /\ \A m \in 0 .. i' - 1 : Component(m)' = "core"
        BY <1>0, <2>1, <3>1, <3>2 DEF Component
      <3>8. Unbounded(Arrays[section])'
        BY <1>0, <1>4 DEF Unbounded, Wanted
      <3>9. i' \in 0 .. MAX_NUM_CORES
        BY <1>0, <2>1, <3>5
      <3> QED
        BY <1>0, <2>1, <3>6, <3>7, <3>8, <3>9 DEF IndexInv
    <2>2. kind \notin {"L2", "NoC"}
      BY <2>0
    <2> QED
      BY <1>1, <1>2, <2>1, <2>2
  <1> QED
    BY <1>0, <1>1, <1>2, <1>3, <1>4

Ends == {"running", "exit 0", "exit 1", "return 0"}
LEMMA StatusKept == status \in Ends /\ [Next]_vars => status' \in Ends
  <1> SUFFICES ASSUME status \in Ends, [Next]_vars PROVE status' \in Ends
    OBVIOUS
  <1>0. "exit 0" \in Ends /\ "exit 1" \in Ends /\ "return 0" \in Ends
    BY DEF Ends
  <1>1. \/ status' = status \/ status' = "exit 0" \/ status' = "exit 1" \/ status' = "return 0"
    <2>1. CASE UNCHANGED vars
      BY <2>1, Zenon DEF vars
    <2>2. CASE CheckNumbers \/ ReadEntry \/ EndSection
      BY <2>2, Zenon DEF CheckNumbers, ReadEntry, PassOver, EndSection, Keep, Exit
    <2>3. CASE ReadSingle \/ CheckPrivateL2
      BY <2>3, Zenon DEF ReadSingle, CheckPrivateL2, Keep, Exit
    <2>4. CASE BuildPart
      BY <2>4, Zenon DEF BuildPart, Construct, ComputeEnergy, AddPart, Exit
    <2>5. CASE EndKind \/ AddRouter \/ AddLinks \/ EndNetworks
      BY <2>5, Zenon DEF EndKind, AddRouter, AddLinks, EndNetworks
    <2>6. CASE AddEnergy
      BY <2>6, Zenon DEF AddEnergy, ComputeEnergy, AddPart
    <2>7. CASE DisplayEnergy \/ DeleteXML \/ DeleteParts
      BY <2>7, Zenon DEF DisplayEnergy, DeleteXML, DeleteParts, Exit
    <2> QED
      BY <2>1, <2>2, <2>3, <2>4, <2>5, <2>6, <2>7, Zenon DEF Next, Ended
  <1> QED
    BY <1>0, <1>1, Zenon

(* Only the section of the L2s misreads, within its entries. *)
Misread == misread \subseteq 0 .. MAX_NUM_CORES - 1
LEMMA MisreadKept ==
    ASSUME IInv, Misread, [Next]_vars
    PROVE  Misread'
  <1>1. CASE ReadEntry /\ misread' # misread
    <2>1. pc = "arrays" /\ misread' = misread \cup {i} /\ Arrays[section] = "L2"
          /\ (i < Wanted("L2") \/ Unbounded("L2"))
      BY <1>1, Zenon DEF ReadEntry, Recognised
    <2>2. input \in Inputs /\ i \in Nat /\ ~ TooMany /\ "L2" \in ArrayKinds /\ MAX_NUM_CORES \in Nat
      BY <2>1, KindNames, InputsAssumption DEF IInv, Types, Read, PhaseSet
    <2>3. Wanted("L2") \in 0 .. MAX_NUM_CORES
      BY <2>2, WantedFit
    <2>4. i < Wanted("L2")
      BY <2>1 DEF Unbounded
    <2> QED
      BY <2>1, <2>2, <2>3, <2>4 DEF Misread
  <1>2. CASE ~ (ReadEntry /\ misread' # misread)
    <2>1. misread' = misread
      <3>1. CASE UNCHANGED vars
        BY <3>1, Zenon DEF vars
      <3>2. CASE CheckNumbers \/ EndSection \/ ReadSingle \/ CheckPrivateL2
        BY <3>2, Zenon DEF CheckNumbers, EndSection, ReadSingle, CheckPrivateL2, Keep
      <3>3. CASE BuildPart \/ EndKind \/ AddRouter \/ AddLinks \/ AddEnergy \/ EndNetworks
        BY <3>3, Zenon DEF BuildPart, EndKind, AddRouter, AddLinks, AddEnergy, EndNetworks, Keep
      <3>4. CASE DisplayEnergy \/ DeleteXML \/ DeleteParts
        BY <3>4, Zenon DEF DisplayEnergy, DeleteXML, DeleteParts, Keep
      <3> QED
        BY <1>2, <3>1, <3>2, <3>3, <3>4, Zenon DEF Next, Ended
    <2> QED
      BY <2>1 DEF Misread
  <1> QED
    BY <1>1, <1>2

LEMMA StepIndex ==
    ASSUME CoresEnd, IInv, IndexInv, [Next]_vars
    PROVE  IndexInv'
  <1>0. /\ i \in Nat /\ input \in Inputs /\ input' = input /\ MAX_NUM_CORES \in Nat \ {0}
        /\ "NoC" \in Kinds
    <2>1. input' = input
      <3>1. CASE Next
        BY <3>1, Zenon DEF Next, CheckNumbers, ReadEntry, EndSection, ReadSingle, CheckPrivateL2, BuildPart, EndKind,
             AddRouter, AddLinks, AddEnergy, EndNetworks, DisplayEnergy, DeleteXML, DeleteParts, Ended, Keep, vars
      <3> QED
        BY <3>1 DEF vars
    <2> QED
      BY <2>1, KindNames, InputsAssumption DEF IInv, Types, Kinds
  <1>1. CASE UNCHANGED vars
    BY <1>1 DEF vars, IndexInv, Unbounded, Wanted, Component, NumParts
  <1>2. CASE CheckNumbers
    <2>1. /\ pc = "check" /\ section = 1 /\ i = 0 /\ w = 0 /\ UNCHANGED <<section, i, w, given>>
          /\ \/ pc' = "ended"
             \/ pc' \in {"private", "arrays"} /\ ~ TooMany
      BY <1>2 DEF CheckNumbers, Exit, IInv, Types, IndexInv
    <2>2. pc' = "arrays" => Wanted(Arrays[section])' \in Nat
      <3>1. Arrays[1] \in ArrayKinds
        BY Sections DEF ArrayKinds
      <3>2. ~ TooMany => Wanted(Arrays[1]) \in Nat
        BY <1>0, <3>1, WantedFit
      <3>3. Wanted(Arrays[section])' = Wanted(Arrays[1])
        BY <1>0, <2>1 DEF Wanted
      <3> QED
        BY <1>0, <2>1, <3>2, <3>3
    <2>3. pc' = "arrays" => i' <= Wanted(Arrays[section])'
      BY <2>1, <2>2
    <2>4. i' \in 0 .. MAX_NUM_CORES /\ w' = i' /\ pc' \notin {"check", "routers", "links", "energy"}
      BY <1>0, <2>1
    <2>5. \A n \in 0 .. i' - 1 : FALSE
      BY <2>1
    <2>6. given' \subseteq Entries
      BY <2>1 DEF IndexInv
    <2> QED
      BY <2>3, <2>4, <2>5, <2>6 DEF IndexInv
  <1>3. CASE ReadEntry
    BY <1>3, ReadEntryIndex
  <1>4. CASE EndSection
    <2>1. /\ pc = "arrays" /\ i' = 0 /\ UNCHANGED given /\ section \in 1 .. 6 /\ ~ TooMany
          /\ \/ section < 6 /\ section' = section + 1 /\ pc' = "arrays"
             \/ pc' = "singles"
      <3>1. section \in 1 .. 6 /\ Len(Arrays) = 6
        BY <1>4, Sections DEF EndSection, IInv, Types
      <3> QED
        BY <1>4, <3>1 DEF EndSection, Keep, IInv, Read, PhaseSet
    <2>2. pc' = "arrays" => ~ Unbounded(Arrays[section])' /\ Wanted(Arrays[section])' \in Nat
      <3> SUFFICES ASSUME pc' = "arrays"
                   PROVE  ~ Unbounded(Arrays[section])' /\ Wanted(Arrays[section])' \in Nat
        OBVIOUS
      <3>1. PICK k : k = Arrays[section']
        OBVIOUS
      <3>2. k \in ArrayKinds /\ k # "core"
        BY <2>1, <3>1, Sections DEF ArrayKinds
      <3>3. Wanted(k) \in Nat
        BY <1>0, <2>1, <3>2, WantedFit
      <3> QED
        BY <1>0, <3>1, <3>2, <3>3 DEF Unbounded, Wanted
    <2>3. i' \in 0 .. MAX_NUM_CORES /\ given' \subseteq Entries
      BY <1>0, <2>1 DEF IndexInv
    <2>4. pc' # "check" /\ pc' \notin {"routers", "links", "energy"}
      BY <2>1
    <2>5. pc' = "arrays" /\ ~ Unbounded(Arrays[section])' => i' <= Wanted(Arrays[section])'
      BY <2>1, <2>2
    <2> QED
      BY <2>2, <2>3, <2>4, <2>5 DEF IndexInv
  <1>5. CASE ReadSingle
    <2>1. /\ UNCHANGED i /\ pc' \in {"ended", "singles", "private"}
          /\ given' = given \/ given' = given \cup {<<Singles[section], 0>>}
          /\ pc = "singles"
      BY <1>5 DEF ReadSingle, Exit
    <2>2. <<Singles[section], 0>> \in Entries
      BY <1>0, <2>1 DEF IInv, Types, Entries, Kinds, SingleKinds
    <2> QED
      BY <2>1, <2>2 DEF IndexInv
  <1>6. CASE CheckPrivateL2
    <2>1. /\ i' = 0 /\ UNCHANGED given /\ pc' \in {"ended", "build"}
      <3>1. Phases[1] = "build"
        BY DEF Phases
      <3> QED
        BY <1>6, <3>1 DEF CheckPrivateL2, Exit
    <2> QED
      BY <1>0, <2>1 DEF IndexInv
  <1>7. CASE BuildPart
    <2> PICK k : k = Building[section]
      OBVIOUS
    <2>1. /\ pc = "build" /\ i < NumBuilt(k) /\ UNCHANGED given /\ ~ TooMany /\ k \in Kinds
          /\ pc' \in {pc, "ended"} /\ i' \in {i, i + 1}
      BY <1>7, BuildingKinds DEF BuildPart, Construct, ComputeEnergy, AddPart, Exit, Keep, IInv, Types, Read, PhaseSet
    <2>2. NumBuilt(k) \in 0 .. MAX_NUM_CORES
      BY <1>0, <2>1, PartsFit
    <2>3. i' \in 0 .. MAX_NUM_CORES
      BY <1>0, <2>1, <2>2
    <2> QED
      BY <1>0, <2>1, <2>3 DEF IndexInv
  <1>8. CASE EndKind
    <2>1. /\ pc = "build" /\ i' = 0 /\ UNCHANGED given /\ ~ TooMany /\ pc' \in {"build", "routers"}
      <3>1. NextPhase = "routers"
        BY <1>8, NextPhases DEF EndKind
      <3> QED
        BY <1>8, <3>1 DEF EndKind, Keep, IInv, Read, PhaseSet
    <2>2. NumParts("NoC")' = NumParts("NoC") /\ NumParts("NoC") \in Nat
      BY <1>0, <2>1, PartsFit, Unmoved
    <2> QED
      BY <1>0, <2>1, <2>2 DEF IndexInv
  <1>9. CASE AddRouter \/ AddLinks \/ AddEnergy
    <2>1. /\ pc \in {"routers", "links", "energy"} /\ UNCHANGED <<pc, given>> /\ ~ TooMany
          /\ i' \in {i, i + 1} /\ i < NumParts("NoC")
      BY <1>9 DEF AddRouter, AddLinks, AddEnergy, ComputeEnergy, AddPart, Keep, IInv, Read, PhaseSet
    <2>2. NumParts("NoC")' = NumParts("NoC") /\ NumParts("NoC") \in 0 .. MAX_NUM_CORES
      BY <1>0, <2>1, PartsFit, Unmoved
    <2>3. i' \in 0 .. MAX_NUM_CORES /\ i' <= NumParts("NoC")
      BY <1>0, <2>1, <2>2
    <2> QED
      BY <1>0, <2>1, <2>2, <2>3 DEF IndexInv
  <1>10. CASE EndNetworks
    <2>1. /\ pc \in {"routers", "links", "energy"} /\ i' = 0 /\ UNCHANGED given /\ ~ TooMany
          /\ pc' \in {"links", "energy", "display"}
      BY <1>10, NextPhases DEF EndNetworks, Keep, IInv, Read, PhaseSet
    <2>2. NumParts("NoC")' = NumParts("NoC") /\ NumParts("NoC") \in Nat
      BY <1>0, <2>1, PartsFit, Unmoved
    <2> QED
      BY <1>0, <2>1, <2>2 DEF IndexInv
  <1>11. CASE DisplayEnergy \/ DeleteXML \/ DeleteParts
    <2>1. /\ UNCHANGED <<i, given>> /\ pc' \in {"delete", "ended"}
      <3>1. CASE DisplayEnergy
        BY <3>1 DEF DisplayEnergy, Keep
      <3>2. CASE DeleteXML
        BY <3>2 DEF DeleteXML
      <3>3. CASE DeleteParts
        <4>1. /\ UNCHANGED <<i, given>> /\ pc = "delete"
              /\ (UNCHANGED pc \/ pc' = "ended")
          BY <3>3, Zenon DEF DeleteParts, Keep, Exit
        <4> QED
          BY <4>1
      <3> QED
        BY <1>11, <3>1, <3>2, <3>3
    <2> QED
      BY <2>1 DEF IndexInv
  <1> QED
    BY <1>1, <1>2, <1>3, <1>4, <1>5, <1>6, <1>7, <1>8, <1>9, <1>10, <1>11 DEF Next, Ended

(* The stages, of the networks too, through all loops. *)
Deleted(kind) == \E n \in 1 .. section - 1 : Deleting[n] = kind
NetworkAt(j) == stage[<<"NoC", j>>]
NetworkStages ==
    \A j \in 0 .. MAX_NUM_CORES - 1 :
        /\ pc = "routers" => NetworkAt(j) = IF j < i THEN 2 ELSE 1
        /\ pc = "links" /\ j < NumParts("NoC") => NetworkAt(j) = 2
        /\ pc = "energy" /\ j < NumParts("NoC") =>
             NetworkAt(j) \in 2 .. 4 /\ (j < i => NetworkAt(j) = 4) /\ (j > i => NetworkAt(j) = 2)
        /\ pc = "display" /\ j < NumParts("NoC") => NetworkAt(j) = 4
StagesInv ==
    /\ stage \in [Entries -> 1 .. 6]
    /\ \A p \in Entries : stage[p] > 1 => p \in Parts
    /\ pc = "build" => \A p \in Entries : stage[p] <= 4
    /\ NetworkStages
    /\ pc \in {"routers", "links", "energy", "display"} => section = 1
    /\ pc = "delete" => \A p \in Entries : p \in Parts => stage[p] = IF Deleted(p[1]) THEN 6 ELSE 5
    /\ pc = "delete" /\ xml => section = 1

LEMMA PartIs ==
    ASSUME input \in Inputs, ~ TooMany, NEW p \in Entries
    PROVE  p \in Parts <=> p[2] < NumBuilt(p[1])
  <1>1. p[1] \in Kinds /\ p[2] \in 0 .. MAX_NUM_CORES - 1 /\ p = <<p[1], p[2]>> /\ MAX_NUM_CORES \in Nat
    BY InputsAssumption DEF Entries
  <1>2. NumBuilt(p[1]) \in Nat
    BY <1>1, PartsFit
  <1>3. p \in Parts <=> p[2] \in 0 .. NumBuilt(p[1]) - 1
    BY <1>1 DEF Parts
  <1> QED
    BY <1>1, <1>2, <1>3

LEMMA NetworkIs ==
    ASSUME input \in Inputs, ~ TooMany, NEW j \in 0 .. MAX_NUM_CORES - 1
    PROVE  /\ <<"NoC", j>> \in Entries
           /\ <<"NoC", j>> \in Parts <=> j < NumParts("NoC")
  <1>1. <<"NoC", j>> \in Entries
    BY KindNames DEF Entries, Kinds
  <1> QED
    BY <1>1, PartIs DEF NumBuilt

LEMMA InitStages == Init => StagesInv
  <1> SUFFICES ASSUME Init PROVE StagesInv
    OBVIOUS
  <1>1. stage = [p \in Entries |-> 1] /\ pc = "check"
    BY DEF Init
  <1>2. stage \in [Entries -> 1 .. 6] /\ \A p \in Entries : stage[p] = 1
    BY <1>1
  <1> QED
    BY <1>1, <1>2 DEF StagesInv, NetworkStages

(* The stages stay, in the loops that build nothing. *)
LEMMA StagesStay ==
    ASSUME StagesInv, UNCHANGED <<input, stage>>,
           \/ UNCHANGED <<pc, section, i, xml>>
           \/ pc' \notin PhaseSet \cup {"delete"}
           \/ pc = "private" /\ pc' = "build" /\ \A p \in Entries : stage[p] = 1
           \/ pc = "build" /\ pc' = "build"
    PROVE  StagesInv'
  <1>1. /\ stage' \in [Entries -> 1 .. 6]
        /\ \A p \in Entries : stage'[p] > 1 => p \in Parts'
    BY Unmoved DEF StagesInv
  <1>2. CASE UNCHANGED <<pc, section, i, xml>>
    <2>1. NetworkStages'
      BY <1>2, Unmoved DEF StagesInv, NetworkStages, NetworkAt
    <2>2. \A k \in Kinds : Deleted(k)' = Deleted(k)
      BY <1>2 DEF Deleted
    <2>3. pc' = "delete" => \A p \in Entries : p \in Parts' => stage'[p] = IF Deleted(p[1])' THEN 6 ELSE 5
      BY <1>2, <2>2, Unmoved DEF StagesInv, Entries
    <2> QED
      BY <1>1, <1>2, <2>1, <2>3 DEF StagesInv
  <1>3. CASE pc' \notin PhaseSet \cup {"delete"}
    BY <1>1, <1>3 DEF StagesInv, NetworkStages, PhaseSet
  <1>4. CASE pc' = "build" /\ \A p \in Entries : stage[p] <= 4
    BY <1>1, <1>4 DEF StagesInv, NetworkStages
  <1> QED
    BY <1>2, <1>3, <1>4 DEF StagesInv

LEMMA BuildStages ==
    ASSUME IInv, StagesInv, BuildPart
    PROVE  StagesInv'
  <1> PICK p : p = <<Building[section], i>>
    OBVIOUS
  <1>0. /\ pc = "build" /\ UNCHANGED <<input, xml, section>> /\ section \in DOMAIN Building /\ i \in Nat
        /\ input \in Inputs /\ ~ TooMany /\ i < NumBuilt(Building[section])
    BY DEF BuildPart, Keep, IInv, Types, Read, PhaseSet
  <1>1. p \in Entries /\ p \in Parts
    <2>1. Building[section] \in Kinds
      BY <1>0, BuildingKinds
    <2>2. NumBuilt(Building[section]) \in 0 .. MAX_NUM_CORES /\ MAX_NUM_CORES \in Nat
      BY <1>0, <2>1, PartsFit, InputsAssumption
    <2>3. i \in 0 .. MAX_NUM_CORES - 1
      BY <1>0, <2>2
    <2>4. p \in Entries /\ p[1] = Building[section] /\ p[2] = i
      BY <2>1, <2>3 DEF Entries
    <2> QED
      BY <1>0, <2>4, PartIs
  <1>2. \/ pc' = "ended" /\ stage' = stage
        \/ pc' = pc /\ stage' = stage
        \/ pc' = pc /\ stage[p] \in {1, 2, 3} /\ stage' = [stage EXCEPT ![p] = @ + 1]
    BY <1>0 DEF BuildPart, Construct, ComputeEnergy, AddPart, Advance, Exit
  <1>3. CASE stage' = stage
    BY <1>0, <1>2, <1>3, StagesStay DEF PhaseSet
  <1>4. CASE pc' = pc /\ stage[p] \in {1, 2, 3} /\ stage' = [stage EXCEPT ![p] = @ + 1]
    <2>1. /\ stage' \in [Entries -> 1 .. 6]
          /\ \A q \in Entries : stage'[q] = IF q = p THEN stage[q] + 1 ELSE stage[q]
      BY <1>1, <1>4 DEF StagesInv
    <2>2. \A q \in Entries : stage'[q] > 1 => q \in Parts'
      BY <1>0, <1>1, <2>1, Unmoved DEF StagesInv
    <2>3. \A q \in Entries : stage'[q] <= 4
      BY <1>0, <1>1, <1>4, <2>1 DEF StagesInv
    <2> QED
      BY <1>0, <1>4, <2>1, <2>2, <2>3 DEF StagesInv, NetworkStages
  <1> QED
    BY <1>2, <1>3, <1>4

LEMMA EndKindStages ==
    ASSUME IInv, StagesInv, EndKind
    PROVE  StagesInv'
  <1>0. /\ pc = "build" /\ UNCHANGED <<input, xml, stage>> /\ i' = 0
        /\ pc' = "build" \/ (pc' = "routers" /\ section' = 1)
        /\ MAX_NUM_CORES \in Nat
    <2>1. pc = "build" /\ NextPhase = "routers"
      BY NextPhases DEF EndKind
    <2> QED
      BY <2>1, InputsAssumption DEF EndKind, Keep
  <1>1. CASE pc' = "build"
    BY <1>0, <1>1, StagesStay
  <1>2. CASE pc' = "routers"
    <2>1. \A j \in 0 .. MAX_NUM_CORES - 1 : <<"NoC", j>> \in Entries /\ stage[<<"NoC", j>>] = 1 /\ ~ (j < i')
      BY <1>0, KindNames DEF IInv, Built, Entries, Kinds
    <2>2. NetworkStages'
      BY <1>0, <1>2, <2>1 DEF NetworkStages, NetworkAt
    <2> QED
      BY <1>0, <1>2, <2>2, Unmoved DEF StagesInv
  <1> QED
    BY <1>0, <1>1, <1>2

LEMMA NetworkStepStages ==
    ASSUME IInv, StagesInv, AddRouter \/ AddLinks \/ AddEnergy \/ EndNetworks
    PROVE  StagesInv'
  <1> PICK p : p = <<"NoC", i>>
    OBVIOUS
  <1> PICK parts : parts = NumParts("NoC")
    OBVIOUS
  <1>0. /\ pc \in {"routers", "links", "energy"} /\ UNCHANGED <<input, xml, section>> /\ section = 1
        /\ i \in Nat /\ MAX_NUM_CORES \in Nat /\ input \in Inputs /\ ~ TooMany
        /\ NumParts("NoC")' = parts /\ Parts' = Parts
    <2>1. pc \in {"routers", "links", "energy"} /\ UNCHANGED <<input, xml, section>>
      BY DEF AddRouter, AddLinks, AddEnergy, EndNetworks, Keep
    <2> QED
      BY <2>1, Unmoved, InputsAssumption DEF IInv, Types, Read, PhaseSet, StagesInv
  <1>1. parts \in 0 .. MAX_NUM_CORES
    BY <1>0, PartsFit, KindNames DEF Kinds
  <1>2. /\ stage \in [Entries -> 1 .. 6]
        /\ \A q \in Entries : stage[q] > 1 => q \in Parts
        /\ NetworkStages
    BY DEF StagesInv
  <1>3. ASSUME i < parts
        PROVE  p \in Entries /\ p \in Parts /\ i \in 0 .. MAX_NUM_CORES - 1
    <2>1. i \in 0 .. MAX_NUM_CORES - 1
      BY <1>0, <1>1, <1>3
    <2> QED
      BY <1>0, <1>3, <2>1, NetworkIs
  <1>4. ASSUME stage' \in [Entries -> 1 .. 6], \A q \in Entries : stage'[q] > 1 => q \in Parts,
               pc' \in {"routers", "links", "energy", "display"}, NetworkStages'
        PROVE  StagesInv'
    BY <1>0, <1>4 DEF StagesInv
  <1>5. CASE AddRouter
    <2>1. /\ pc = "routers" /\ pc' = "routers" /\ i < parts /\ i' = i + 1
          /\ stage' = [stage EXCEPT ![p] = @ + 1]
      BY <1>5 DEF AddRouter, Advance
    <2>2. stage[p] = 1
      BY <1>2, <1>3, <2>1 DEF NetworkStages, NetworkAt
    <2>3. /\ stage' \in [Entries -> 1 .. 6]
          /\ \A q \in Entries : stage'[q] = IF q = p THEN 2 ELSE stage[q]
      BY <1>2, <1>3, <2>1, <2>2
    <2>4. \A q \in Entries : stage'[q] > 1 => q \in Parts
      BY <1>2, <1>3, <2>1, <2>3
    <2>5. \A j \in 0 .. MAX_NUM_CORES - 1 : stage'[<<"NoC", j>>] = IF j < i' THEN 2 ELSE 1
      <3> SUFFICES ASSUME NEW j \in 0 .. MAX_NUM_CORES - 1
                   PROVE  stage'[<<"NoC", j>>] = IF j < i' THEN 2 ELSE 1
        OBVIOUS
      <3>1. <<"NoC", j>> \in Entries /\ (<<"NoC", j>> = p <=> j = i)
        BY <1>0, NetworkIs
      <3>2. stage[<<"NoC", j>>] = IF j < i THEN 2 ELSE 1
        BY <1>2, <2>1 DEF NetworkStages, NetworkAt
      <3>3. stage'[<<"NoC", j>>] = IF j = i THEN 2 ELSE stage[<<"NoC", j>>]
        BY <2>3, <3>1
      <3> QED
        BY <1>0, <2>1, <3>2, <3>3
    <2>6. NetworkStages'
      BY <2>1, <2>5 DEF NetworkStages, NetworkAt
    <2> QED
      BY <1>4, <2>1, <2>3, <2>4, <2>6
  <1>6. CASE AddLinks
    <2>1. pc = "links" /\ pc' = "links" /\ stage' = stage
      BY <1>6 DEF AddLinks, Keep
    <2>2. NetworkStages'
      BY <1>0, <1>2, <2>1 DEF NetworkStages, NetworkAt
    <2> QED
      BY <1>2, <1>4, <2>1, <2>2
  <1>7. CASE AddEnergy
    <2>1. /\ pc = "energy" /\ pc' = "energy" /\ i < parts
          /\ \/ stage[p] \in {2, 3} /\ stage' = [stage EXCEPT ![p] = @ + 1] /\ i' = i
             \/ stage[p] = 4 /\ stage' = stage /\ i' = i + 1
      BY <1>7 DEF AddEnergy, ComputeEnergy, AddPart, Advance
    <2>2. /\ stage' \in [Entries -> 1 .. 6]
          /\ \A q \in Entries : stage'[q] = IF q = p /\ i' = i THEN stage[q] + 1 ELSE stage[q]
      <3>1. CASE i' = i
        BY <1>0, <1>2, <1>3, <2>1, <3>1
      <3>2. CASE i' # i
        BY <1>0, <1>2, <2>1, <3>2
      <3> QED
        BY <3>1, <3>2
    <2>3. \A q \in Entries : stage'[q] > 1 => q \in Parts
      BY <1>2, <1>3, <2>1, <2>2
    <2>4. ASSUME NEW j \in 0 .. MAX_NUM_CORES - 1, j < parts
          PROVE  stage'[<<"NoC", j>>] \in 2 .. 4 /\ (j < i' => stage'[<<"NoC", j>>] = 4)
                 /\ (j > i' => stage'[<<"NoC", j>>] = 2)
      <3>1. <<"NoC", j>> \in Entries /\ (<<"NoC", j>> = p <=> j = i)
        BY <1>0, NetworkIs
      <3>2. stage[<<"NoC", j>>] \in 2 .. 4 /\ (j < i => stage[<<"NoC", j>>] = 4) /\ (j > i => stage[<<"NoC", j>>] = 2)
        BY <1>2, <2>1, <2>4 DEF NetworkStages, NetworkAt
      <3>3. stage'[<<"NoC", j>>] = IF j = i /\ i' = i THEN stage[<<"NoC", j>>] + 1 ELSE stage[<<"NoC", j>>]
        BY <2>2, <3>1
      <3>4. CASE j = i
        <4>1. stage[<<"NoC", j>>] = stage[p]
          BY <3>1, <3>4
        <4> QED
          BY <1>0, <2>1, <3>3, <3>4, <4>1
      <3>5. CASE j # i
        BY <1>0, <2>1, <3>2, <3>3, <3>5
      <3> QED
        BY <3>4, <3>5
    <2>5. NetworkStages'
      BY <1>0, <2>1, <2>4 DEF NetworkStages, NetworkAt
    <2> QED
      BY <1>4, <2>1, <2>2, <2>3, <2>5
  <1>8. CASE EndNetworks
    <2>1. /\ stage' = stage /\ i = parts /\ i' = 0
          /\ \/ pc = "routers" /\ pc' = "links"
             \/ pc = "links" /\ pc' = "energy"
             \/ pc = "energy" /\ pc' = "display"
      BY <1>8, NextPhases DEF EndNetworks, Keep
    <2>2. ASSUME NEW j \in 0 .. MAX_NUM_CORES - 1, j < parts
          PROVE  stage[<<"NoC", j>>] = IF pc = "energy" THEN 4 ELSE 2
      BY <1>0, <1>2, <2>1, <2>2 DEF NetworkStages, NetworkAt
    <2>3. NetworkStages'
      <3>1. \A j \in 0 .. MAX_NUM_CORES - 1 : j \in Nat /\ ~ (j < i')
        BY <1>0, <2>1
      <3>2. CASE pc = "routers"
        BY <1>0, <2>1, <2>2, <3>2 DEF NetworkStages, NetworkAt
      <3>3. CASE pc = "links"
        <4>1. pc' = "energy"
          BY <2>1, <3>3
        <4>2. \A j \in 0 .. MAX_NUM_CORES - 1 : j < parts =>
                  stage'[<<"NoC", j>>] \in 2 .. 4 /\ stage'[<<"NoC", j>>] = 2 /\ ~ (j < i')
          BY <2>1, <2>2, <3>1, <3>3
        <4> QED
          BY <1>0, <4>1, <4>2 DEF NetworkStages, NetworkAt
      <3>4. CASE pc = "energy"
        BY <1>0, <2>1, <2>2, <3>4 DEF NetworkStages, NetworkAt
      <3> QED
        BY <1>0, <3>2, <3>3, <3>4
    <2> QED
      BY <1>2, <1>4, <2>1, <2>3
  <1> QED
    BY <1>5, <1>6, <1>7, <1>8

LEMMA DisplayStages ==
    ASSUME IInv, StagesInv, DisplayEnergy
    PROVE  StagesInv'
  <1>0. /\ pc = "display" /\ pc' = "delete" /\ UNCHANGED <<input, xml, section>> /\ section = 1
        /\ stage' = [p \in Entries |-> IF p \in Parts THEN stage[p] + 1 ELSE stage[p]]
        /\ Parts' = Parts /\ input \in Inputs /\ ~ TooMany
    BY Unmoved DEF DisplayEnergy, Keep, StagesInv, IInv, Types, Read, PhaseSet
  <1>1. ASSUME NEW p \in Entries, p \in Parts PROVE stage[p] = 4
    <2>1. CASE p[1] # "NoC"
      BY <1>0, <1>1, <2>1 DEF IInv, Built
    <2>2. CASE p[1] = "NoC"
      <3>1. PICK j \in 0 .. MAX_NUM_CORES - 1 : p = <<"NoC", j>>
        BY <2>2 DEF Entries
      <3>2. j < NumParts("NoC")
        BY <1>0, <1>1, <3>1, NetworkIs
      <3> QED
        BY <1>0, <3>1, <3>2 DEF StagesInv, NetworkStages, NetworkAt
    <2> QED
      BY <2>1, <2>2
  <1>2. /\ stage' \in [Entries -> 1 .. 6]
        /\ \A p \in Entries : stage'[p] = IF p \in Parts THEN 5 ELSE stage[p]
    BY <1>0, <1>1 DEF StagesInv
  <1>3. \A p \in Entries : stage'[p] > 1 => p \in Parts'
    BY <1>0, <1>2 DEF StagesInv
  <1>4. \A k : ~ Deleted(k)'
    BY <1>0 DEF Deleted
  <1>5. \A p \in Entries : p \in Parts' => stage'[p] = IF Deleted(p[1])' THEN 6 ELSE 5
    <2> SUFFICES ASSUME NEW p \in Entries, p \in Parts' PROVE stage'[p] = 5 /\ ~ Deleted(p[1])'
      OBVIOUS
    <2>1. PICK k : k = p[1]
      OBVIOUS
    <2> QED
      BY <1>0, <1>2, <1>4, <2>1
  <1>6. NetworkStages'
    BY <1>0 DEF NetworkStages
  <1> QED
    BY <1>0, <1>2, <1>3, <1>5, <1>6 DEF StagesInv

LEMMA DeletingKinds ==
    /\ Len(Deleting) = 10
    /\ \A m, n \in 1 .. 10 : Deleting[m] = Deleting[n] => m = n
  BY DEF Deleting

LEMMA DeleteStages ==
    ASSUME IInv, StagesInv, DeleteXML \/ DeleteParts
    PROVE  StagesInv'
  <1>0. /\ pc = "delete" /\ input' = input /\ Parts' = Parts /\ section \in 1 .. 10
        /\ stage \in [Entries -> 1 .. 6] /\ \A p \in Entries : stage[p] > 1 => p \in Parts
        /\ \A p \in Entries : p \in Parts => stage[p] = IF Deleted(p[1]) THEN 6 ELSE 5
    <2>1. pc = "delete" /\ input' = input
      BY DEF DeleteXML, DeleteParts, Keep
    <2> QED
      BY <2>1, Unmoved, DeletingKinds DEF IInv, Types, StagesInv
  <1>1. CASE DeleteXML
    <2>1. /\ xml' = FALSE /\ UNCHANGED <<pc, section, i, stage>>
      BY <1>1 DEF DeleteXML
    <2>2. \A k : Deleted(k)' = Deleted(k)
      BY <2>1 DEF Deleted
    <2>3. \A p \in Entries : p \in Parts' => stage'[p] = IF Deleted(p[1])' THEN 6 ELSE 5
      <3> SUFFICES ASSUME NEW p \in Entries, p \in Parts
                   PROVE  stage'[p] = IF Deleted(p[1])' THEN 6 ELSE 5
        BY <1>0
      <3>1. PICK k : k = p[1]
        OBVIOUS
      <3> QED
        BY <1>0, <2>1, <2>2, <3>1
    <2>4. NetworkStages'
      BY <1>0, <2>1 DEF NetworkStages
    <2> QED
      BY <1>0, <2>1, <2>3, <2>4 DEF StagesInv
  <1>2. CASE DeleteParts
    <2> PICK kind : kind = Deleting[section]
      OBVIOUS
    <2>1. /\ ~ xml /\ xml' = xml
          /\ stage' = [p \in Entries |-> IF p \in Parts /\ p[1] = kind THEN stage[p] + 1 ELSE stage[p]]
          /\ \/ section < Len(Deleting) /\ section' = section + 1 /\ pc' = pc
             \/ pc' = "ended"
      BY <1>2, Zenon DEF DeleteParts, Keep, Exit
    <2>2. ~ Deleted(kind)
      BY <1>0, DeletingKinds DEF Deleted
    <2>3. \A p \in Entries : p \in Parts => stage'[p] = IF p[1] = kind \/ Deleted(p[1]) THEN 6 ELSE 5
      BY <1>0, <2>1, <2>2
    <2>4. \A p \in Entries : p \notin Parts => stage'[p] = stage[p]
      BY <1>0, <2>1
    <2>5. stage' \in [Entries -> 1 .. 6]
      <3>1. \A p \in Entries : stage'[p] \in 1 .. 6
        BY <1>0, <2>3, <2>4
      <3> QED
        BY <2>1, <3>1
    <2>6. \A p \in Entries : stage'[p] > 1 => p \in Parts
      BY <1>0, <2>4
    <2>7. CASE pc' = "ended"
      BY <1>0, <2>5, <2>6, <2>7 DEF StagesInv, NetworkStages
    <2>8. CASE section' = section + 1 /\ pc' = pc
      <3>1. \A k : Deleted(k)' <=> Deleted(k) \/ k = kind
        BY <1>0, <2>8 DEF Deleted
      <3>2. \A p \in Entries : p \in Parts => stage'[p] = IF Deleted(p[1])' THEN 6 ELSE 5
        <4> SUFFICES ASSUME NEW p \in Entries, p \in Parts
                     PROVE  stage'[p] = IF Deleted(p[1])' THEN 6 ELSE 5
          OBVIOUS
        <4>1. PICK k : k = p[1]
          OBVIOUS
        <4> QED
          BY <2>3, <3>1, <4>1
      <3>3. NetworkStages'
        BY <1>0, <2>8 DEF NetworkStages
      <3> QED
        BY <1>0, <2>1, <2>5, <2>6, <2>8, <3>2, <3>3 DEF StagesInv
    <2> QED
      BY <2>1, <2>7, <2>8
  <1> QED
    BY <1>1, <1>2

LEMMA StepStages == IInv /\ StagesInv /\ [Next]_vars => StagesInv'
  <1> SUFFICES ASSUME IInv, StagesInv, [Next]_vars PROVE StagesInv'
    OBVIOUS
  <1>1. CASE UNCHANGED vars
    BY <1>1, StagesStay DEF vars
  <1>2. CASE CheckNumbers \/ ReadEntry \/ EndSection \/ ReadSingle
    <2>1. UNCHANGED <<input, stage>>
      BY <1>2 DEF CheckNumbers, ReadEntry, EndSection, ReadSingle, Keep
    <2>2. pc' \in Reading \cup {"ended"}
      <3>1. CASE CheckNumbers
        BY <3>1 DEF CheckNumbers, Exit, Reading
      <3>2. CASE ReadEntry
        BY <3>2 DEF ReadEntry, PassOver, Exit, Reading
      <3>3. CASE EndSection
        BY <3>3 DEF EndSection, Reading
      <3>4. CASE ReadSingle
        BY <3>4 DEF ReadSingle, Exit, Reading
      <3> QED
        BY <1>2, <3>1, <3>2, <3>3, <3>4
    <2> QED
      BY <2>1, <2>2, StagesStay DEF Reading, PhaseSet
  <1>3. CASE CheckPrivateL2
    <2>1. pc = "private" /\ UNCHANGED <<input, stage>> /\ pc' \in {"ended", "build"}
      <3>1. Phases[1] = "build"
        BY DEF Phases
      <3> QED
        BY <1>3, <3>1 DEF CheckPrivateL2, Exit, Keep
    <2>2. \A p \in Entries : stage[p] = 1
      BY <2>1 DEF IInv, Built, Reading
    <2> QED
      BY <2>1, <2>2, StagesStay DEF PhaseSet
  <1>4. CASE Ended
    BY <1>1, <1>4 DEF Ended
  <1> QED
    BY <1>1, <1>2, <1>3, <1>4, BuildStages, EndKindStages, NetworkStepStages, DisplayStages, DeleteStages DEF Next

(* TypeOK, for every file that, promising no core, lists no more cores than *)
(* there are entries (CoresEnd): though the sections, the kinds, the        *)
(* networks' three loops and the deletion count with the same i and         *)
(* section, no index passes the entries, only parts of this chip are ever   *)
(* constructed, and each goes through its stages once and in order.         *)
THEOREM TypesKept == ASSUME CoresEnd PROVE Spec => []TypeOK
  <1> DEFINE Inv == IInv /\ IndexInv /\ StagesInv /\ status \in Ends /\ Misread
  <1>1. Init => Inv
    <2>1. Init => status \in Ends /\ Misread
      BY DEF Init, Ends, Misread
    <2> QED
      BY <2>1, InitInv, InitIndex, InitStages
  <1>2. Inv /\ [Next]_vars => Inv'
    BY StepInv, StepIndex, StepStages, StatusKept, MisreadKept
  <1>3. Inv => TypeOK
    <2> SUFFICES ASSUME Inv PROVE TypeOK
      OBVIOUS
    <2>1. {Phases[n] : n \in DOMAIN Phases} = PhaseSet
      BY DEF Phases, PhaseSet
    <2>2. pc \in {"check", "arrays", "singles", "private", "delete", "ended"} \cup PhaseSet
      BY DEF IInv, Types, Reading
    <2>3. input \in Inputs /\ section \in 1 .. Len(Deleting)
      BY DEF IInv, Types
    <2>4. /\ i \in 0 .. MAX_NUM_CORES /\ given \subseteq Entries
          /\ misread \subseteq 0 .. MAX_NUM_CORES - 1
      BY DEF IndexInv, Misread
    <2>5. stage \in [Entries -> 1 .. 6] /\ \A p \in Entries : stage[p] > 1 => p \in Parts
      BY DEF StagesInv
    <2>6. status \in {"running", "exit 0", "exit 1", "return 0"}
      BY DEF Ends
    <2> QED
      BY <2>1, <2>2, <2>3, <2>4, <2>5, <2>6, Zenon DEF TypeOK
  <1> QED
    BY <1>1, <1>2, <1>3, PTL DEF Spec

----------------------------------------------------------------------------
(* The parts.  What McpatMain leaves to each part it constructs, computes, *)
(* shows and deletes is McpatPart's: one part, of any valid configuration, *)
(* with variables of its own.                                              *)

(* The units of each part, as sets. *)
CoreParts == {"l2cache", "BPT", "ifu", "lsu", "mmu", "rfu", "scheu", "exeu", "fp_u", "mul",
              "exu", "rnu", "core"}
PartKinds == {"core", "L2", "L3", "L1Directory", "L2Directory", "mc", "noc", "niu", "pcie",
              "flash"}

(* A list that visits each of the units once. *)
Visits(o, S) ==
    /\ DOMAIN o = 1 .. Len(o) /\ Len(o) \in 1 .. 13
    /\ \A m, n \in DOMAIN o : o[m] = o[n] => m = n
    /\ \A n \in DOMAIN o : o[n] \in S
    /\ \A u \in S : \E n \in DOMAIN o : o[n] = u

(* Every phase visits every unit of the part once. *)
LEMMA CoreVisits ==
    ASSUME NEW p \in 1 .. 5
    PROVE  Visits(CoreOrder(p), CoreParts)
  <1>1. CASE p = 1
    <2>1. CoreOrder(p) = <<"l2cache", "BPT", "ifu", "lsu", "mmu", "rfu", "scheu", "exeu",
                           "fp_u", "mul", "exu", "rnu", "core">>
      BY <1>1 DEF CoreOrder
    <2> QED
      BY <2>1 DEF Visits, CoreParts
  <1>2. CASE p \in {2, 3}
    <2>1. CoreOrder(p) = <<"BPT", "ifu", "lsu", "mmu", "rfu", "scheu", "exeu", "fp_u",
                           "mul", "exu", "rnu", "l2cache", "core">>
      BY <1>2 DEF CoreOrder
    <2> QED
      BY <2>1 DEF Visits, CoreParts
  <1>3. CASE p = 4
    <2>1. CoreOrder(p) = <<"BPT", "ifu", "rnu", "lsu", "mmu", "rfu", "scheu", "exeu", "fp_u",
                           "mul", "exu", "l2cache", "core">>
      BY <1>3 DEF CoreOrder
    <2> QED
      BY <2>1 DEF Visits, CoreParts
  <1>4. CASE p = 5
    <2>1. CoreOrder(p) = <<"BPT", "ifu", "lsu", "rnu", "mmu", "fp_u", "exeu", "mul", "rfu",
                           "scheu", "exu", "l2cache", "core">>
      BY <1>4 DEF CoreOrder
    <2> QED
      BY <2>1 DEF Visits, CoreParts
  <1> QED BY <1>1, <1>2, <1>3, <1>4

UnitsOf(part) ==
    CASE part = "core" -> CoreParts
      [] part = "mc"   -> {"frontend", "transecEngine", "PHY", "mc"}
      [] part = "noc"  -> {"router", "link_bus", "noc"}
      [] OTHER         -> {part}

LEMMA OrderVisits ==
    ASSUME NEW part \in PartKinds, NEW p \in 1 .. 5
    PROVE  Visits(Order(part, p), UnitsOf(part))
  <1>1. CASE part = "core"
    <2>1. Order(part, p) = CoreOrder(p) /\ UnitsOf(part) = CoreParts
      BY <1>1 DEF Order, UnitsOf
    <2> QED BY <2>1, CoreVisits
  <1>2. CASE part = "mc"
    <2>1. Order(part, p) = <<"frontend", "transecEngine", "PHY", "mc">>
          /\ UnitsOf(part) = {"frontend", "transecEngine", "PHY", "mc"}
      BY <1>2 DEF Order, UnitsOf
    <2> QED BY <2>1 DEF Visits
  <1>3. CASE part = "noc"
    <2>1. Order(part, p) = <<"router", "link_bus", "noc">>
          /\ UnitsOf(part) = {"router", "link_bus", "noc"}
      BY <1>3 DEF Order, UnitsOf
    <2> QED BY <2>1 DEF Visits
  <1>4. CASE part \notin {"core", "mc", "noc"}
    <2>1. Order(part, p) = <<part>> /\ UnitsOf(part) = {part}
      BY <1>4 DEF Order, UnitsOf
    <2> QED BY <2>1 DEF Visits
  <1> QED BY <1>1, <1>2, <1>3, <1>4

LEMMA UnitsAre ==
    ASSUME NEW part \in PartKinds
    PROVE  Units(part) = UnitsOf(part)
  BY OrderVisits DEF Units, Visits

ConfigOK == c \in Config /\ ValidConfig(c)

(* The units a phase has visited. *)
Seen(p) == IF phase > p THEN Units(c.part)
           ELSE IF phase = p THEN {Order(c.part, p)[n] : n \in 1 .. at - 1}
           ELSE {}
SeenFor(total) == IF total = "area" THEN Seen(1) ELSE IF total = "runtime" THEN Seen(3) ELSE Seen(2)

(* What a unit's constructor makes and its destructor frees, and the       *)
(* heights it assigns.                                                     *)
Made(u)  == Table(u).built \cup If(Exists(u), {u})
Freed(u) == Table(u).frees \cup If(u = c.part, {u})
Heights(u) ==
    CASE u = "scheu" -> ScheuHeights(c)
      [] u = "rfu" -> {<<u, "int_regfile_height">>, <<u, "fp_regfile_height">>}
      [] u = "lsu" -> {<<u, "lsq_height">>}
      [] u \in {"exeu", "fp_u", "mul"} -> FuHeight(u, c)
      [] OTHER -> {}

(* The array of a home node, of which OwnNumbers says nothing. *)
HomeArray == If(HomeNode(c), UniArray)

(* The names of a unit's leaves, whether built or not, and of the units    *)
(* below it; a functional unit, MCBackend and MCPHY are leaves themselves, *)
(* freed by the unit above.                                                *)
Leafs(u) ==
    CASE u \in {"l2cache", "L2", "L3", "L1Directory", "L2Directory"} ->
           UniArray \cup UniBuffers
      [] u = "BPT" -> Predictors
      [] u = "ifu" -> ICacheBuilt \cup {"IB", "BTB"} \cup Decoders
      [] u = "lsu" -> {"dcache.caches", "dcache.missb", "dcache.ifb", "dcache.prefetchb",
                      "dcache.wbb", "LSQ", "LoadQ"}
      [] u = "mmu" -> Tlbs
      [] u = "rfu" -> {"IRF", "FRF", "RFWIN"}
      [] u = "scheu" -> {"int_inst_window", "fp_inst_window", "ROB", "instruction_selection"}
      [] u = "exu" -> {"int_bypass", "intTagBypass", "int_mul_bypass", "intTag_mul_Bypass",
                      "fp_bypass", "fpTagBypass"}
      [] u = "rnu" -> FRATs \cup Checks \cup {"iRRAT", "fRRAT", "ifreeL", "ffreeL"}
      [] u = "core" -> CoreBuilt
      [] u = "frontend" -> FrontEndBuilt
      [] u = "niu" -> NiuBlocks
      [] u \in {"pcie", "flash"} -> {"ctrl", "SerDer"}
      [] u \in {"exeu", "fp_u", "mul", "transecEngine", "PHY", "router", "link_bus"} -> {u}
      [] OTHER -> {}
Lower(u) ==
    CASE u = "core" -> {"ifu", "lsu", "mmu", "exu", "rnu", "l2cache"}
      [] u = "exu"  -> {"rfu", "scheu", "exeu", "fp_u", "mul"}
      [] u = "ifu"  -> {"BPT"}
      [] u = "mc"   -> {"frontend", "transecEngine", "PHY"}
      [] OTHER      -> {}
OwnLeaf == {"exeu", "fp_u", "mul", "transecEngine", "PHY"}

(* The tables of one unit agree: what it uses it has built, reset and set  *)
(* in the same pass; what it owes a total it adds, and not again; what it  *)
(* shows and frees it has built, and it frees all.                         *)
StatsAgree(u) ==
    /\ \A pass \in Passes :
         Leaves(Table(u).stats[pass]) \subseteq Table(u).built
    /\ Leaves(Table(u).uses) \subseteq Table(u).built
    /\ Leaves(Table(u).uses) \subseteq Table(u).resets
    /\ \A pass \in Passes : \A f \in Table(u).uses :
           f[1] \in HomeArray \/ f \in Table(u).stats[pass]
SumsAgree(u) ==
    \A total \in PartTotals :
       /\ Table(u).sums[total] \cup Again(u, total)
              \subseteq Table(u).built \cup Below(u) \cup PipeShares(5)
       /\ Owed(u, total) \subseteq Table(u).sums[total]
       /\ Owed(u, total) \cap Again(u, total) = {}
FreesAgree(u) ==
    /\ Table(u).shows \subseteq Table(u).built \cup Below(u)
    /\ Below(u) \subseteq Table(u).frees
    /\ Table(u).frees \subseteq Table(u).built \cup Below(u)
    /\ \A x \in Table(u).built : x \in Table(u).frees \/ (x = u /\ Exists(u))
    /\ Below(u) \subseteq Units(c.part)
    /\ Table(u).built \subseteq Leafs(u)
    /\ Table(u).frees \subseteq Lower(u) \cup (Leafs(u) \ OwnLeaf)
    /\ u = "core" => "corepipe" \in Table(u).built
Agree(u) == StatsAgree(u) /\ SumsAgree(u) /\ FreesAgree(u)

(* They do, unit by unit, under every configuration. *)
LEMMA FetchAgrees ==
    ASSUME ConfigOK, c.part = "core", Units(c.part) = UnitsOf(c.part)
    PROVE  Agree("ifu")
  <1>1. /\ Table("ifu").built = IfuBuilt(c)
        /\ Table("ifu").stats = [TDP |-> IfuStats(c), RTP |-> IfuStats(c)]
        /\ Table("ifu").resets = IfuResets(c) /\ Table("ifu").uses = IfuUses(c)
        /\ \A total \in PartTotals : Table("ifu").sums[total] = IfuSums(c)
        /\ Table("ifu").shows = IfuShows(c) /\ Table("ifu").frees = IfuFrees(c)
    BY DEF Table, Columns, Every
  <1>2. /\ Below("ifu") = If(c.prediction, {"BPT"})
        /\ \A total \in PartTotals : Again("ifu", total) = {}
    BY DEF Below, Again
  <1>3. StatsAgree("ifu")
    BY <1>1 DEF StatsAgree, Passes, Leaves, IfuBuilt, IfuStats, IfuResets, IfuUses,
       ICacheBuilt, If, Decoders, On, CacheReads, IfuBuffers, RW
  <1>4. SumsAgree("ifu")
    BY <1>1, <1>2 DEF SumsAgree, Owed, If, IfuBuilt, IfuSums, ICacheBuilt, Decoders
  <1>5. FreesAgree("ifu")
    BY <1>1, <1>2 DEF FreesAgree, Leafs, Lower, OwnLeaf, UnitsOf, CoreParts, IfuBuilt,
       IfuShows, IfuFrees, If, ICacheBuilt, Decoders
  <1> QED
    BY <1>3, <1>4, <1>5 DEF Agree

LEMMA PredictorAgrees ==
    ASSUME ConfigOK, c.part = "core", Units(c.part) = UnitsOf(c.part)
    PROVE  Agree("BPT")
  <1>1. /\ Table("BPT").built = BptBuilt(c)
        /\ Table("BPT").stats = [TDP |-> BptStats(c), RTP |-> BptStats(c)]
        /\ Table("BPT").resets = BptResets(c) /\ Table("BPT").uses = BptUses(c)
        /\ \A total \in PartTotals : Table("BPT").sums[total] = BptSums(c)
        /\ Table("BPT").shows = BptShows(c) /\ Table("BPT").frees = BptFrees(c)
    BY DEF Table, Columns, Every
  <1>2. Below("BPT") = {} /\ \A total \in PartTotals : Again("BPT", total) = {}
    BY DEF Below, Again
  <1>3. StatsAgree("BPT")
    BY <1>1 DEF StatsAgree, Passes, Leaves, BptBuilt, BptStats, BptResets, BptUses, If,
       Predictors, On, RW
  <1>4. SumsAgree("BPT")
    BY <1>1, <1>2 DEF SumsAgree, Owed, If, BptBuilt, BptSums, Predictors
  <1>5. FreesAgree("BPT")
    BY <1>1, <1>2 DEF FreesAgree, Leafs, Lower, OwnLeaf, BptBuilt, BptShows, BptFrees, If,
       Predictors
  <1> QED
    BY <1>3, <1>4, <1>5 DEF Agree

LEMMA LoadStoreAgrees ==
    ASSUME ConfigOK, c.part = "core", Units(c.part) = UnitsOf(c.part)
    PROVE  Agree("lsu")
  <1>1. /\ Table("lsu").built = LsuBuilt(c)
        /\ Table("lsu").stats = [TDP |-> LsuStats(c), RTP |-> LsuStats(c)]
        /\ Table("lsu").resets = LsuResets(c) /\ Table("lsu").uses = LsuUses(c)
        /\ \A total \in PartTotals : Table("lsu").sums[total] = LsuSums(c)
        /\ Table("lsu").shows = LsuShows(c) /\ Table("lsu").frees = LsuFrees(c)
    BY DEF Table, Columns, Every
  <1>2. Below("lsu") = {} /\ \A total \in PartTotals : Again("lsu", total) = {}
    BY DEF Below, Again
  <1>3. StatsAgree("lsu")
    BY <1>1 DEF StatsAgree, Passes, Leaves, LsuBuilt, LsuStats, LsuResets, LsuUses,
       DCacheBuilt, LoadQueue, On, CacheReads, CacheWrites, LsuBuffers, RW, If
  <1>4. SumsAgree("lsu")
    BY <1>1, <1>2 DEF SumsAgree, Owed, If, LsuBuilt, LsuSums, DCacheBuilt, LoadQueue
  <1>5. FreesAgree("lsu")
    BY <1>1, <1>2 DEF FreesAgree, Leafs, Lower, OwnLeaf, LsuBuilt, LsuShows, LsuFrees,
       DCacheBuilt, LoadQueue, If
  <1> QED
    BY <1>3, <1>4, <1>5 DEF Agree

LEMMA TlbAgrees ==
    ASSUME ConfigOK, c.part = "core", Units(c.part) = UnitsOf(c.part)
    PROVE  Agree("mmu")
  <1>1. /\ Table("mmu").built = MmuBuilt
        /\ Table("mmu").stats = [TDP |-> MmuStats, RTP |-> MmuStats]
        /\ Table("mmu").resets = MmuResets /\ Table("mmu").uses = MmuUses
        /\ \A total \in PartTotals : Table("mmu").sums[total] = MmuSums
        /\ Table("mmu").shows = MmuShows /\ Table("mmu").frees = MmuFrees
    BY DEF Table, Columns, Every
  <1>2. Below("mmu") = {} /\ \A total \in PartTotals : Again("mmu", total) = {}
    BY DEF Below, Again
  <1>3. StatsAgree("mmu")
    BY <1>1 DEF StatsAgree, Passes, Leaves, MmuBuilt, MmuStats, MmuResets, MmuUses, Tlbs,
       On, CacheReads
  <1>4. SumsAgree("mmu")
    BY <1>1, <1>2 DEF SumsAgree, Owed, If, MmuBuilt, MmuSums, Tlbs
  <1>5. FreesAgree("mmu")
    BY <1>1, <1>2 DEF FreesAgree, Leafs, Lower, OwnLeaf, MmuBuilt, MmuShows, MmuFrees, Tlbs
  <1> QED
    BY <1>3, <1>4, <1>5 DEF Agree

LEMMA RegisterFileAgrees ==
    ASSUME ConfigOK, c.part = "core", Units(c.part) = UnitsOf(c.part)
    PROVE  Agree("rfu")
  <1>1. /\ Table("rfu").built = RfuBuilt(c)
        /\ Table("rfu").stats = [TDP |-> RfuStats(c), RTP |-> RfuStats(c)]
        /\ Table("rfu").resets = RfuResets(c) /\ Table("rfu").uses = RfuUses(c)
        /\ \A total \in PartTotals : Table("rfu").sums[total] = RfuSums(c)
        /\ Table("rfu").shows = RfuShows(c) /\ Table("rfu").frees = RfuFrees(c)
    BY DEF Table, Columns, Every
  <1>2. Below("rfu") = {} /\ \A total \in PartTotals : Again("rfu", total) = {}
    BY DEF Below, Again
  <1>3. StatsAgree("rfu")
    BY <1>1 DEF StatsAgree, Passes, Leaves, RfuBuilt, RfuStats, RfuResets, RfuUses,
       RegFiles, On, RW, If
  <1>4. SumsAgree("rfu")
    BY <1>1, <1>2 DEF SumsAgree, Owed, If, RfuBuilt, RfuSums, RegFiles
  <1>5. FreesAgree("rfu")
    BY <1>1, <1>2 DEF FreesAgree, Leafs, Lower, OwnLeaf, RfuBuilt, RfuShows, RfuFrees,
       RegFiles, If
  <1> QED
    BY <1>3, <1>4, <1>5 DEF Agree

LEMMA SchedulerAgrees ==
    ASSUME ConfigOK, c.part = "core", Units(c.part) = UnitsOf(c.part)
    PROVE  Agree("scheu")
  <1>1. /\ Table("scheu").built = ScheuBuilt(c)
        /\ Table("scheu").stats = [TDP |-> ScheuStats(c), RTP |-> ScheuStats(c)]
        /\ Table("scheu").resets = ScheuResets(c)
        /\ Table("scheu").uses = ScheuUses(c)
        /\ \A total \in PartTotals : Table("scheu").sums[total] = ScheuSums(c, total)
        /\ Table("scheu").shows = ScheuShows(c)
        /\ Table("scheu").frees = ScheuFrees(c)
    BY DEF Table, Columns, Every
  <1>2. /\ Below("scheu") = {}
        /\ \A total \in PartTotals : Again("scheu", total) = ScheuAgain(c, total)
    BY DEF Below, Again
  <1>3. StatsAgree("scheu")
    BY <1>1 DEF StatsAgree, Passes, Leaves, ScheuBuilt, ScheuStats, ScheuResets, ScheuUses,
       Windows, ReorderBuffer, Selection, On, RWS, RW, If
  <1>4. SumsAgree("scheu")
    BY <1>1, <1>2 DEF SumsAgree, Owed, If, Uncounted, PartTotals, ScheuBuilt, ScheuSums,
       ScheuAgain, Windows, ReorderBuffer, Selection
  <1>5. FreesAgree("scheu")
    BY <1>1, <1>2 DEF FreesAgree, Leafs, Lower, OwnLeaf, ScheuBuilt, ScheuShows, ScheuFrees,
       Windows, ReorderBuffer, Selection, If
  <1> QED
    BY <1>3, <1>4, <1>5 DEF Agree

LEMMA AluAgrees ==
    ASSUME ConfigOK, c.part = "core", Units(c.part) = UnitsOf(c.part)
    PROVE  Agree("exeu")
  <1>1. /\ Table("exeu").built = FuBuilt("exeu", c)
        /\ Table("exeu").stats
               = [TDP |-> FuStats("exeu", c), RTP |-> FuStats("exeu", c)]
        /\ Table("exeu").resets = FuResets("exeu", c)
        /\ Table("exeu").uses = FuUses("exeu", c)
        /\ \A total \in PartTotals : Table("exeu").sums[total] = FuBuilt("exeu", c)
        /\ Table("exeu").shows = FuShows("exeu", c) /\ Table("exeu").frees = {}
    BY DEF Table, Columns, Every
  <1>2. Below("exeu") = {} /\ \A total \in PartTotals : Again("exeu", total) = {}
    BY DEF Below, Again
  <1>3. StatsAgree("exeu")
    BY <1>1 DEF StatsAgree, Passes, Leaves, FuBuilt, FuStats, FuResets, FuUses, Fu, On, If
  <1>4. SumsAgree("exeu")
    BY <1>1, <1>2 DEF SumsAgree, Owed, If, FuBuilt, Fu
  <1>5. FreesAgree("exeu")
    <2>1. "exeu" \in Table("exeu").built => Exists("exeu")
      <3>1. "exu" \in Units(c.part) /\ Below("exu") = ExuUnits(c)
        BY DEF Below, UnitsOf, CoreParts
      <3> QED
        BY <1>1, <3>1 DEF Exists, FuBuilt, ExuUnits, Fu, If
    <2> QED
      BY <1>1, <1>2, <2>1 DEF FreesAgree, Leafs, Lower, OwnLeaf, FuBuilt, FuShows, Fu, If
  <1> QED
    BY <1>3, <1>4, <1>5 DEF Agree

LEMMA FpuAgrees ==
    ASSUME ConfigOK, c.part = "core", Units(c.part) = UnitsOf(c.part)
    PROVE  Agree("fp_u")
  <1>1. /\ Table("fp_u").built = FuBuilt("fp_u", c)
        /\ Table("fp_u").stats
               = [TDP |-> FuStats("fp_u", c), RTP |-> FuStats("fp_u", c)]
        /\ Table("fp_u").resets = FuResets("fp_u", c)
        /\ Table("fp_u").uses = FuUses("fp_u", c)
        /\ \A total \in PartTotals : Table("fp_u").sums[total] = FuBuilt("fp_u", c)
        /\ Table("fp_u").shows = FuShows("fp_u", c) /\ Table("fp_u").frees = {}
    BY DEF Table, Columns, Every
  <1>2. Below("fp_u") = {} /\ \A total \in PartTotals : Again("fp_u", total) = {}
    BY DEF Below, Again
  <1>3. StatsAgree("fp_u")
    BY <1>1 DEF StatsAgree, Passes, Leaves, FuBuilt, FuStats, FuResets, FuUses, Fu, On, If
  <1>4. SumsAgree("fp_u")
    BY <1>1, <1>2 DEF SumsAgree, Owed, If, FuBuilt, Fu
  <1>5. FreesAgree("fp_u")
    <2>1. "fp_u" \in Table("fp_u").built => Exists("fp_u")
      <3>1. "exu" \in Units(c.part) /\ Below("exu") = ExuUnits(c)
        BY DEF Below, UnitsOf, CoreParts
      <3> QED
        BY <1>1, <3>1 DEF Exists, FuBuilt, ExuUnits, Fu, If
    <2> QED
      BY <1>1, <1>2, <2>1 DEF FreesAgree, Leafs, Lower, OwnLeaf, FuBuilt, FuShows, Fu, If
  <1> QED
    BY <1>3, <1>4, <1>5 DEF Agree

LEMMA MultiplierAgrees ==
    ASSUME ConfigOK, c.part = "core", Units(c.part) = UnitsOf(c.part)
    PROVE  Agree("mul")
  <1>1. /\ Table("mul").built = FuBuilt("mul", c)
        /\ Table("mul").stats
               = [TDP |-> FuStats("mul", c), RTP |-> FuStats("mul", c)]
        /\ Table("mul").resets = FuResets("mul", c)
        /\ Table("mul").uses = FuUses("mul", c)
        /\ \A total \in PartTotals : Table("mul").sums[total] = FuBuilt("mul", c)
        /\ Table("mul").shows = FuShows("mul", c) /\ Table("mul").frees = {}
    BY DEF Table, Columns, Every
  <1>2. Below("mul") = {} /\ \A total \in PartTotals : Again("mul", total) = {}
    BY DEF Below, Again
  <1>3. StatsAgree("mul")
    BY <1>1 DEF StatsAgree, Passes, Leaves, FuBuilt, FuStats, FuResets, FuUses, Fu, On, If
  <1>4. SumsAgree("mul")
    BY <1>1, <1>2 DEF SumsAgree, Owed, If, FuBuilt, Fu
  <1>5. FreesAgree("mul")
    <2>1. "mul" \in Table("mul").built => Exists("mul")
      <3>1. "exu" \in Units(c.part) /\ Below("exu") = ExuUnits(c)
        BY DEF Below, UnitsOf, CoreParts
      <3> QED
        BY <1>1, <3>1 DEF Exists, FuBuilt, ExuUnits, Fu, If
    <2> QED
      BY <1>1, <1>2, <2>1 DEF FreesAgree, Leafs, Lower, OwnLeaf, FuBuilt, FuShows, Fu, If
  <1> QED
    BY <1>3, <1>4, <1>5 DEF Agree

LEMMA ExecutionAgrees ==
    ASSUME ConfigOK, c.part = "core", Units(c.part) = UnitsOf(c.part)
    PROVE  Agree("exu")
  <1>1. /\ Table("exu").built = Bypasses(c)
        /\ Table("exu").stats = [TDP |-> {}, RTP |-> {}]
        /\ Table("exu").resets = {} /\ Table("exu").uses = {}
        /\ \A total \in PartTotals : Table("exu").sums[total] = ExuSums(c)
        /\ Table("exu").shows = ExuShows(c) /\ Table("exu").frees = ExuFrees(c)
    BY DEF Table, Columns, Every
  <1>2. /\ Below("exu") = ExuUnits(c)
        /\ \A total \in PartTotals : Again("exu", total) = {}
    BY DEF Below, Again
  <1>3. StatsAgree("exu")
    BY <1>1 DEF StatsAgree, Passes, Leaves, Bypasses, IntBypasses, MulBypasses, FpBypasses,
       If
  <1>4. SumsAgree("exu")
    BY <1>1, <1>2 DEF SumsAgree, Owed, If, Bypasses, ExuSums, ExuUnits, IntBypasses,
       MulBypasses, FpBypasses
  <1>5. FreesAgree("exu")
    BY <1>1, <1>2 DEF FreesAgree, Leafs, Lower, OwnLeaf, UnitsOf, CoreParts, Bypasses,
       ExuShows, ExuFrees, ExuUnits, IntBypasses, MulBypasses, FpBypasses, If
  <1> QED
    BY <1>3, <1>4, <1>5 DEF Agree

LEMMA RenamingAgrees ==
    ASSUME ConfigOK, c.part = "core", Units(c.part) = UnitsOf(c.part)
    PROVE  Agree("rnu")
  <1>1. /\ Table("rnu").built = RnuBuilt(c)
        /\ Table("rnu").stats = [TDP |-> RnuPeakStats(c), RTP |-> RnuRuntimeStats(c)]
        /\ Table("rnu").resets = RnuResets(c) /\ Table("rnu").uses = RnuUses(c)
        /\ \A total \in PartTotals : Table("rnu").sums[total] = RnuSums(c, total)
        /\ Table("rnu").shows = RnuShows(c) /\ Table("rnu").frees = RnuFrees(c)
    BY DEF Table, Columns, Every
  <1>2. Below("rnu") = {} /\ \A total \in PartTotals : Again("rnu", total) = {}
    BY DEF Below, Again
  <1>3. StatsAgree("rnu")
    BY <1>1 DEF StatsAgree, Passes, Leaves, ConfigOK, Config, RnuBuilt, RnuPeakStats,
       RnuRuntimeStats, RnuResets, RnuUses, FrontBuiltPRF, FrontBuiltRS, RRATs, FreeLists,
       If, OOO, Checks, On, RenameArrays, RW, Searched, PRF, FRATs, RS, FrontTables
  <1>4. SumsAgree("rnu")
    BY <1>1, <1>2 DEF SumsAgree, Owed, If, Uncounted, PartTotals, ConfigOK, Config,
       RnuBuilt, RnuSums, FrontBuiltPRF, FrontBuiltRS, RRATs, FreeLists, OOO, Checks,
       RenameArrays, PRF, FRATs, RS, FrontTables
  <1>5. FreesAgree("rnu")
    BY <1>1, <1>2 DEF FreesAgree, Leafs, Lower, OwnLeaf, ConfigOK, Config, RnuBuilt,
       RnuShows, RnuFrees, FrontBuiltPRF, FrontBuiltRS, RRATs, FreeLists, If, OOO, Checks,
       RenameArrays, PRF, FRATs, RS, FrontTables
  <1> QED
    BY <1>3, <1>4, <1>5 DEF Agree

LEMMA CoreAgrees ==
    ASSUME ConfigOK, c.part = "core", Units(c.part) = UnitsOf(c.part)
    PROVE  Agree("core")
  <1>1. /\ Table("core").built = CoreBuilt
        /\ Table("core").stats = [TDP |-> {}, RTP |-> {}]
        /\ Table("core").resets = {} /\ Table("core").uses = {}
        /\ \A total \in PartTotals : Table("core").sums[total] = CoreSums(c, total)
        /\ Table("core").shows = CoreShows(c)
        /\ Table("core").frees = CoreFrees(c)
    BY DEF Table, Columns, Every
  <1>2. /\ Below("core") = CoreUnits(c)
        /\ \A total \in PartTotals : Again("core", total) = {}
    BY DEF Below, Again
  <1>3. StatsAgree("core")
    BY <1>1 DEF StatsAgree, Passes, Leaves, CoreBuilt
  <1>4. SumsAgree("core")
    BY <1>1, <1>2 DEF SumsAgree, Owed, If, PartTotals, PipeShares, num_units, CoreBuilt,
       CoreSums, CoreUnits, CoreArea, CorePeak, CoreRuntime, AddedShares
  <1>5. FreesAgree("core")
    BY <1>1, <1>2 DEF FreesAgree, Leafs, Lower, OwnLeaf, UnitsOf, CoreParts, CoreBuilt,
       CoreShows, CoreFrees, CoreUnits, If
  <1> QED
    BY <1>3, <1>4, <1>5 DEF Agree

LEMMA FrontEndAgrees ==
    ASSUME ConfigOK, c.part = "mc", Units(c.part) = UnitsOf(c.part)
    PROVE  Agree("frontend")
  <1>1. /\ Table("frontend").built = FrontEndBuilt
        /\ Table("frontend").stats = [TDP |-> FrontEndStats, RTP |-> FrontEndStats]
        /\ Table("frontend").resets = FrontEndResets
        /\ Table("frontend").uses = FrontEndUses
        /\ \A total \in PartTotals : Table("frontend").sums[total] = FrontEndSums
        /\ Table("frontend").shows = FrontEndShows
        /\ Table("frontend").frees = FrontEndFrees
    BY DEF Table, Columns, Every
  <1>2. Below("frontend") = {} /\ \A total \in PartTotals : Again("frontend", total) = {}
    BY DEF Below, Again
  <1>3. StatsAgree("frontend")
    BY <1>1 DEF StatsAgree, Passes, Leaves, FrontEndBuilt, FrontEndStats, FrontEndResets,
       FrontEndUses, FrontEndBuffers, On, RW
  <1>4. SumsAgree("frontend")
    BY <1>1, <1>2 DEF SumsAgree, Owed, If, Uncounted, FrontEndBuilt, FrontEndSums,
       FrontEndBuffers
  <1>5. FreesAgree("frontend")
    BY <1>1, <1>2 DEF FreesAgree, Leafs, Lower, OwnLeaf, FrontEndBuilt, FrontEndShows,
       FrontEndFrees, FrontEndBuffers
  <1> QED
    BY <1>3, <1>4, <1>5 DEF Agree

LEMMA BackendAgrees ==
    ASSUME ConfigOK, c.part = "mc", Units(c.part) = UnitsOf(c.part)
    PROVE  Agree("transecEngine")
  <1>1. /\ Table("transecEngine").built = {"transecEngine"}
        /\ Table("transecEngine").stats
               = [TDP |-> BackendStats, RTP |-> BackendStats]
        /\ Table("transecEngine").resets = {"transecEngine"}
        /\ Table("transecEngine").uses = BackendUses
        /\ \A total \in PartTotals : Table("transecEngine").sums[total] = {"transecEngine"}
        /\ Table("transecEngine").shows = {"transecEngine"}
        /\ Table("transecEngine").frees = {}
    BY DEF Table, Columns, Every
  <1>2. /\ Below("transecEngine") = {}
        /\ \A total \in PartTotals : Again("transecEngine", total) = {}
    BY DEF Below, Again
  <1>3. StatsAgree("transecEngine")
    BY <1>1 DEF StatsAgree, Passes, Leaves, BackendStats, BackendUses, On, RW
  <1>4. SumsAgree("transecEngine")
    BY <1>1, <1>2 DEF SumsAgree, Owed, If
  <1>5. FreesAgree("transecEngine")
    <2>1. "transecEngine" \in Table("transecEngine").built => Exists("transecEngine")
      <3>1. "mc" \in Units(c.part) /\ Below("mc") = McUnits(c)
        BY DEF Below, UnitsOf, CoreParts
      <3> QED
        BY <1>1, <3>1 DEF Exists, McUnits, Phy, If, HasPHY
    <2> QED
      BY <1>1, <1>2, <2>1 DEF FreesAgree, Leafs, Lower, OwnLeaf
  <1> QED
    BY <1>3, <1>4, <1>5 DEF Agree

LEMMA PhyAgrees ==
    ASSUME ConfigOK, c.part = "mc", Units(c.part) = UnitsOf(c.part)
    PROVE  Agree("PHY")
  <1>1. /\ Table("PHY").built = Phy(c)
        /\ Table("PHY").stats = [TDP |-> PhyStats(c), RTP |-> PhyStats(c)]
        /\ Table("PHY").resets = Phy(c) /\ Table("PHY").uses = PhyUses(c)
        /\ \A total \in PartTotals : Table("PHY").sums[total] = Phy(c)
        /\ Table("PHY").shows = Phy(c) /\ Table("PHY").frees = {}
    BY DEF Table, Columns, Every
  <1>2. Below("PHY") = {} /\ \A total \in PartTotals : Again("PHY", total) = {}
    BY DEF Below, Again
  <1>3. StatsAgree("PHY")
    BY <1>1 DEF StatsAgree, Passes, Leaves, Phy, PhyStats, PhyUses, If, HasPHY, On, RW
  <1>4. SumsAgree("PHY")
    BY <1>1, <1>2 DEF SumsAgree, Owed, If, Phy, HasPHY
  <1>5. FreesAgree("PHY")
    <2>1. "PHY" \in Table("PHY").built => Exists("PHY")
      <3>1. "mc" \in Units(c.part) /\ Below("mc") = McUnits(c)
        BY DEF Below, UnitsOf, CoreParts
      <3> QED
        BY <1>1, <3>1 DEF Exists, Phy, McUnits, If, HasPHY
    <2> QED
      BY <1>1, <1>2, <2>1 DEF FreesAgree, Leafs, Lower, OwnLeaf, Phy, If, HasPHY
  <1> QED
    BY <1>3, <1>4, <1>5 DEF Agree

LEMMA ControllerAgrees ==
    ASSUME ConfigOK, c.part = "mc", Units(c.part) = UnitsOf(c.part)
    PROVE  Agree("mc")
  <1>1. /\ Table("mc").built = {}
        /\ Table("mc").stats = [TDP |-> {}, RTP |-> {}]
        /\ Table("mc").resets = {} /\ Table("mc").uses = {}
        /\ \A total \in PartTotals : Table("mc").sums[total] = McSums(c)
        /\ Table("mc").shows = McShows(c) /\ Table("mc").frees = McFrees(c)
    BY DEF Table, Columns, Every
  <1>2. /\ Below("mc") = McUnits(c)
        /\ \A total \in PartTotals : Again("mc", total) = {}
    BY DEF Below, Again
  <1>3. StatsAgree("mc")
    BY <1>1 DEF StatsAgree, Passes, Leaves
  <1>4. SumsAgree("mc")
    BY <1>1, <1>2 DEF SumsAgree, Owed, If, McSums, McUnits, Phy, HasPHY
  <1>5. FreesAgree("mc")
    BY <1>1, <1>2 DEF FreesAgree, Leafs, Lower, OwnLeaf, UnitsOf, CoreParts, McShows,
       McFrees, McUnits, Phy, If, HasPHY
  <1> QED
    BY <1>3, <1>4, <1>5 DEF Agree

LEMMA RouterAgrees ==
    ASSUME ConfigOK, c.part = "noc", Units(c.part) = UnitsOf(c.part)
    PROVE  Agree("router")
  <1>1. /\ Table("router").built = Router(c)
        /\ Table("router").stats = [TDP |-> {}, RTP |-> {}]
        /\ Table("router").resets = {} /\ Table("router").uses = {}
        /\ \A total \in PartTotals : Table("router").sums[total] = RouterSums(c)
        /\ Table("router").shows = RouterShows(c)
        /\ Table("router").frees = Router(c)
    BY DEF Table, Columns, Every, Blocks
  <1>2. Below("router") = {} /\ \A total \in PartTotals : Again("router", total) = {}
    BY DEF Below, Again
  <1>3. StatsAgree("router")
    BY <1>1 DEF StatsAgree, Passes, Leaves, Router, If
  <1>4. SumsAgree("router")
    BY <1>1, <1>2 DEF SumsAgree, Owed, If, Router, RouterSums
  <1>5. FreesAgree("router")
    BY <1>1, <1>2 DEF FreesAgree, Leafs, Lower, OwnLeaf, Router, RouterShows, If
  <1> QED
    BY <1>3, <1>4, <1>5 DEF Agree

LEMMA LinkAgrees ==
    ASSUME ConfigOK, c.part = "noc", Units(c.part) = UnitsOf(c.part)
    PROVE  Agree("link_bus")
  <1>1. /\ Table("link_bus").built = LinkBus(c)
        /\ Table("link_bus").stats = [TDP |-> {}, RTP |-> {}]
        /\ Table("link_bus").resets = {} /\ Table("link_bus").uses = {}
        /\ \A total \in PartTotals : Table("link_bus").sums[total] = LinkBusSums(c)
        /\ Table("link_bus").shows = LinkBusShows(c)
        /\ Table("link_bus").frees = LinkBus(c)
    BY DEF Table, Columns, Every, Blocks
  <1>2. Below("link_bus") = {} /\ \A total \in PartTotals : Again("link_bus", total) = {}
    BY DEF Below, Again
  <1>3. StatsAgree("link_bus")
    BY <1>1 DEF StatsAgree, Passes, Leaves, LinkBus, Bus, GlobalLinks, If
  <1>4. SumsAgree("link_bus")
    BY <1>1, <1>2 DEF SumsAgree, Owed, If, LinkBus, LinkBusSums, Bus, GlobalLinks
  <1>5. FreesAgree("link_bus")
    BY <1>1, <1>2 DEF FreesAgree, Leafs, Lower, OwnLeaf, LinkBus, LinkBusShows, Bus,
       GlobalLinks, If
  <1> QED
    BY <1>3, <1>4, <1>5 DEF Agree

LEMMA NetworkAgrees ==
    ASSUME ConfigOK, c.part = "noc", Units(c.part) = UnitsOf(c.part)
    PROVE  Agree("noc")
  <1>1. /\ Table("noc").built = {}
        /\ Table("noc").stats = [TDP |-> {}, RTP |-> {}]
        /\ Table("noc").resets = {} /\ Table("noc").uses = {}
        /\ \A total \in PartTotals : Table("noc").sums[total] = {}
        /\ Table("noc").shows = {} /\ Table("noc").frees = {}
    BY DEF Table, Columns, Every, Blocks
  <1>2. Below("noc") = {} /\ \A total \in PartTotals : Again("noc", total) = {}
    BY DEF Below, Again
  <1>3. StatsAgree("noc")
    BY <1>1 DEF StatsAgree, Passes, Leaves
  <1>4. SumsAgree("noc")
    BY <1>1, <1>2 DEF SumsAgree, Owed, If
  <1>5. FreesAgree("noc")
    BY <1>1, <1>2 DEF FreesAgree, Leafs, Lower, OwnLeaf
  <1> QED
    BY <1>3, <1>4, <1>5 DEF Agree

LEMMA NiuAgrees ==
    ASSUME ConfigOK, c.part = "niu", Units(c.part) = UnitsOf(c.part)
    PROVE  Agree("niu")
  <1>1. /\ Table("niu").built = NiuBlocks
        /\ Table("niu").stats = [TDP |-> {}, RTP |-> {}]
        /\ Table("niu").resets = {} /\ Table("niu").uses = {}
        /\ \A total \in PartTotals : Table("niu").sums[total] = NiuSums(total)
        /\ Table("niu").shows = NiuShows /\ Table("niu").frees = NiuBlocks
    BY DEF Table, Columns, Every, Blocks
  <1>2. /\ Below("niu") = {}
        /\ \A total \in PartTotals : Again("niu", total) = NiuAgain(total)
    BY DEF Below, Again
  <1>3. StatsAgree("niu")
    BY <1>1 DEF StatsAgree, Passes, Leaves, NiuBlocks
  <1>4. SumsAgree("niu")
    BY <1>1, <1>2 DEF SumsAgree, Owed, If, Uncounted, PartTotals, NiuBlocks, NiuSums,
       NiuAgain
  <1>5. FreesAgree("niu")
    BY <1>1, <1>2 DEF FreesAgree, Leafs, Lower, OwnLeaf, NiuBlocks, NiuShows
  <1> QED
    BY <1>3, <1>4, <1>5 DEF Agree

LEMMA PcieAgrees ==
    ASSUME ConfigOK, c.part = "pcie", Units(c.part) = UnitsOf(c.part)
    PROVE  Agree("pcie")
  <1>1. /\ Table("pcie").built = PcieBlocks(c)
        /\ Table("pcie").stats = [TDP |-> {}, RTP |-> {}]
        /\ Table("pcie").resets = {} /\ Table("pcie").uses = {}
        /\ \A total \in PartTotals : Table("pcie").sums[total] = PcieSums(c)
        /\ Table("pcie").shows = PcieShows(c)
        /\ Table("pcie").frees = PcieBlocks(c)
    BY DEF Table, Columns, Every, Blocks
  <1>2. Below("pcie") = {} /\ \A total \in PartTotals : Again("pcie", total) = {}
    BY DEF Below, Again
  <1>3. StatsAgree("pcie")
    BY <1>1 DEF StatsAgree, Passes, Leaves, PcieBlocks, If
  <1>4. SumsAgree("pcie")
    BY <1>1, <1>2 DEF SumsAgree, Owed, If, PcieBlocks, PcieSums
  <1>5. FreesAgree("pcie")
    BY <1>1, <1>2 DEF FreesAgree, Leafs, Lower, OwnLeaf, PcieBlocks, PcieShows, If
  <1> QED
    BY <1>3, <1>4, <1>5 DEF Agree

LEMMA FlashAgrees ==
    ASSUME ConfigOK, c.part = "flash", Units(c.part) = UnitsOf(c.part)
    PROVE  Agree("flash")
  <1>1. /\ Table("flash").built = FlashBlocks(c)
        /\ Table("flash").stats = [TDP |-> {}, RTP |-> {}]
        /\ Table("flash").resets = {} /\ Table("flash").uses = {}
        /\ \A total \in PartTotals : Table("flash").sums[total] = FlashSums(c)
        /\ Table("flash").shows = FlashShows(c)
        /\ Table("flash").frees = FlashBlocks(c)
    BY DEF Table, Columns, Every, Blocks
  <1>2. Below("flash") = {} /\ \A total \in PartTotals : Again("flash", total) = {}
    BY DEF Below, Again
  <1>3. StatsAgree("flash")
    BY <1>1 DEF StatsAgree, Passes, Leaves, FlashBlocks, If
  <1>4. SumsAgree("flash")
    BY <1>1, <1>2 DEF SumsAgree, Owed, If, FlashBlocks, FlashSums
  <1>5. FreesAgree("flash")
    BY <1>1, <1>2 DEF FreesAgree, Leafs, Lower, OwnLeaf, FlashBlocks, FlashShows, If
  <1> QED
    BY <1>3, <1>4, <1>5 DEF Agree

LEMMA CacheAgrees ==
    ASSUME ConfigOK, NEW u \in {"l2cache", "L2", "L3", "L1Directory", "L2Directory"},
           Below(u) = {}, \A total \in PartTotals : Again(u, total) = {},
           Table(u) = CacheTable
    PROVE  Agree(u)
  <1>1. /\ Table(u).built = CacheBuilt(c)
        /\ Table(u).stats = [TDP |-> CachePeakStats(c), RTP |-> CacheRuntimeStats(c)]
        /\ Table(u).resets = CacheResets(c) /\ Table(u).uses = CacheUses(c)
        /\ \A total \in PartTotals : Table(u).sums[total] = CacheSums(c)
        /\ Table(u).shows = CacheShows(c) /\ Table(u).frees = CacheFrees(c)
    BY DEF CacheTable, Columns, Every
  <1>2. StatsAgree(u)
    <2>1. /\ Leaves(CacheUses(c)) \subseteq CacheBuilt(c)
          /\ Leaves(CacheUses(c)) \subseteq CacheResets(c)
      BY DEF Leaves, CacheBuilt, CacheUses, CacheResets, CacheArrays, ShadowTags, On,
         UniArray, RW, UniBuffers, If, HomeNode, HomePorts
    <2>2. /\ Leaves(CachePeakStats(c)) \subseteq CacheBuilt(c)
          /\ Leaves(CacheRuntimeStats(c)) \subseteq CacheBuilt(c)
      BY DEF Leaves, CacheBuilt, CachePeakStats, CacheRuntimeStats, CacheArrays, On,
         UniArray, CacheReads, CacheWrites, If, HomeNode, HomePorts, ShadowTags, UniBuffers,
         RW, IsDirectory, HomeRtpPorts
    <2>3. ASSUME NEW f \in CacheUses(c), f[1] \notin HomeArray
          PROVE  f \in CachePeakStats(c) /\ f \in CacheRuntimeStats(c)
      BY <2>3 DEF HomeArray, CacheUses, CachePeakStats, CacheRuntimeStats, ShadowTags, On,
         UniArray, RW, UniBuffers, If, HomeNode, HomePorts, CacheReads, CacheWrites,
         IsDirectory, HomeRtpPorts
    <2> QED
      BY <1>1, <2>1, <2>2, <2>3 DEF StatsAgree, Passes
  <1>3. SumsAgree(u)
    BY <1>1 DEF SumsAgree, Owed, If, CacheBuilt, CacheSums, CacheArrays, UniArray,
       ShadowTags, UniBuffers
  <1>4. FreesAgree(u)
    BY <1>1 DEF FreesAgree, Leafs, Lower, OwnLeaf, CacheBuilt, CacheShows, CacheFrees,
       CacheArrays, UniArray, If, ShadowTags, UniBuffers
  <1> QED
    BY <1>2, <1>3, <1>4 DEF Agree

(* A private L2 that there is not has nothing to agree on. *)
LEMMA PrivateL2Agrees ==
    ASSUME ConfigOK, c.part = "core"
    PROVE  Agree("l2cache")
  <1>1. Below("l2cache") = {} /\ \A total \in PartTotals : Again("l2cache", total) = {}
    BY DEF Below, Again
  <1>2. CASE c.Private_L2
    BY <1>1, <1>2, CacheAgrees DEF Table
  <1>3. CASE ~ c.Private_L2
    <2>1. /\ Table("l2cache").built = {}
          /\ Table("l2cache").stats = [TDP |-> {}, RTP |-> {}]
          /\ Table("l2cache").resets = {} /\ Table("l2cache").uses = {}
          /\ \A total \in PartTotals : Table("l2cache").sums[total] = {}
          /\ Table("l2cache").shows = {} /\ Table("l2cache").frees = {}
      BY <1>3 DEF Table, Blocks, Columns, Every
    <2> QED
      BY <1>1, <2>1 DEF Agree, StatsAgree, Passes, Leaves, SumsAgree, Owed, FreesAgree, If
  <1> QED
    BY <1>2, <1>3

LEMMA AllAgree ==
    ASSUME ConfigOK
    PROVE  /\ c.part \in PartKinds /\ Units(c.part) = UnitsOf(c.part)
           /\ \A u \in Units(c.part) : Agree(u)
  <1>1. c.part \in PartKinds /\ Units(c.part) = UnitsOf(c.part)
    BY UnitsAre DEF ConfigOK, Config, PartKinds
  <1>2. CASE c.part = "core"
    <2>1. Units(c.part) = CoreParts
      BY <1>1, <1>2 DEF UnitsOf
    <2> QED
      BY <1>1, <1>2, <2>1, FetchAgrees, PredictorAgrees, LoadStoreAgrees, TlbAgrees,
         RegisterFileAgrees, SchedulerAgrees, AluAgrees, FpuAgrees, MultiplierAgrees,
         ExecutionAgrees, RenamingAgrees, CoreAgrees, PrivateL2Agrees DEF CoreParts
  <1>3. CASE c.part = "mc"
    BY <1>1, <1>3, FrontEndAgrees, BackendAgrees, PhyAgrees, ControllerAgrees DEF UnitsOf
  <1>4. CASE c.part = "noc"
    BY <1>1, <1>4, RouterAgrees, LinkAgrees, NetworkAgrees DEF UnitsOf
  <1>5. CASE c.part \in {"L2", "L3", "L1Directory", "L2Directory"}
    <2>1. /\ Table(c.part) = CacheTable /\ Below(c.part) = {}
          /\ \A total \in PartTotals : Again(c.part, total) = {}
      BY <1>5 DEF Table, Below, Again
    <2>2. Units(c.part) = {c.part}
      BY <1>1, <1>5 DEF UnitsOf
    <2> QED
      BY <1>1, <1>5, <2>1, <2>2, CacheAgrees
  <1>6. CASE c.part \in {"niu", "pcie", "flash"}
    <2>1. Units(c.part) = {c.part}
      BY <1>1, <1>6 DEF UnitsOf
    <2> QED
      BY <1>1, <1>6, <2>1, NiuAgrees, PcieAgrees, FlashAgrees
  <1> QED
    BY <1>1, <1>2, <1>3, <1>4, <1>5, <1>6 DEF PartKinds

(* No two units have a leaf or a unit below them in common, and none frees *)
(* what another frees.                                                     *)
LEMMA NamesApart ==
    ASSUME NEW part \in PartKinds, NEW u \in UnitsOf(part), NEW v \in UnitsOf(part), u # v
    PROVE  /\ Leafs(u) \cap Leafs(v) = {} /\ Lower(u) \cap Lower(v) = {}
           /\ Leafs(u) \cap Lower(v) \subseteq OwnLeaf
  <1>1. CASE part = "core"
    <2>1. u \in CoreParts /\ v \in CoreParts
      BY <1>1 DEF UnitsOf
    <2>2. \A x \in Leafs(u) : x \notin Leafs(v)
      BY <2>1 DEF CoreParts, Leafs, UniArray, UniBuffers, Predictors, ICacheBuilt, Decoders,
         Tlbs, FRATs, Checks, CoreBuilt
    <2>3. \A x \in Lower(u) : x \notin Lower(v)
      BY <2>1 DEF CoreParts, Lower
    <2>4. \A x \in Leafs(u) : x \in Lower(v) => x \in OwnLeaf
      BY <2>1 DEF CoreParts, Lower, OwnLeaf, Leafs, UniArray, UniBuffers, Predictors,
         ICacheBuilt, Decoders, Tlbs, FRATs, Checks, CoreBuilt
    <2> QED
      BY <2>2, <2>3, <2>4
  <1>2. CASE part = "mc"
    BY <1>2 DEF UnitsOf, Lower, OwnLeaf, Leafs, FrontEndBuilt, FrontEndBuffers
  <1>3. CASE part = "noc"
    BY <1>3 DEF UnitsOf, Lower, OwnLeaf, Leafs
  <1>4. CASE part \notin {"core", "mc", "noc"}
    BY <1>4 DEF UnitsOf
  <1> QED
    BY <1>1, <1>2, <1>3, <1>4

(* The part itself is no leaf of a unit, nor below one. *)
LEMMA PartIsNoLeaf ==
    ASSUME NEW part \in PartKinds, NEW u \in UnitsOf(part)
    PROVE  part \notin Leafs(u) /\ part \notin Lower(u)
  <1>1. CASE part = "core"
    BY <1>1 DEF UnitsOf, CoreParts, Lower, Leafs, UniArray, UniBuffers, Predictors,
       ICacheBuilt, Decoders, Tlbs, FRATs, Checks, CoreBuilt
  <1>2. CASE part \in {"mc", "noc"}
    BY <1>2 DEF UnitsOf, Lower, Leafs, FrontEndBuilt, FrontEndBuffers
  <1>3. CASE part \notin {"core", "mc", "noc"}
    <2>1. u = part
      BY <1>3 DEF UnitsOf
    <2> QED
      BY <1>3, <2>1 DEF PartKinds, Lower, Leafs, UniArray, UniBuffers, NiuBlocks
  <1> QED
    BY <1>1, <1>2, <1>3

(* So no two units build or free the same. *)
LEMMA Apart ==
    ASSUME ConfigOK, NEW u \in Units(c.part), NEW v \in Units(c.part), u # v
    PROVE  Table(u).built \cap Table(v).built = {} /\ Freed(u) \cap Freed(v) = {}
  <1>1. FreesAgree(u) /\ FreesAgree(v)
    BY AllAgree DEF Agree
  <1>2. /\ Leafs(u) \cap Leafs(v) = {} /\ Lower(u) \cap Lower(v) = {}
        /\ Leafs(u) \cap Lower(v) \subseteq OwnLeaf /\ Leafs(v) \cap Lower(u) \subseteq OwnLeaf
        /\ c.part \notin Leafs(u) \cup Lower(u) \cup Leafs(v) \cup Lower(v)
    BY AllAgree, NamesApart, PartIsNoLeaf
  <1> QED
    BY <1>1, <1>2 DEF FreesAgree, Freed, If

(* The units below a unit come before it in the constructors, and before   *)
(* EXECU what its bypasses pass.                                           *)
Passed == {"scheu", "rfu", "lsu", "exeu", "fp_u", "mul"}
LEMMA BelowFirst ==
    ASSUME ConfigOK, NEW m \in DOMAIN Order(c.part, 1)
    PROVE  LET u == Order(c.part, 1)[m]
           IN  \A v \in Below(u) \cup If(u = "exu", Passed) :
                  \E n \in 1 .. m - 1 : Order(c.part, 1)[n] = v
  <1> DEFINE o == Order(c.part, 1)
             before(S) == \A v \in S : \E n \in 1 .. m - 1 : o[n] = v
  <1>1. CASE c.part = "core"
    <2>1. o = <<"l2cache", "BPT", "ifu", "lsu", "mmu", "rfu", "scheu", "exeu",
                "fp_u", "mul", "exu", "rnu", "core">>
      BY <1>1 DEF Order, CoreOrder
    <2> HIDE DEF o
    <2>2. m \in 1 .. 13
      BY <2>1 DEF o
    <2>3. CASE o[m] = "core"
      <3>1. m = 13
        BY <2>1, <2>2, <2>3
      <3>2. Below("core") \subseteq {"ifu", "lsu", "mmu", "exu", "rnu", "l2cache"}
        BY DEF Below, CoreUnits, If
      <3>3. before({"ifu", "lsu", "mmu", "exu", "rnu", "l2cache"})
        BY <2>1, <3>1
      <3> QED
        BY <2>3, <3>2, <3>3 DEF If, o
    <2>4. CASE o[m] = "exu"
      <3>1. m = 11
        BY <2>1, <2>2, <2>4
      <3>2. Below("exu") \cup Passed \subseteq {"lsu", "rfu", "scheu", "exeu", "fp_u", "mul"}
        BY DEF Below, ExuUnits, If, Passed
      <3>3. before({"lsu", "rfu", "scheu", "exeu", "fp_u", "mul"})
        BY <2>1, <3>1
      <3> QED
        BY <2>4, <3>2, <3>3 DEF If, o
    <2>5. CASE o[m] = "ifu"
      <3>1. m = 3
        BY <2>1, <2>2, <2>5
      <3>2. Below("ifu") \subseteq {"BPT"}
        BY DEF Below, If
      <3>3. before({"BPT"})
        BY <2>1, <3>1
      <3> QED
        BY <2>5, <3>2, <3>3 DEF If, o
    <2>6. CASE o[m] \notin {"core", "exu", "ifu"}
      <3>1. o[m] # "mc"
        BY <2>1, <2>2
      <3> QED
        BY <2>6, <3>1 DEF Below, If, o
    <2> QED
      BY <2>3, <2>4, <2>5, <2>6
  <1>2. CASE c.part = "mc"
    <2>1. o = <<"frontend", "transecEngine", "PHY", "mc">>
      BY <1>2 DEF Order
    <2> HIDE DEF o
    <2>2. m \in 1 .. 4
      BY <2>1 DEF o
    <2>3. CASE o[m] = "mc"
      <3>1. m = 4
        BY <2>1, <2>2, <2>3
      <3>2. Below("mc") \subseteq {"frontend", "transecEngine", "PHY"}
        BY DEF Below, McUnits, Phy, If
      <3>3. before({"frontend", "transecEngine", "PHY"})
        BY <2>1, <3>1
      <3> QED
        BY <2>3, <3>2, <3>3 DEF If, o
    <2>4. CASE o[m] # "mc"
      <3>1. o[m] \notin {"core", "exu", "ifu"}
        BY <2>1, <2>2
      <3> QED
        BY <2>4, <3>1 DEF Below, If, o
    <2> QED
      BY <2>3, <2>4
  <1>3. CASE c.part \notin {"core", "mc"}
    <2>1. o[m] \in UnitsOf(c.part) /\ c.part \in PartKinds
      BY AllAgree, OrderVisits DEF Visits
    <2>2. o[m] \notin {"core", "exu", "ifu", "mc"}
      BY <1>3, <2>1 DEF UnitsOf, PartKinds
    <2> QED
      BY <2>2 DEF Below, If
  <1> QED
    BY <1>1, <1>2, <1>3

(* Where the walk stands: within the order of calls, until the part is gone. *)
InOrder == phase \in 1 .. 5 /\ at \in DOMAIN Order(c.part, phase)

(* A step visits the unit u, once in its phase, and no other. *)
Visit(u) ==
    /\ u \in Units(c.part) /\ u \notin Seen(phase)
    /\ \A p \in 1 .. 5 : Seen(p)' = IF p = phase THEN Seen(p) \cup {u} ELSE Seen(p)

LEMMA SeenNext ==
    ASSUME ConfigOK, InOrder, Step, c' = c
    PROVE  /\ Visit(Unit)
           /\ phase' \in 1 .. Gone /\ at' \in 1 .. 13
           /\ phase' # Gone => at' \in DOMAIN Order(c.part, phase')
  <1> DEFINE o == Order(c.part, phase)
  <1>1. /\ c.part \in PartKinds /\ Units(c.part) = UnitsOf(c.part)
        /\ \A p \in 1 .. 5 : Visits(Order(c.part, p), Units(c.part))
    BY AllAgree, OrderVisits
  <1>2. Visits(o, Units(c.part)) /\ phase \in 1 .. 5 /\ at \in DOMAIN o
    BY <1>1 DEF InOrder
  <1>3. IF at < Len(o) THEN at' = at + 1 /\ phase' = phase
        ELSE at' = 1 /\ phase' = phase + 1
    BY DEF Step
  <1>4. /\ DOMAIN o = 1 .. Len(o) /\ Len(o) \in 1 .. 13
        /\ \A m, n \in DOMAIN o : o[m] = o[n] => m = n
        /\ Units(c.part) = {o[n] : n \in 1 .. Len(o)}
    BY <1>2 DEF Visits
  <1>5. phase' \in 1 .. Gone /\ at' \in 1 .. 13
        /\ (phase' # Gone => at' \in DOMAIN Order(c.part, phase'))
    <2>1. CASE at < Len(o)
      <3>1. at' \in 1 .. Len(o) /\ phase' = phase
        BY <1>2, <1>3, <1>4, <2>1
      <3>2. at' \in 1 .. 13
        <4>1. \A k, l : k \in 1 .. l /\ l \in 1 .. 13 => k \in 1 .. 13
          OBVIOUS
        <4> HIDE DEF o
        <4> QED
          BY <1>4, <3>1, <4>1, Zenon
      <3>3. at' \in DOMAIN Order(c.part, phase)
        BY <1>4, <3>1, Zenon
      <3> QED
        BY <1>2, <3>1, <3>2, <3>3 DEF Gone
    <2>2. CASE ~ (at < Len(o))
      <3>1. at' = 1 /\ phase' = phase + 1 /\ phase' \in 1 .. 6
        BY <1>2, <1>3, <2>2
      <3>2. phase' # 6 => 1 \in DOMAIN Order(c.part, phase')
        BY <1>1, <3>1 DEF Visits
      <3> QED
        BY <3>1, <3>2 DEF Gone
    <2> QED
      BY <2>1, <2>2
  <1>6. Unit = o[at] /\ Unit \in Units(c.part)
    BY <1>2, <1>4 DEF Unit
  <1>7. Seen(phase) = {o[n] : n \in 1 .. at - 1}
    BY <1>2 DEF Seen
  <1>8. Unit \notin Seen(phase)
    BY <1>2, <1>4, <1>6, <1>7
  <1>9. ASSUME NEW p \in 1 .. 5
        PROVE  Seen(p)' = IF p = phase THEN Seen(p) \cup {Unit} ELSE Seen(p)
    <2>1. Seen(p)' = IF phase' > p THEN Units(c.part)
                     ELSE IF phase' = p THEN {Order(c.part, p)[n] : n \in 1 .. at' - 1} ELSE {}
      BY DEF Seen
    <2>2. CASE p = phase
      <3>1. {o[n] : n \in 1 .. at} = {o[n] : n \in 1 .. at - 1} \cup {o[at]}
        BY <1>2, <1>4
      <3>2. CASE at < Len(o)
        <4>1. at' - 1 = at /\ phase' = p
          BY <1>2, <1>3, <1>4, <2>2, <3>2
        <4>2. phase' = p /\ ~ (phase' > p)
          BY <1>2, <2>2, <4>1
        <4>3. Seen(p)' = {o[n] : n \in 1 .. at}
          BY <2>1, <2>2, <4>1, <4>2
        <4> QED
          BY <1>6, <1>7, <2>2, <3>1, <4>3
      <3>3. CASE ~ (at < Len(o))
        <4>1. at = Len(o) /\ phase' > p
          BY <1>2, <1>3, <1>4, <2>2, <3>3
        <4> QED
          BY <1>4, <1>6, <1>7, <2>1, <2>2, <3>1, <4>1
      <3> QED
        BY <3>2, <3>3
    <2>3. CASE p # phase
      <3>1. CASE phase' = phase
        BY <1>2, <2>1, <2>3, <3>1 DEF Seen
      <3>2. CASE phase' = phase + 1 /\ at' = 1
        <4>1. {Order(c.part, p)[n] : n \in 1 .. at' - 1} = {}
          BY <3>2
        <4>2. phase > p <=> phase' > p
          BY <1>2, <2>3, <3>2
        <4> QED
          BY <1>2, <2>1, <2>3, <4>1, <4>2 DEF Seen
      <3> QED
        BY <1>3, <3>1, <3>2
    <2> QED
      BY <2>2, <2>3
  <1> QED
    BY <1>5, <1>6, <1>8, <1>9 DEF Visit

(* Earlier phases have visited every unit, later ones none. *)
LEMMA SeenPhases ==
    ASSUME NEW p \in 1 .. 5, phase \in 1 .. 6
    PROVE  (phase > p => Seen(p) = Units(c.part)) /\ (phase < p => Seen(p) = {})
  BY DEF Seen

(* The tables depend on the configuration alone. *)
LEMMA SameTables ==
    ASSUME c' = c, NEW u
    PROVE  /\ Table(u)' = Table(u) /\ Made(u)' = Made(u) /\ Freed(u)' = Freed(u)
           /\ Heights(u)' = Heights(u) /\ HomeArray' = HomeArray
           /\ \A total : /\ Again(u, total)' = Again(u, total)
                         /\ Owed(u, total)' = Owed(u, total)
           /\ Units(c.part)' = Units(c.part)
  <1>1. Table(u)' = Table(u)
    BY DEF Table, CacheTable
  <1>2. Below(u)' = Below(u) /\ Exists(u)' = Exists(u)
    BY DEF Below, Exists
  <1>3. Units(c.part)' = Units(c.part)
    OBVIOUS
  <1>4. /\ Made(u)' = Made(u) /\ Freed(u)' = Freed(u) 
        /\ Heights(u)' = Heights(u) /\ HomeArray' = HomeArray
    BY <1>1, <1>2 DEF Made, Freed, Heights, HomeArray
  <1>5. ASSUME NEW total
        PROVE  /\ Again(u, total)' = Again(u, total)
               /\ Owed(u, total)' = Owed(u, total)
    BY <1>1, <1>2 DEF Again, Owed
  <1> QED
    BY <1>1, <1>3, <1>4, <1>5

(* The inductive invariant: each variable as a function of the units the   *)
(* phases have visited.                                                    *)
Lives  == live = (UNION {Made(u) : u \in Seen(1)}) \ (UNION {Freed(u) : u \in Seen(5)})
Knows  == /\ \A u \in Seen(1) : Heights(u) \subseteq known
          /\ \A u \in Seen(2) : PeakPower(u) \subseteq known
Counts ==
    /\ \A total \in PartTotals : \A u \in SeenFor(total) : \A item \in Table(u).sums[total] :
          <<total, u, item>> \in counted
    /\ \A x \in counted : x[1] \in PartTotals /\ x[2] \in SeenFor(x[1])
    /\ \A x \in twice : x[3] \in Again(x[2], x[1])
Powers ==
    /\ \A x \in power_t : \E u \in Seen(2) : x[1] \in Leaves(Table(u).uses)
    /\ \A u \in Seen(2) : \A x \in power_t :
          x[1] \in Table(u).built \ HomeArray => x[2] = IF u \in Seen(3) THEN "RTP" ELSE "TDP"
PartInv == PartTypeOK /\ Lives /\ Knows /\ Counts /\ Powers

(* Each part of the invariant survives a visit. *)
LEMMA LivesNext ==
    ASSUME ConfigOK, InOrder, Lives, c' = c, Visit(Unit),
           \/ phase = 1 /\ live' = live \cup Made(Unit)
           \/ phase \in 2 .. 4 /\ live' = live
           \/ phase = 5 /\ live' = live \ Freed(Unit)
    PROVE  Lives'
  <1>1. /\ Seen(1)' = IF phase = 1 THEN Seen(1) \cup {Unit} ELSE Seen(1)
        /\ Seen(5)' = IF phase = 5 THEN Seen(5) \cup {Unit} ELSE Seen(5)
        /\ phase = 1 => Seen(5) = {}
    BY SeenPhases DEF Visit, InOrder
  <1>2. \A u : Made(u)' = Made(u) /\ Freed(u)' = Freed(u)
    BY SameTables
  <1>3. Lives' <=> live' = (UNION {Made(u) : u \in Seen(1)'}) \ (UNION {Freed(u) : u \in Seen(5)'})
    BY <1>2 DEF Lives
  <1>4. CASE phase = 1
    <2>1. /\ live = UNION {Made(u) : u \in Seen(1)} /\ live' = live \cup Made(Unit)
          /\ Seen(1)' = Seen(1) \cup {Unit} /\ Seen(5)' = {}
      BY <1>1, <1>4 DEF Lives
    <2>2. UNION {Made(u) : u \in Seen(1) \cup {Unit}}
              = (UNION {Made(u) : u \in Seen(1)}) \cup Made(Unit)
      OBVIOUS
    <2> QED
      BY <1>3, <2>1, <2>2
  <1>5. CASE phase \in 2 .. 4
    BY <1>1, <1>3, <1>5 DEF Lives
  <1>6. CASE phase = 5
    BY <1>1, <1>3, <1>6 DEF Lives
  <1> QED
    BY <1>4, <1>5, <1>6 DEF InOrder

LEMMA GivesAre ==
    ASSUME NEW u
    PROVE  /\ phase = 1 => Gives(u) = Heights(u)
           /\ phase = 2 => Gives(u) = PeakPower(u)
  BY DEF Gives, Heights

LEMMA KnowsNext ==
    ASSUME InOrder, Knows, c' = c, Visit(Unit),
           IF phase \in 1 .. 3 THEN known' = known \cup Gives(Unit) ELSE known' = known
    PROVE  Knows'
  <1>1. /\ Seen(1)' = IF phase = 1 THEN Seen(1) \cup {Unit} ELSE Seen(1)
        /\ Seen(2)' = IF phase = 2 THEN Seen(2) \cup {Unit} ELSE Seen(2)
    BY DEF Visit
  <1>2. \A u : Heights(u)' = Heights(u)
    BY SameTables
  <1>3. known \subseteq known' /\ (phase \in {1, 2} => Gives(Unit) \subseteq known')
    BY DEF InOrder
  <1>4. ASSUME NEW u \in Seen(1)' PROVE Heights(u) \subseteq known'
    <2>1. CASE u \in Seen(1)
      BY <1>3, <2>1 DEF Knows
    <2>2. CASE phase = 1 /\ u = Unit
      BY <1>3, <2>2, GivesAre
    <2> QED
      BY <1>1, <1>4, <2>1, <2>2
  <1>5. ASSUME NEW u \in Seen(2)' PROVE PeakPower(u) \subseteq known'
    <2>1. CASE u \in Seen(2)
      BY <1>3, <2>1 DEF Knows
    <2>2. CASE phase = 2 /\ u = Unit
      BY <1>3, <2>2, GivesAre
    <2> QED
      BY <1>1, <1>5, <2>1, <2>2
  <1>6. \A u : PeakPower(u)' = PeakPower(u)
    BY DEF PeakPower
  <1> QED
    BY <1>2, <1>4, <1>5, <1>6 DEF Knows

(* The phase a total belongs to. *)
PhaseOf(total) == IF total = "area" THEN 1 ELSE IF total = "runtime" THEN 3 ELSE 2
LEMMA DueIs ==
    ASSUME NEW total \in PartTotals, NEW p \in 1 .. 5
    PROVE  /\ total \in Due(p) <=> p = PhaseOf(total)
           /\ SeenFor(total) = Seen(PhaseOf(total)) /\ PhaseOf(total) \in 1 .. 5
           /\ SeenFor(total)' = Seen(PhaseOf(total))'
  <1>1. /\ Due(1) = {"area"}
        /\ Due(2) = {"dynamic", "leakage"} /\ Due(3) = {"runtime"}
        /\ Due(4) = {} /\ Due(5) = {}
    BY DEF Due, Phase
  <1> QED
    BY <1>1 DEF PartTotals, PhaseOf, SeenFor

LEMMA SeenForNext ==
    ASSUME InOrder, Visit(Unit), NEW total \in PartTotals
    PROVE  SeenFor(total)' = IF total \in Due(phase) THEN SeenFor(total) \cup {Unit}
                             ELSE SeenFor(total)
  BY DueIs DEF InOrder, Visit

LEMMA AddsAre ==
    ASSUME NEW u, phase \in 1 .. 5
    PROVE  /\ \A x \in Adds(u) :
                 \E total \in Due(phase) : \E item \in Table(u).sums[total] :
                    x = <<total, u, item>>
           /\ \A total \in Due(phase) : \A item \in Table(u).sums[total] :
                 <<total, u, item>> \in Adds(u)
           /\ \A x \in AddsAgain(u) :
                 \E total \in Due(phase) : \E item \in Again(u, total) :
                    x = <<total, u, item>>
           /\ Due(phase) \subseteq PartTotals
  <1>1. Due(phase) \subseteq PartTotals
    BY DEF Due, Phase, PartTotals
  <1> QED
    BY <1>1 DEF Adds, AddsAgain

LEMMA CountsNext ==
    ASSUME InOrder, Counts, c' = c, Visit(Unit),
           IF phase \in 1 .. 3 THEN Accumulate(Unit) ELSE UNCHANGED <<counted, twice>>
    PROVE  Counts'
  <1>1. /\ \A total \in PartTotals :
             SeenFor(total)' = IF total \in Due(phase) THEN SeenFor(total) \cup {Unit}
                               ELSE SeenFor(total)
        /\ \A total \in Due(phase) : Unit \notin SeenFor(total)
    BY SeenForNext, DueIs, AddsAre DEF Visit, InOrder
  <1>2. \A u : /\ Table(u)' = Table(u)
               /\ \A total : Again(u, total)' = Again(u, total)
    BY SameTables
  <1>3. phase \notin 1 .. 3 => Due(phase) = {}
    BY DEF InOrder, Due, Phase
  <1>4. /\ counted \subseteq counted' /\ counted' \subseteq counted \cup Adds(Unit)
        /\ Due(phase) # {} => Adds(Unit) \subseteq counted'
        /\ twice' \subseteq twice \cup AddsAgain(Unit)
    <2>1. Adds(Unit) \cap counted = {}
      <3> SUFFICES ASSUME NEW x \in Adds(Unit), x \in counted PROVE FALSE
        OBVIOUS
      <3>1. PICK total \in Due(phase) : x[1] = total /\ x[2] = Unit
        BY AddsAre DEF InOrder
      <3> QED
        BY <1>1, <3>1 DEF Counts
    <2> QED
      BY <1>3, <2>1 DEF Accumulate
  <1>5. ASSUME NEW total \in PartTotals, NEW u \in SeenFor(total)',
               NEW item \in Table(u).sums[total]
        PROVE  <<total, u, item>> \in counted'
    <2>1. CASE u \in SeenFor(total)
      BY <1>4, <2>1 DEF Counts
    <2>2. CASE total \in Due(phase) /\ u = Unit
      BY <1>4, <2>2, AddsAre DEF InOrder
    <2> QED
      BY <1>1, <2>1, <2>2
  <1>6. ASSUME NEW x \in counted'
        PROVE  x[1] \in PartTotals /\ x[2] \in SeenFor(x[1])'
    <2>1. CASE x \in counted
      BY <1>1, <2>1 DEF Counts
    <2>2. CASE x \in Adds(Unit)
      <3>1. PICK total \in Due(phase) : x[1] = total /\ x[2] = Unit
        BY <2>2, AddsAre DEF InOrder
      <3> QED
        BY <1>1, <3>1, AddsAre DEF InOrder
    <2> QED
      BY <1>4, <2>1, <2>2
  <1>7. ASSUME NEW x \in twice'
        PROVE  x[3] \in Again(x[2], x[1])
    <2>1. CASE x \in twice
      BY <2>1 DEF Counts
    <2>2. CASE x \in AddsAgain(Unit)
      BY <2>2, AddsAre DEF InOrder
    <2> QED
      BY <1>4, <2>1, <2>2
  <1>8. /\ \A total \in PartTotals : \A u \in SeenFor(total)' :
             \A item \in Table(u)'.sums[total] : <<total, u, item>> \in counted'
        /\ \A x \in twice' : x[3] \in Again(x[2], x[1])'
    <2>1. ASSUME NEW x \in twice' PROVE x[3] \in Again(x[2], x[1])'
      BY <1>7 DEF Again
    <2> QED
      BY <1>2, <1>5, <2>1
  <1> QED
    BY <1>6, <1>8 DEF Counts

(* What the pass multiplies for u holds the pass's statistics only, but    *)
(* for the arrays of a home node.                                          *)
LEMMA ProductOwn ==
    ASSUME phase \in {2, 3}, NEW u, StatsAgree(u),
           stats' = Set(Table(u).stats[Phase[phase]], Phase[phase]),
           NEW x \in Product(Table(u).uses)
    PROVE  /\ x[1] \in Leaves(Table(u).uses)
           /\ x[1] \in HomeArray \/ x[2] = Phase[phase]
  <1>1. PICK f \in Table(u).uses :
             x \in {f[1]} \X (IF Origins(f) = {} THEN {"never"} ELSE Origins(f))
    BY DEF Product
  <1>2. x[1] = f[1] /\ x[2] \in IF Origins(f) = {} THEN {"never"} ELSE Origins(f)
    BY <1>1
  <1>3. Phase[phase] \in Passes
    BY DEF Phase, Passes
  <1>4. ASSUME f[1] \notin HomeArray PROVE Origins(f) = {Phase[phase]}
    <2>1. f \in Table(u).stats[Phase[phase]]
      BY <1>3, <1>4 DEF StatsAgree
    <2>2. \A q \in Passes : f \in stats'[q] <=> q = Phase[phase]
      BY <2>1 DEF Set
    <2> QED
      BY <1>3, <2>2 DEF Origins
  <1>5. x[1] \in Leaves(Table(u).uses)
    BY <1>2 DEF Leaves
  <1> QED
    BY <1>2, <1>4, <1>5

LEMMA PowersNext ==
    ASSUME ConfigOK, InOrder, Powers, c' = c, Visit(Unit),
           IF phase \in {2, 3}
           THEN /\ stats' =
                     Set(Table(Unit).stats[Phase[phase]], Phase[phase])
                /\ power_t' = {x \in power_t : x[1] \notin Table(Unit).resets}
                              \cup Product(Table(Unit).uses)
           ELSE power_t' = power_t
    PROVE  Powers'
  <1>1. /\ Seen(2)' = IF phase = 2 THEN Seen(2) \cup {Unit} ELSE Seen(2)
        /\ Seen(3)' = IF phase = 3 THEN Seen(3) \cup {Unit} ELSE Seen(3)
        /\ phase = 3 => Seen(2) = Units(c.part) /\ Unit \notin Seen(3)
        /\ phase = 2 => Seen(3) = {} /\ Unit \notin Seen(2)
        /\ Unit \in Units(c.part) /\ Seen(2) \subseteq Units(c.part)
    <2>1. Seen(phase) \subseteq Units(c.part) /\ Seen(2) \subseteq Units(c.part)
      <3>1. Visits(Order(c.part, phase), Units(c.part))
        BY AllAgree, OrderVisits DEF InOrder
      <3>2. \A n \in 1 .. at - 1 : n \in DOMAIN Order(c.part, phase)
        BY <3>1 DEF InOrder, Visits
      <3>3. \A n \in 1 .. at - 1 : Order(c.part, phase)[n] \in Units(c.part)
        BY <3>1, <3>2 DEF Visits
      <3> QED
        BY <3>3 DEF Seen, InOrder
    <2> QED
      BY <2>1, SeenPhases DEF Visit, InOrder
  <1>2. \A u : Table(u)' = Table(u) /\ HomeArray' = HomeArray
    BY SameTables
  <1>3. Powers' <=>
          /\ \A x \in power_t' : \E u \in Seen(2)' : x[1] \in Leaves(Table(u).uses)
          /\ \A u \in Seen(2)' : \A x \in power_t' :
                x[1] \in Table(u).built \ HomeArray
                => x[2] = IF u \in Seen(3)' THEN "RTP" ELSE "TDP"
    BY <1>2 DEF Powers, Leaves
  <1>4. CASE phase \notin {2, 3}
    BY <1>1, <1>3, <1>4 DEF Powers
  <1>5. CASE phase \in {2, 3}
    <2>1. /\ \A u \in Units(c.part) : StatsAgree(u)
          /\ \A u, v \in Units(c.part) :
               u # v => Table(u).built \cap Table(v).built = {}
      BY AllAgree, Apart DEF Agree
    <2>2. \A x \in Product(Table(Unit).uses) :
             /\ x[1] \in Leaves(Table(Unit).uses)
             /\ x[1] \in HomeArray \/ x[2] = Phase[phase]
      BY <1>1, <1>5, <2>1, ProductOwn
    <2>3. \A u \in Units(c.part) :
             /\ Leaves(Table(u).uses) \subseteq Table(u).built
             /\ Leaves(Table(u).uses) \subseteq Table(u).resets
      BY <2>1 DEF StatsAgree
    <2>4. \A x \in power_t' : \/ x \in power_t /\ x[1] \notin Table(Unit).resets
                              \/ x \in Product(Table(Unit).uses)
      BY <1>5
    <2>5. Unit \in Seen(2)' /\ Seen(2) \subseteq Seen(2)'
      BY <1>1, <1>5
    <2>6. ASSUME NEW x \in power_t'
          PROVE  \E u \in Seen(2)' : x[1] \in Leaves(Table(u).uses)
      <3>1. CASE x \in power_t
        BY <2>5, <3>1 DEF Powers
      <3>2. CASE x \in Product(Table(Unit).uses)
        BY <2>2, <2>5, <3>2
      <3> QED
        BY <2>4, <3>1, <3>2
    <2>7. ASSUME NEW u \in Seen(2)', NEW x \in power_t', x[1] \in Table(u).built \ HomeArray
          PROVE  x[2] = IF u \in Seen(3)' THEN "RTP" ELSE "TDP"
      <3>1. u \in Units(c.part)
        BY <1>1
      <3>2. CASE u = Unit
        <4>1. x \in Product(Table(Unit).uses)
          <5> SUFFICES ASSUME x \in power_t, x[1] \notin Table(Unit).resets PROVE FALSE
            BY <2>4
          <5>1. PICK v \in Seen(2) : x[1] \in Leaves(Table(v).uses)
            BY DEF Powers
          <5>2. v = Unit
            BY <1>1, <2>1, <2>3, <2>7, <3>2, <5>1
          <5> QED
            BY <1>1, <2>3, <5>1, <5>2
        <4>2. x[2] = Phase[phase]
          BY <2>2, <2>7, <4>1
        <4>3. IF phase = 3 THEN u \in Seen(3)' ELSE u \notin Seen(3)'
          BY <1>1, <1>5, <3>2
        <4>4. Phase[phase] = IF phase = 3 THEN "RTP" ELSE "TDP"
          BY <1>5 DEF Phase
        <4> QED
          BY <4>2, <4>3, <4>4
      <3>3. CASE u # Unit
        <4>1. x \in power_t
          <5>1. x[1] \notin Leaves(Table(Unit).uses)
            BY <1>1, <2>1, <2>3, <2>7, <3>1, <3>3
          <5> QED
            BY <2>2, <2>4, <5>1
        <4>2. u \in Seen(2) /\ (u \in Seen(3)' <=> u \in Seen(3))
          BY <1>1, <2>7, <3>3
        <4> QED
          BY <2>7, <4>1, <4>2 DEF Powers
      <3> QED
        BY <3>2, <3>3
    <2> QED
      BY <1>3, <2>6, <2>7
  <1> QED
    BY <1>4, <1>5

(* The invariant holds at the start and after every step. *)
LEMMA PartStarts ==
    ASSUME PartInit
    PROVE  PartInv
  <1>1. ConfigOK /\ c \in Configs
    BY ConfigsAssumption DEF PartInit, ConfigOK
  <1>2. phase = 1 /\ at = 1 /\ \A p \in 1 .. 5 : Seen(p) = {}
    BY DEF PartInit, Seen
  <1>3. PartTypeOK
    <2>1. Visits(Order(c.part, 1), Units(c.part))
      BY <1>1, AllAgree, OrderVisits
    <2>2. stats["TDP"] \cap stats["RTP"] = {}
      BY DEF PartInit, Passes
    <2> QED
      BY <1>1, <1>2, <2>1, <2>2 DEF PartTypeOK, Visits, Gone
  <1>4. Lives /\ Knows /\ Counts /\ Powers
    BY <1>2 DEF PartInit, Lives, Knows, Counts, Powers, SeenFor
  <1> QED
    BY <1>3, <1>4 DEF PartInv

LEMMA PartGoesOn ==
    ASSUME PartInv, [PartNext]_partVars
    PROVE  PartInv'
  <1>1. CASE UNCHANGED partVars
    <2>1. \A u : /\ Table(u)' = Table(u) /\ Made(u)' = Made(u) /\ Freed(u)' = Freed(u)
                 /\ Heights(u)' = Heights(u) /\ HomeArray' = HomeArray
      BY <1>1, SameTables DEF partVars
    <2>2. PartTypeOK'
      BY <1>1 DEF partVars, PartInv, PartTypeOK
    <2>3. \A p : Seen(p)' = Seen(p)
      BY <1>1 DEF partVars, Seen
    <2>4. \A total : SeenFor(total)' = SeenFor(total)
      BY <2>3 DEF SeenFor
    <2>5. Lives' /\ Knows'
      BY <1>1, <2>1, <2>3 DEF partVars, PartInv, Lives, Knows, PeakPower
    <2>6. Counts'
      BY <1>1, <2>1, <2>4 DEF partVars, PartInv, Counts, Again
    <2>7. Powers'
      BY <1>1, <2>1, <2>3 DEF partVars, PartInv, Powers, Leaves
    <2> QED
      BY <2>2, <2>5, <2>6, <2>7 DEF PartInv
  <1>2. CASE ~ UNCHANGED partVars
    <2>1. /\ ConstructUnit \/ ComputeUnitEnergy \/ DisplayUnitEnergy \/ DestroyUnit
          /\ InOrder /\ ConfigOK /\ c' = c /\ Step
      <3>1. ConstructUnit \/ ComputeUnitEnergy \/ DisplayUnitEnergy \/ DestroyUnit
        BY <1>2 DEF PartNext, Terminated
      <3>2. phase \in 1 .. 5 /\ c' = c /\ Step
        BY <3>1 DEF ConstructUnit, ComputeUnitEnergy, DisplayUnitEnergy, DestroyUnit
      <3> QED
        BY ConfigsAssumption, <3>1, <3>2 DEF InOrder, PartInv, PartTypeOK, ConfigOK, Gone
    <2>2. Visit(Unit) /\ phase' \in 1 .. Gone /\ at' \in 1 .. 13
          /\ (phase' # Gone => at' \in DOMAIN Order(c.part, phase'))
      BY <2>1, SeenNext
    <2>3. PartTypeOK'
      <3>1. (stats["TDP"] \cap stats["RTP"] = {})'
        <4>1. CASE ComputeUnitEnergy
          <5>1. stats' = Set(Table(Unit).stats[Phase[phase]], Phase[phase])
            BY <4>1 DEF ComputeUnitEnergy
          <5> QED
            BY <5>1 DEF Set, Passes, PartInv, PartTypeOK
        <4>2. CASE stats' = stats
          BY <4>2 DEF PartInv, PartTypeOK
        <4> QED
          BY <2>1, <4>1, <4>2 DEF ConstructUnit, DisplayUnitEnergy, DestroyUnit
      <3> QED
        BY <2>1, <2>2, <3>1 DEF PartTypeOK, PartInv
    <2>4. Lives'
      BY <2>1, <2>2, LivesNext DEF PartInv, ConstructUnit, ComputeUnitEnergy,
         DisplayUnitEnergy, DestroyUnit, Made, Freed
    <2>5. Knows'
      BY <2>1, <2>2, KnowsNext DEF PartInv, ConstructUnit, ComputeUnitEnergy,
         DisplayUnitEnergy, DestroyUnit
    <2>6. Counts'
      BY <2>1, <2>2, CountsNext DEF PartInv, ConstructUnit, ComputeUnitEnergy,
         DisplayUnitEnergy, DestroyUnit
    <2>7. Powers'
      BY <2>1, <2>2, PowersNext DEF PartInv, ConstructUnit, ComputeUnitEnergy,
         DisplayUnitEnergy, DestroyUnit
    <2> QED
      BY <2>3, <2>4, <2>5, <2>6, <2>7 DEF PartInv
  <1> QED
    BY <1>1, <1>2

LEMMA PartInvHolds == PartSpec => []PartInv
  BY PartStarts, PartGoesOn, PTL DEF PartSpec

(* What a constructor or a pass makes of Lives: nothing is freed before    *)
(* the destructors.                                                        *)
LEMMA LiveBefore ==
    ASSUME Lives, phase \in 1 .. 4
    PROVE  \A u \in Seen(1) : Made(u) \subseteq live
  BY SeenPhases DEF Lives

LEMMA BelowExists ==
    ASSUME ConfigOK, NEW u \in Units(c.part), NEW v \in Below(u)
    PROVE  Exists(v) /\ v \in Units(c.part)
  BY AllAgree DEF Agree, FreesAgree, Exists

(* What a unit's function follows pointers to is alive. *)
LEMMA NeededLives ==
    ASSUME ConfigOK, InOrder, Lives
    PROVE  Needed(Unit) \subseteq live
  <1>1. /\ Visits(Order(c.part, phase), Units(c.part)) /\ Unit \in Units(c.part)
        /\ \A n \in 1 .. at - 1 : n \in DOMAIN Order(c.part, phase)
        /\ StatsAgree(Unit) /\ SumsAgree(Unit) /\ FreesAgree(Unit)
    <2>1. Visits(Order(c.part, phase), Units(c.part))
      BY AllAgree, OrderVisits DEF InOrder
    <2>2. Unit \in Units(c.part)
      BY <2>1 DEF Visits, InOrder, Unit
    <2> QED
      BY <2>1, <2>2, AllAgree DEF Agree, InOrder, Visits
  <1>2. CASE phase = 1
    <2>1. \A v \in Below(Unit) : v \in Seen(1)
      BY <1>2, BelowFirst DEF InOrder, Unit, Seen
    <2>2. \A v \in Below(Unit) : v \in Made(v)
      BY <1>1, BelowExists DEF Made, If
    <2>3. Needed(Unit) = Below(Unit)
      BY <1>2 DEF Needed
    <2> QED
      BY <1>2, <2>1, <2>2, <2>3, LiveBefore
  <1>3. phase \in 2 .. 4 => Table(Unit).built \cup Below(Unit) \subseteq live
    <2> SUFFICES ASSUME phase \in 2 .. 4
                 PROVE  Table(Unit).built \cup Below(Unit) \subseteq live
      OBVIOUS
    <2>1. Seen(1) = Units(c.part)
      BY SeenPhases
    <2>2. \A v \in Below(Unit) : v \in Made(v) /\ v \in Seen(1)
      BY <1>1, <2>1, BelowExists DEF Made, If
    <2>3. Table(Unit).built \subseteq Made(Unit)
      BY DEF Made
    <2> QED
      BY <1>1, <2>1, <2>2, <2>3, LiveBefore
  <1>4. CASE phase \in {2, 3}
    <2>1. Phase[phase] \in Passes
      BY <1>4 DEF Phase, Passes
    <2>2. /\ Leaves(Table(Unit).stats[Phase[phase]])
                 \subseteq Table(Unit).built
          /\ Leaves(Table(Unit).uses) \subseteq Table(Unit).built
      BY <1>1, <2>1 DEF StatsAgree
    <2>3. Summed(Unit) \ PipeShares(5)
              \subseteq Table(Unit).built \cup Below(Unit)
      BY <1>1 DEF SumsAgree, Summed
    <2>4. If(Unit = "core", {"corepipe"}) \subseteq Table(Unit).built
      BY <1>1 DEF FreesAgree, If
    <2>5. Needed(Unit) =
            Leaves(Table(Unit).stats[Phase[phase]])
                \cup Leaves(Table(Unit).uses)
            \cup (Summed(Unit) \ PipeShares(5))
                \cup If(Unit = "core", {"corepipe"})
      BY <1>4 DEF Needed
    <2> QED
      BY <1>3, <1>4, <2>2, <2>3, <2>4, <2>5
  <1>5. CASE phase = 4
    BY <1>1, <1>3, <1>5 DEF Needed, FreesAgree
  <1>6. CASE phase = 5
    <2>1. Needed(Unit) = Table(Unit).frees /\ Seen(1) = Units(c.part)
          /\ Seen(5) = {Order(c.part, 5)[n] : n \in 1 .. at - 1}
      BY <1>6, SeenPhases DEF Needed, Seen
    <2>2. \A u \in Seen(5) : u \in Units(c.part) /\ u # Unit
      BY <1>1, <1>6, <2>1 DEF Visits, Unit, InOrder
    <2>3. ASSUME NEW x \in Table(Unit).frees PROVE x \in live
      <3>1. \A u \in Seen(5) : x \notin Freed(u)
        BY <1>1, <2>2, <2>3, Apart DEF Freed
      <3>2. CASE x \in Table(Unit).built
        BY <1>1, <2>1, <3>1, <3>2 DEF Lives, Made
      <3>3. CASE x \in Below(Unit)
        <4>1. x \in Seen(1) /\ x \in Made(x)
          BY <1>1, <2>1, <3>3, BelowExists DEF Made, If
        <4> QED
          BY <3>1, <4>1 DEF Lives
      <3> QED
        BY <1>1, <2>3, <3>2, <3>3 DEF FreesAgree
    <2> QED
      BY <2>1, <2>3
  <1> QED
    BY <1>2, <1>4, <1>5, <1>6 DEF InOrder

(* When the last destructor has run, all that was made is freed.           *)
LEMMA AllFreed ==
    ASSUME ConfigOK, Lives, phase = Gone
    PROVE  live = {}
  <1>1. Seen(1) = Units(c.part) /\ Seen(5) = Units(c.part)
    BY DEF Seen, Gone
  <1>2. c.part \in Units(c.part)
    BY AllAgree DEF UnitsOf, CoreParts
  <1>3. ASSUME NEW u \in Units(c.part), Exists(u)
        PROVE  \E v \in Units(c.part) : u \in Freed(v)
    <2>1. CASE u = c.part
      BY <1>2, <2>1 DEF Freed, If
    <2>2. CASE u # c.part
      <3>1. PICK v \in Units(c.part) : u \in Below(v)
        BY <1>3, <2>2 DEF Exists
      <3> QED
        BY <3>1, AllAgree DEF Agree, FreesAgree, Freed
    <2> QED
      BY <2>1, <2>2
  <1>4. ASSUME NEW u \in Units(c.part), NEW x \in Made(u)
        PROVE  \E v \in Units(c.part) : x \in Freed(v)
    <2>1. x \in Table(u).frees \/ (x = u /\ Exists(u))
      BY <1>4, AllAgree DEF Agree, FreesAgree, Made, If
    <2> QED
      BY <1>3, <2>1 DEF Freed
  <1> QED
    BY <1>1, <1>4 DEF Lives

LEMMA NoneDangles == PartInv => NoDanglingPointer
  <1> SUFFICES ASSUME PartInv PROVE NoDanglingPointer
    OBVIOUS
  <1>1. ConfigOK /\ Lives /\ (phase = Gone \/ InOrder)
    BY ConfigsAssumption DEF PartInv, PartTypeOK, ConfigOK, InOrder, Gone
  <1> QED
    BY <1>1, NeededLives, AllFreed DEF NoDanglingPointer, InOrder, Gone

(* The heights the bypasses pass are those their owners assign.            *)
LEMMA HeightsPassed ==
    ASSUME HasHeights, NEW x \in ExuHeights(c)
    PROVE  \E u \in Passed : x \in Heights(u)
  <1>1. /\ Heights("scheu") = ScheuHeights(c) /\ Heights("lsu") = {<<"lsu", "lsq_height">>}
        /\ Heights("rfu") = {<<"rfu", "int_regfile_height">>, <<"rfu", "fp_regfile_height">>}
        /\ Heights("exeu") = {<<"exeu", "FU_height">>}
        /\ c.fpus => Heights("fp_u") = {<<"fp_u", "FU_height">>}
        /\ c.muls => Heights("mul") = {<<"mul", "FU_height">>}
    BY DEF Heights, FuHeight, Fu, If
  <1>2. /\ <<"scheu", "Iw_height">> \in ScheuHeights(c)
        /\ OOO(c) => /\ <<"scheu", "ROB_height">> \in ScheuHeights(c)
                     /\ <<"scheu", "fp_Iw_height">> \in ScheuHeights(c)
    BY DEF HasHeights, ScheuHeights, Windows, ReorderBuffer, If
  <1>3. x \in BypassHeights(c) \/ (c.muls /\ x = <<"rfu", "fp_regfile_height">>)
        \/ (OOO(c) /\ x \in {<<"scheu", "ROB_height">>, <<"scheu", "fp_Iw_height">>})
    BY DEF ExuHeights, OOOHeights, InorderHeights, If
  <1>4. x \in BypassHeights(c) =>
          \/ x \in {<<"rfu", "int_regfile_height">>, <<"exeu", "FU_height">>,
                    <<"lsu", "lsq_height">>, <<"scheu", "Iw_height">>,
                    <<"rfu", "fp_regfile_height">>}
          \/ c.muls /\ x = <<"mul", "FU_height">>
          \/ c.fpus /\ x = <<"fp_u", "FU_height">>
    BY DEF BypassHeights, If
  <1>5. Passed = {"scheu", "rfu", "lsu", "exeu", "fp_u", "mul"}
    BY DEF Passed
  <1> QED
    BY <1>1, <1>2, <1>3, <1>4, <1>5

LEMMA AllAssigned == PartInv => NumbersAssigned
  <1> SUFFICES ASSUME PartInv, phase # Gone, HasHeights \/ phase # 1
               PROVE  NeededNumbers(Unit) \subseteq known
    BY DEF NumbersAssigned
  <1>1. ConfigOK /\ Knows /\ InOrder
    BY ConfigsAssumption DEF PartInv, PartTypeOK, ConfigOK, InOrder, Gone
  <1>2. CASE phase = 1 /\ Unit = "exu"
    <2>1. NeededNumbers(Unit) = ExuHeights(c) /\ HasHeights
      BY <1>2 DEF NeededNumbers
    <2>2. \A u \in Passed : u \in Seen(1)
      BY <1>1, <1>2, BelowFirst DEF InOrder, Unit, Seen, If
    <2> QED
      BY <1>1, <2>1, <2>2, HeightsPassed DEF Knows
  <1>3. CASE phase = 3
    <2>1. NeededNumbers(Unit) = PeakPower(Unit)
      BY <1>3 DEF NeededNumbers
    <2>2. Unit \in Seen(2)
      <3>1. Seen(2) = Units(c.part)
        BY <1>3, SeenPhases
      <3>2. Visits(Order(c.part, phase), Units(c.part))
        BY <1>1, AllAgree, OrderVisits DEF InOrder
      <3> QED
        BY <1>1, <3>1, <3>2 DEF Visits, Unit, InOrder
    <2> QED
      BY <1>1, <2>1, <2>2 DEF Knows
  <1>4. CASE ~ (phase = 1 /\ Unit = "exu") /\ phase # 3
    BY <1>4 DEF NeededNumbers
  <1> QED
    BY <1>2, <1>3, <1>4

LEMMA OwnNumbersOnly == PartInv => OwnNumbers
  <1> SUFFICES ASSUME PartInv, NEW u \in Units(c.part), Computed(u), NEW x \in power_t,
                      x[1] \in Table(u).built \ HomeArray
               PROVE  x[2] = PassOf(u)
    BY DEF OwnNumbers, MadeOfThisPass, HomeArray
  <1>1. Powers /\ phase \in 1 .. 6
    BY DEF PartInv, PartTypeOK, Gone
  <1>2. \A p \in 1 .. 5 : phase = p => Done = Seen(p)
    BY DEF Done, Seen, Gone
  <1>3. u \in Seen(2)
    BY <1>1, <1>2, SeenPhases DEF Computed
  <1>4. PassOf(u) = IF u \in Seen(3) THEN "RTP" ELSE "TDP"
    BY <1>1, <1>2, <1>3, SeenPhases DEF PassOf, Computed
  <1> QED
    BY <1>1, <1>3, <1>4 DEF Powers

(* Every total has something to add up, so none is whole at the start.     *)
LEMMA SomethingOwed ==
    ASSUME ConfigOK, NEW total \in PartTotals
    PROVE  \E u \in Units(c.part) : Owed(u, total) # {}
  <1>1. c.part \in PartKinds /\ Units(c.part) = UnitsOf(c.part)
    BY AllAgree
  <1>2. \A u : (Table(u).built \cup Below(u)) \ ({"corepipe"} \cup Uncounted(total))
               \subseteq Owed(u, total)
    BY DEF Owed
  <1>3. Uncounted(total) \subseteq {"MC_arb", "instruction_selection", "idcl", "fdcl",
                                    "frontend_gates", "niu.SerDer"}
    BY DEF Uncounted, If
  <1>4. ASSUME NEW u \in Units(c.part), NEW x \in Table(u).built \cup Below(u),
               x \in {"lsu", "frontend", "router", "link_bus", "unicache.caches", "mac", "ctrl"}
        PROVE  \E v \in Units(c.part) : Owed(v, total) # {}
    <2>1. x \in Owed(u, total)
      BY <1>2, <1>3, <1>4
    <2> QED
      BY <2>1
  <1>5. CASE c.part = "core"
    <2>1. "core" \in Units(c.part) /\ "lsu" \in Below("core")
      BY <1>1, <1>5 DEF UnitsOf, CoreParts, Below, CoreUnits
    <2> QED
      BY <1>4, <2>1
  <1>6. CASE c.part = "mc"
    <2>1. "mc" \in Units(c.part) /\ "frontend" \in Below("mc")
      BY <1>1, <1>6 DEF UnitsOf, Below, McUnits
    <2> QED
      BY <1>4, <2>1
  <1>7. CASE c.part = "noc"
    <2>1. {"router", "link_bus"} \subseteq Units(c.part)
      BY <1>1, <1>7 DEF UnitsOf
    <2>2. "router" \in Table("router").built \/ "link_bus" \in Table("link_bus").built
      BY DEF Table, Blocks, Columns, Router, LinkBus, Bus, If
    <2> QED
      BY <1>4, <2>1, <2>2
  <1>8. CASE c.part \in {"L2", "L3", "L1Directory", "L2Directory"}
    <2>1. c.part \in Units(c.part)
      BY <1>1, <1>8 DEF UnitsOf
    <2>2. Table(c.part) = CacheTable
      BY <1>8 DEF Table
    <2>3. "unicache.caches" \in Table(c.part).built
      BY <2>2 DEF CacheTable, Columns, CacheBuilt, CacheArrays, UniArray
    <2> QED
      BY <1>4, <2>1, <2>3
  <1>9. CASE c.part \in {"niu", "pcie", "flash"}
    <2>1. c.part \in Units(c.part)
      BY <1>1, <1>9 DEF UnitsOf
    <2>2. \/ c.part = "niu" /\ Table("niu").built = NiuBlocks
          \/ c.part = "pcie" /\ Table("pcie").built = PcieBlocks(c)
          \/ c.part = "flash" /\ Table("flash").built = FlashBlocks(c)
      BY <1>9 DEF Table, Blocks, Columns
    <2>3. "mac" \in Table(c.part).built \/ "ctrl" \in Table(c.part).built
      BY <2>2 DEF NiuBlocks, PcieBlocks, FlashBlocks
    <2> QED
      BY <1>4, <2>1, <2>3
  <1> QED
    BY <1>1, <1>5, <1>6, <1>7, <1>8, <1>9 DEF PartKinds

(* A total is whole when every unit that owes it something has been        *)
(* visited for it.                                                         *)
Settled(total) == \A u \in Units(c.part) : Owed(u, total) # {} => u \in SeenFor(total)
WholeWhenSettled == \A total \in PartTotals : PartWhole(total) <=> Settled(total)

LEMMA WholeIsSettled == PartInv => WholeWhenSettled
  <1> SUFFICES ASSUME PartInv, NEW total \in PartTotals PROVE PartWhole(total) <=> Settled(total)
    BY DEF WholeWhenSettled
  <1>1. ConfigOK /\ Counts
    BY ConfigsAssumption DEF PartInv, PartTypeOK, ConfigOK
  <1>2. \A u \in Units(c.part) : SumsAgree(u)
    BY <1>1, AllAgree DEF Agree
  <1>3. ASSUME Settled(total) PROVE PartWhole(total)
    <2> SUFFICES ASSUME NEW u \in Units(c.part), NEW item \in Owed(u, total)
                 PROVE  <<total, u, item>> \in counted /\ <<total, u, item>> \notin twice
      BY DEF PartWhole
    <2>1. u \in SeenFor(total)
      BY <1>3 DEF Settled
    <2>2. item \in Table(u).sums[total] /\ item \notin Again(u, total)
      BY <1>2 DEF SumsAgree
    <2> QED
      BY <1>1, <2>1, <2>2 DEF Counts
  <1>4. ASSUME PartWhole(total), NEW u \in Units(c.part), Owed(u, total) # {}
        PROVE  u \in SeenFor(total)
    <2>1. PICK item : item \in Owed(u, total)
      BY <1>4
    <2>2. <<total, u, item>> \in counted
      BY <1>4, <2>1 DEF PartWhole
    <2> QED
      BY <1>1, <2>2 DEF Counts
  <1> QED
    BY <1>3, <1>4 DEF Settled

LEMMA PromiseStarts ==
    ASSUME PartInit
    PROVE  Model!Init
  <1>1. ConfigOK /\ PartInv
    BY ConfigsAssumption, PartStarts DEF PartInit, ConfigOK
  <1>2. ASSUME NEW total \in PartTotals PROVE ~ PartWhole(total)
    <2>1. SeenFor(total) = {}
      BY DEF PartInit, Seen, SeenFor
    <2> QED
      BY <1>1, <2>1, SomethingOwed, WholeIsSettled DEF WholeWhenSettled, Settled
  <1> QED
    BY <1>2 DEF PartInit, Model!Init

(* A step within a phase is PowerModel's Work, the last of one Advance. *)
LEMMA PromiseKept ==
    ASSUME PartInv, PartNext, WholeWhenSettled'
    PROVE  Model!Next \/ UNCHANGED partVars
  <1> DEFINE whole == {total \in PartTotals : PartWhole(total)}
  <1> SUFFICES ASSUME ~ UNCHANGED partVars PROVE Model!Next
    OBVIOUS
  <1>1. /\ ConstructUnit \/ ComputeUnitEnergy \/ DisplayUnitEnergy \/ DestroyUnit
        /\ InOrder /\ ConfigOK /\ c' = c /\ Step
    <2>1. ConstructUnit \/ ComputeUnitEnergy \/ DisplayUnitEnergy \/ DestroyUnit
      BY DEF PartNext, Terminated
    <2>2. phase \in 1 .. 5 /\ c' = c /\ Step
      BY <2>1 DEF ConstructUnit, ComputeUnitEnergy, DisplayUnitEnergy, DestroyUnit
    <2> QED
      BY ConfigsAssumption, <2>1, <2>2 DEF InOrder, PartInv, PartTypeOK, ConfigOK, Gone
  <1>2. Visit(Unit) /\ (phase' = phase \/ phase' = phase + 1)
    BY <1>1, SeenNext DEF Step
  <1>3. ASSUME NEW total \in PartTotals
        PROVE  /\ PartWhole(total) => PartWhole(total)'
               /\ total \notin Due(phase) => (PartWhole(total)' <=> PartWhole(total))
               /\ total \in Due(phase) /\ phase' = phase + 1 => PartWhole(total)'
    <2>1. Settled(total)' <=>
            \A u \in Units(c.part) : Owed(u, total) # {} => u \in SeenFor(total)'
      BY <1>1, SameTables DEF Settled
    <2>2. SeenFor(total)' = IF total \in Due(phase) THEN SeenFor(total) \cup {Unit}
                            ELSE SeenFor(total)
      BY <1>1, <1>2, SeenForNext
    <2>3. total \in Due(phase) /\ phase' = phase + 1 => SeenFor(total)' = Units(c.part)
      <3> SUFFICES ASSUME total \in Due(phase), phase' = phase + 1
                   PROVE  SeenFor(total)' = Units(c.part)
        OBVIOUS
      <3>1. SeenFor(total)' = Seen(PhaseOf(total))' /\ PhaseOf(total) = phase /\ phase \in 1 .. 5
        BY <1>1, DueIs DEF InOrder
      <3>2. \A p \in 1 .. 5 : phase' > p => Seen(p)' = Units(c.part)
        BY <1>1 DEF Seen
      <3>3. PhaseOf(total) \in 1 .. 5 /\ phase' > PhaseOf(total)
        BY <3>1
      <3> QED
        BY <3>1, <3>2, <3>3
    <2>4. (PartWhole(total) <=> Settled(total)) /\ (PartWhole(total)' <=> Settled(total)')
      BY WholeIsSettled DEF WholeWhenSettled
    <2> QED
      BY <2>1, <2>2, <2>3, <2>4 DEF Settled
  <1>4. /\ phase \in 1 .. 5 /\ Due(phase) \subseteq PartTotals
        /\ Due(phase) = CASE phase = 1 -> {"area"}
                          [] phase = 2 -> {"dynamic", "leakage"}
                          [] phase = 3 -> {"runtime"}
                          [] OTHER -> {}
    BY <1>1 DEF InOrder, Due, Phase, PartTotals
  <1>5. CASE phase' = phase
    <2>1. whole' = whole \cup {total \in Due(phase) : total \in whole'}
      BY <1>3, <1>4
    <2>2. {total \in Due(phase) : total \in whole'} \in SUBSET Model!Due(phase)
      BY <1>4 DEF Model!Due
    <2>3. Model!Work
      <3>1. \A now, later, due : \A done \in SUBSET due :
               later = now \cup done => later \in {now \cup d : d \in SUBSET due}
        OBVIOUS
      <3>2. whole' \in {whole \cup done : done \in SUBSET Model!Due(phase)}
        <4> HIDE DEF whole
        <4> QED
          BY <2>1, <2>2, <3>1
      <3> QED
        BY <1>4, <1>5, <3>2 DEF Model!Work, Model!Gone
    <2> QED
      BY <2>3 DEF Model!Next
  <1>6. CASE phase' = phase + 1
    <2>1. whole' = whole \cup Due(phase)
      BY <1>3, <1>4, <1>6
    <2> QED
      BY <1>4, <1>6, <2>1 DEF Model!Next, Model!Advance, Model!Due, Model!Gone
  <1> QED
    BY <1>2, <1>5, <1>6

(* A part keeps the promise of PowerModel, which McpatMain builds on: none *)
(* of its totals is whole before its phase, each is when the phase ends,   *)
(* and no later phase adds to it or takes from it.                         *)
THEOREM PartKeepsPromise == PartSpec => ImplementsModel
  <1>1. PartInit => Model!Init
    BY PromiseStarts
  <1>2. PartInv /\ WholeWhenSettled' /\ [PartNext]_partVars
        => [Model!Next]_(Model!vars)
    <2>1. UNCHANGED partVars => UNCHANGED Model!vars
      BY DEF partVars, Model!vars, PartWhole, Owed, Table, CacheTable, Below
    <2> QED
      BY <2>1, PromiseKept
  <1>3. PartInv => WholeWhenSettled
    BY WholeIsSettled
  <1> QED
    BY <1>1, <1>2, <1>3, PartInvHolds, PTL DEF PartSpec, ImplementsModel, Model!Spec

(* A part's walk stays within its orders of calls, and a field of stats_t  *)
(* has one last writer, in every part of every valid configuration.        *)
THEOREM PartTypesKept == PartSpec => []PartTypeOK
  <1>1. PartInv => PartTypeOK
    BY DEF PartInv
  <1> QED
    BY <1>1, PartInvHolds, PTL

(* No constructor, pass, display or destructor of a part follows a pointer *)
(* to a leaf or a unit that is not built or is freed already, and nothing  *)
(* is left when the part is deleted, under every valid configuration.      *)
THEOREM NoPointerDangles == PartSpec => []NoDanglingPointer
  <1>1. PartInv => NoDanglingPointer
    BY NoneDangles
  <1> QED
    BY <1>1, PartInvHolds, PTL

(* The heights EXECU's bypasses are as long as, and the peak powers the    *)
(* run-time pass takes a share of, are assigned before they are read; the  *)
(* heights, when the scheduler has its windows and its reorder buffer.     *)
THEOREM NumbersAreAssigned == PartSpec => []NumbersAssigned
  <1>1. PartInv => NumbersAssigned
    BY AllAssigned
  <1> QED
    BY <1>1, PartInvHolds, PTL

(* The run-time power of a leaf holds nothing of the peak pass, and its    *)
(* peak power only the peak pass's statistics, but for the array of a home *)
(* node.                                                                   *)
THEOREM PassesKeepApart == PartSpec => []OwnNumbers
  <1>1. PartInv => OwnNumbers
    BY OwnNumbersOnly
  <1> QED
    BY <1>1, PartInvHolds, PTL
=============================================================================
