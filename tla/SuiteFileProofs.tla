--------------------------- MODULE SuiteFileProofs ---------------------------
(* Proofs about SuiteFile, for files of every length that grow in every    *)
(* way, and every set of modes without CPATiger in parallel, for which     *)
(* NamesAreUnique does not hold.                                           *)
EXTENDS SuiteFile, Integers, TLAPS, FiniteSetTheorems

\* CPATiger's file is only read when it is complete.
StableNames == <<"cpatiger", "parallel">> \notin Modes

-----------------------------------------------------------------------------
(* Lemmas about places in the file *)

\* The number of tests before a line is a number below that of the line.
LEMMA RankBound ==
  ASSUME NEW n \in Nat, NEW H \in SUBSET (1..n), NEW h \in H
  PROVE  RankIn(H, h) \in 0..(h - 1)
  <1> DEFINE Before == {g \in H : g < h}
  <1>1. h \in Int /\ 1 <= h /\ \A g \in H : g \in Int /\ 1 <= g
    OBVIOUS
  <1>2. IsFiniteSet(1..(h - 1)) /\ Cardinality(1..(h - 1)) = h - 1
    BY <1>1, FS_Interval
  <1>3. Before \in SUBSET (1..(h - 1))
    <2> SUFFICES ASSUME NEW g \in H, g < h
                 PROVE  g \in 1..(h - 1)
      BY DEF Before
    <2> QED
      BY <1>1
  <1> HIDE DEF Before
  <1>4. IsFiniteSet(Before) /\ Cardinality(Before) <= h - 1
    BY <1>2, <1>3, FS_Subset
  <1>5. Cardinality(Before) \in Nat
    BY <1>4, FS_CardinalityType
  <1> QED
    BY <1>1, <1>4, <1>5 DEF RankIn, Before

\* Of two tests, the one that comes later has more tests before it.
LEMMA RankIncreases ==
  ASSUME NEW n \in Nat, NEW H \in SUBSET (1..n), NEW g \in H, NEW h \in H, g < h
  PROVE  RankIn(H, g) < RankIn(H, h)
  <1> DEFINE Before(x) == {f \in H : f < x}
  <1>1. g \in Int /\ h \in Int /\ \A f \in H : f \in Int
    OBVIOUS
  <1>2. IsFiniteSet(Before(g)) /\ IsFiniteSet(Before(h))
    <2>1. IsFiniteSet(1..n)
      BY FS_Interval
    <2>2. Before(g) \in SUBSET (1..n) /\ Before(h) \in SUBSET (1..n)
      BY DEF Before
    <2> HIDE DEF Before
    <2> QED
      BY <2>1, <2>2, FS_Subset
  <1>3. (Before(g) \cup {g}) \in SUBSET Before(h) /\ g \notin Before(g)
    <2>1. ASSUME NEW f \in H, f < g
          PROVE  f < h
      BY <1>1, <2>1
    <2>2. ~(g < g)
      BY <1>1
    <2> QED
      BY <2>1, <2>2 DEF Before
  <1> HIDE DEF Before
  <1>4. Cardinality(Before(g) \cup {g}) = Cardinality(Before(g)) + 1
    BY <1>2, <1>3, FS_AddElement
  <1>5. Cardinality(Before(g) \cup {g}) <= Cardinality(Before(h))
    BY <1>2, <1>3, FS_Subset
  <1>6. Cardinality(Before(g)) \in Nat /\ Cardinality(Before(h)) \in Nat
    BY <1>2, FS_CardinalityType
  <1> QED
    BY <1>4, <1>5, <1>6 DEF RankIn, Before

\* So no two tests have the same place.
LEMMA RankIsInjective ==
  ASSUME NEW n \in Nat, NEW H \in SUBSET (1..n), NEW g \in H, NEW h \in H,
         RankIn(H, g) = RankIn(H, h)
  PROVE  g = h
  <1>1. g \in Int /\ h \in Int
    OBVIOUS
  <1>2. RankIn(H, g) \in 0..(g - 1)
    BY RankBound
  <1>3. ~(RankIn(H, g) < RankIn(H, h))
    BY <1>1, <1>2
  <1>4. ~(g < h)
    BY <1>3, RankIncreases
  <1>5. ~(h < g)
    <2>1. h < g => RankIn(H, h) < RankIn(H, g)
      BY RankIncreases
    <2> QED
      BY <1>3, <2>1
  <1> QED
    BY <1>1, <1>4, <1>5

\* Places are numbers.
LEMMA RankIsNumber ==
  ASSUME TypeOK, NEW h \in heads
  PROVE  /\ heads \in SUBSET (1..length) /\ length \in Nat
         /\ RankIn(heads, h) \in Int
         /\ RankIn(heads, h) \in 0..(h - 1)
  <1>1. heads \in SUBSET (1..length) /\ length \in Nat
    BY ModesAssumption DEF TypeOK
  <1>2. RankIn(heads, h) \in 0..(h - 1)
    BY <1>1, RankBound
  <1> QED
    BY <1>1, <1>2

\* A test that is appended has no influence on the places and the inputs of the others.
LEMMA AppendChangesNoTest ==
  ASSUME TypeOK, AppendTest, converter # "cpatiger", NEW h \in heads
  PROVE  /\ RankIn(heads', h) = RankIn(heads, h)
         /\ InputsOf(h)' = InputsOf(h)
  <1>1. /\ heads' = heads \cup {length + 1}
        /\ length' \in (length + 1)..MaxLines
        /\ converter' = converter
    BY DEF AppendTest
  <1>2. length \in Nat /\ heads \in SUBSET (1..length) /\ MaxLines \in Nat
    BY ModesAssumption DEF TypeOK
  <1>3. {g \in heads' : g < h} = {g \in heads : g < h}
    BY <1>1, <1>2
  <1>4. {i \in (h + 1)..length' : \A g \in heads' : g > h => i < g}
          = {i \in (h + 1)..length : \A g \in heads : g > h => i < g}
    <2>1. ASSUME NEW i \in (h + 1)..length'
          PROVE  (\A g \in heads' : g > h => i < g)
                   <=> (i \in (h + 1)..length /\ \A g \in heads : g > h => i < g)
      BY <1>1, <1>2
    <2>2. (h + 1)..length \subseteq (h + 1)..length'
      BY <1>1, <1>2
    <2> QED
      BY <2>1, <2>2
  <1> QED
    BY <1>1, <1>3, <1>4 DEF RankIn, InputsOf

\* Two tests of the file that have the same name are the same.
LEMMA NameDeterminesHead ==
  ASSUME TypeOK, NEW g \in heads, NEW h \in heads,
         RankIn(heads, g) + FirstName = RankIn(heads, h) + FirstName
  PROVE  g = h
  <1>1. heads \in SUBSET (1..length) /\ length \in Nat
    BY RankIsNumber
  <1>2. RankIn(heads, g) \in Int /\ RankIn(heads, h) \in Int
    BY RankIsNumber
  <1>3. RankIn(heads, g) = RankIn(heads, h)
    BY <1>2 DEF FirstName
  <1> QED
    BY <1>1, <1>3, RankIsInjective

-----------------------------------------------------------------------------
(* Lemmas about the converters *)

\* What a scan hands out is new, and named after its place, whichever converter it is.
LEMMA BatchIsNew ==
  ASSUME SuiteInv, NEW v \in TestCases(visited)
  PROVE  /\ v = [name |-> v.name, head |-> v.head, inputs |-> v.inputs]
         /\ v.head \in heads
         /\ v.name = RankIn(heads, v.head) + FirstName
         /\ v.inputs = InputsOf(v.head)
         /\ v.name \notin visited
  <1>1. CASE converter = "cpatiger"
    <2> DEFINE remaining == {h \in heads : RankIn(heads, h) \notin visited}
    <2>1. PICK h \in remaining : v = [name |-> RankIn(remaining, h), head |-> h, inputs |-> InputsOf(h)]
      BY <1>1 DEF TestCases, CpaTigerTestCases
    <2>2. taken = {}
      <3> SUFFICES ASSUME taken # {}
                   PROVE  FALSE
        OBVIOUS
      <3>1. finished
        BY <1>1 DEF SuiteInv, CpaTigerReadsOnce
      <3>2. InputsOf(h) # {}
        BY <1>1 DEF InputsOf
      <3>3. PICK w \in taken : w.head = h
        BY <3>1, <3>2 DEF SuiteInv, LastScanTakesAll
      <3>4. w.name = RankIn(heads, h)
        <4>1. RankIn(heads, h) \in Int
          BY RankIsNumber DEF SuiteInv
        <4> QED
          BY <1>1, <3>3, <4>1 DEF SuiteInv, NamesArePlaces, FirstName
      <3> QED
        BY <3>3, <3>4 DEF SuiteInv, VisitedAreTaken
    <2>3. visited = {} /\ remaining = heads
      BY <2>2 DEF SuiteInv, VisitedAreTaken
    <2>4. RankIn(heads, h) \in Int
      BY RankIsNumber DEF SuiteInv
    <2> QED
      BY <1>1, <2>1, <2>3, <2>4 DEF FirstName
  <1>2. CASE converter # "cpatiger"
    <2>1. PICK h \in heads :
            /\ v = [name |-> RankIn(heads, h) + 1, head |-> h, inputs |-> InputsOf(h)]
            /\ RankIn(heads, h) + 1 \notin visited
      BY <1>2 DEF TestCases, FshellTestCases
    <2> QED
      BY <1>2, <2>1 DEF FirstName
  <1> QED
    BY <1>1, <1>2

\* A scan leaves out no test that has an input, but those that were handed out before.
LEMMA BatchTakesAll ==
  ASSUME SuiteInv, NEW h \in heads, InputsOf(h) # {}
  PROVE  \E v \in taken \cup TestCases(visited) : v.head = h
  <1>1. CASE RankIn(heads, h) + FirstName \in visited
    <2>1. PICK v \in taken : v.name = RankIn(heads, h) + FirstName
      BY <1>1 DEF SuiteInv, VisitedAreTaken
    <2>2. v.head \in heads /\ RankIn(heads, v.head) + FirstName = RankIn(heads, h) + FirstName
      BY <2>1 DEF SuiteInv, TypeOK, NamesArePlaces
    <2> QED
      BY <2>1, <2>2, NameDeterminesHead DEF SuiteInv
  <1>2. CASE RankIn(heads, h) + FirstName \notin visited
    <2>1. RankIn(heads, h) \in Int
      BY RankIsNumber DEF SuiteInv
    <2>2. CASE converter = "cpatiger"
      <3> DEFINE remaining == {g \in heads : RankIn(heads, g) \notin visited}
                 v == [name |-> RankIn(remaining, h), head |-> h, inputs |-> InputsOf(h)]
      <3>1. h \in remaining
        BY <1>2, <2>1, <2>2 DEF FirstName
      <3>2. v \in TestCases(visited)
        BY <2>2, <3>1 DEF TestCases, CpaTigerTestCases
      <3> QED
        BY <3>2
    <2>3. CASE converter # "cpatiger"
      <3> DEFINE v == [name |-> RankIn(heads, h) + 1, head |-> h, inputs |-> InputsOf(h)]
      <3>1. v \in TestCases(visited)
        BY <1>2, <2>3 DEF FirstName, TestCases, FshellTestCases
      <3> QED
        BY <3>1
    <2> QED
      BY <2>2, <2>3
  <1> QED
    BY <1>1, <1>2

\* What a scan leaves behind: the names it handed out, each with the XML file of its test,
\* and the XML files of earlier scans, which it does not overwrite.
LEMMA ScanAddsBatch ==
  ASSUME SuiteInv, Scan
  PROVE  /\ taken' = taken \cup TestCases(visited)
         /\ visited' = {v.name : v \in taken'}
         /\ DOMAIN xml' = visited'
         /\ \A v \in taken' : xml'[v.name] = v.inputs
         /\ UNCHANGED <<converter, heads, length, ready>>
  <1> DEFINE batch == TestCases(visited)
             names == {v.name : v \in batch}
             held(n) == (CHOOSE v \in batch : v.name = n).inputs
  <1>1. /\ taken' = taken \cup batch
        /\ visited' = visited \cup names
        /\ xml' = [n \in DOMAIN xml \cup names |-> IF n \in names THEN held(n) ELSE xml[n]]
        /\ UNCHANGED <<converter, heads, length, ready>>
    BY DEF Scan
  <1>2. /\ visited = {v.name : v \in taken}
        /\ DOMAIN xml = visited
        /\ \A v \in taken : xml[v.name] = v.inputs
    BY DEF SuiteInv, VisitedAreTaken
  <1>3. \A v \in batch : /\ v.head \in heads
                         /\ v.name = RankIn(heads, v.head) + FirstName
                         /\ v.inputs = InputsOf(v.head)
                         /\ v.name \notin visited
    BY BatchIsNew
  <1>4. \A v, w \in batch : v.name = w.name => v.inputs = w.inputs
    <2> SUFFICES ASSUME NEW v \in batch, NEW w \in batch, v.name = w.name
                 PROVE  v.inputs = w.inputs
      OBVIOUS
    <2>1. v.head = w.head
      BY <1>3, NameDeterminesHead DEF SuiteInv
    <2> QED
      BY <1>3, <2>1
  <1> HIDE DEF batch
  <1>5. visited' = {v.name : v \in taken'} /\ DOMAIN xml' = visited'
    BY <1>1, <1>2
  <1>6. ASSUME NEW v \in batch
        PROVE  xml'[v.name] = v.inputs
    <2>1. v.name \in names
      OBVIOUS
    <2>2. (CHOOSE w \in batch : w.name = v.name) \in batch
            /\ (CHOOSE w \in batch : w.name = v.name).name = v.name
      OBVIOUS
    <2>3. held(v.name) = v.inputs
      BY <1>4, <2>2
    <2> HIDE DEF held, names
    <2> QED
      BY <1>1, <2>1, <2>3
  <1>7. ASSUME NEW v \in taken
        PROVE  xml'[v.name] = v.inputs
    <2>1. v.name \in DOMAIN xml /\ v.name \notin names
      BY <1>2, <1>3
    <2> HIDE DEF held, names
    <2> QED
      BY <1>1, <1>2, <2>1
  <1> QED
    BY <1>1, <1>5, <1>6, <1>7 DEF batch

-----------------------------------------------------------------------------
(* The inductive invariant *)

\* In an initial state nothing has been read, and CPATiger's file is complete.
LEMMA InitImpliesInv ==
  ASSUME StableNames, Init
  PROVE  SuiteInv
  <1>1. TypeOK
    <2>1. PICK m \in Modes :
            /\ converter = m[1]
            /\ length \in IF m[2] = "parallel" THEN {0} ELSE 0..MaxLines
            /\ ready = (m[2] = "sequential")
      BY DEF Init
    <2>2. m = <<converter, "parallel">> \/ m = <<converter, "sequential">>
      BY <2>1, ModesAssumption
    <2>3. length \in 0..MaxLines
      BY <2>1, ModesAssumption
    <2>4. ready \in BOOLEAN
      BY <2>1
    <2>5. heads \in SUBSET (1..length) /\ finished = FALSE
      BY DEF Init
    <2>6. visited = {} /\ taken = {} /\ DOMAIN xml = {}
      BY DEF Init
    <2>7. finished \in BOOLEAN
      BY <2>5
    <2> QED
      BY <2>1, <2>2, <2>3, <2>4, <2>5, <2>6, <2>7 DEF TypeOK
  <1>2. NamesArePlaces /\ VisitedAreTaken /\ LastScanTakesAll
    BY DEF Init, NamesArePlaces, VisitedAreTaken, LastScanTakesAll
  <1>3. CpaTigerReadsOnce
    <2> SUFFICES ASSUME converter = "cpatiger"
                 PROVE  ready
      BY DEF Init, CpaTigerReadsOnce
    <2>1. PICK m \in Modes : converter = m[1] /\ ready = (m[2] = "sequential")
      BY DEF Init
    <2>2. m = <<"cpatiger", "parallel">> \/ m = <<"cpatiger", "sequential">>
      BY <2>1, ModesAssumption
    <2>3. m # <<"cpatiger", "parallel">>
      BY DEF StableNames
    <2>4. m[2] = "sequential"
      BY <2>2, <2>3
    <2> QED
      BY <2>1, <2>4
  <1> QED
    BY <1>1, <1>2, <1>3 DEF SuiteInv

\* A test that FShell appends has a place of its own, behind all others.
LEMMA AppendPreservesInv ==
  ASSUME SuiteInv, AppendTest
  PROVE  SuiteInv'
  <1>1. /\ ~ready /\ converter # "cpatiger"
        /\ length < MaxLines
        /\ length' \in (length + 1)..MaxLines
        /\ heads' = heads \cup {length + 1}
        /\ UNCHANGED <<converter, ready, finished, visited, taken, xml>>
    BY DEF AppendTest, SuiteInv, CpaTigerReadsOnce
  <1>2. TypeOK
    BY DEF SuiteInv
  <1>3. length \in Nat /\ length' \in Nat /\ length < length' /\ MaxLines \in Nat
    BY <1>1, <1>2, ModesAssumption DEF TypeOK
  <1>4. TypeOK'
    <2>1. heads' \in SUBSET (1..length')
      BY <1>1, <1>2, <1>3 DEF TypeOK
    <2>2. ASSUME NEW v \in taken
          PROVE  v.name \in 1..length' /\ v.head \in heads' /\ v.inputs \subseteq 1..length'
      <3>1. v.name \in 1..length /\ v.head \in heads /\ v.inputs \subseteq 1..length
        BY <1>1, <1>2 DEF TypeOK
      <3>2. 1..length \subseteq 1..length'
        BY <1>3
      <3> QED
        BY <1>1, <3>1, <3>2
    <2>3. length' \in 0..MaxLines
      BY <1>1, <1>3
    <2>4. (ready \in BOOLEAN)' /\ (finished \in BOOLEAN)'
      BY <1>1, <1>2 DEF TypeOK
    <2>5. /\ (<<converter, "parallel">> \in Modes \/ <<converter, "sequential">> \in Modes)'
          /\ visited' \in SUBSET (0..MaxLines)
          /\ DOMAIN xml' \subseteq 0..MaxLines
      BY <1>1, <1>2 DEF TypeOK
    <2> QED
      BY <1>1, <2>1, <2>2, <2>3, <2>4, <2>5 DEF TypeOK
  <1>5. NamesArePlaces'
    <2> SUFFICES ASSUME NEW v \in taken
                 PROVE  v.name = RankIn(heads', v.head) + FirstName' /\ v.inputs = InputsOf(v.head)'
      BY <1>1 DEF NamesArePlaces
    <2>1. v.head \in heads
      BY <1>2 DEF TypeOK
    <2>2. RankIn(heads', v.head) = RankIn(heads, v.head) /\ InputsOf(v.head)' = InputsOf(v.head)
      BY <1>1, <1>2, <2>1, AppendChangesNoTest
    <2>3. FirstName' = FirstName
      BY <1>1 DEF FirstName
    <2> QED
      BY <2>2, <2>3 DEF SuiteInv, NamesArePlaces
  <1>6. VisitedAreTaken'
    BY <1>1 DEF SuiteInv, VisitedAreTaken
  <1>7. CpaTigerReadsOnce' /\ LastScanTakesAll'
    BY <1>1 DEF SuiteInv, CpaTigerReadsOnce, LastScanTakesAll
  <1> QED
    BY <1>4, <1>5, <1>6, <1>7 DEF SuiteInv

\* A scan hands out tests under names of their own.
LEMMA ScanPreservesInv ==
  ASSUME SuiteInv, ScanInLoop \/ ScanAtEnd
  PROVE  SuiteInv'
  <1>1. /\ Scan
        /\ (~ready /\ finished' = finished) \/ (ready /\ finished' = TRUE)
    BY DEF ScanInLoop, ScanAtEnd
  <1>2. /\ taken' = taken \cup TestCases(visited)
        /\ visited' = {v.name : v \in taken'}
        /\ DOMAIN xml' = visited'
        /\ \A v \in taken' : xml'[v.name] = v.inputs
        /\ UNCHANGED <<converter, heads, length, ready>>
    BY <1>1, ScanAddsBatch
  <1>3. TypeOK
    BY DEF SuiteInv
  <1>4. \A v \in taken' : /\ v.head \in heads
                          /\ v.name = RankIn(heads, v.head) + FirstName
                          /\ v.inputs = InputsOf(v.head)
    BY <1>2, BatchIsNew DEF SuiteInv, TypeOK, NamesArePlaces
  <1>5. length \in 0..MaxLines /\ length \in Nat /\ heads \in SUBSET (1..length) /\ MaxLines \in Nat
    BY <1>3, ModesAssumption DEF TypeOK
  <1>6. ASSUME NEW v \in taken'
        PROVE  /\ v.name \in IF converter = "cpatiger" THEN 0..(length - 1) ELSE 1..length
               /\ v.inputs \subseteq 1..length
               /\ v.name \in 0..MaxLines
    <2>1. v.head \in heads /\ v.head \in 1..length
      BY <1>4, <1>5
    <2>2. RankIn(heads, v.head) \in 0..(v.head - 1)
      BY <1>3, <2>1, RankIsNumber
    <2>3. v.name = RankIn(heads, v.head) + FirstName /\ v.inputs = InputsOf(v.head)
      BY <1>4
    <2>4. v.inputs \subseteq 1..length
      BY <1>5, <2>1, <2>3 DEF InputsOf
    <2>5. RankIn(heads, v.head) \in 0..(length - 1)
      BY <1>5, <2>1, <2>2
    <2>6. CASE converter = "cpatiger"
      BY <1>5, <2>3, <2>4, <2>5, <2>6 DEF FirstName
    <2>7. CASE converter # "cpatiger"
      BY <1>5, <2>3, <2>4, <2>5, <2>7 DEF FirstName
    <2> QED
      BY <2>6, <2>7
  <1>7. TypeOK'
    <2>1. finished' \in BOOLEAN /\ ready' \in BOOLEAN
      BY <1>1, <1>2, <1>3 DEF TypeOK
    <2>2. visited' \in SUBSET (0..MaxLines) /\ DOMAIN xml' \subseteq 0..MaxLines
      BY <1>2, <1>6
    <2>3. /\ (<<converter, "parallel">> \in Modes \/ <<converter, "sequential">> \in Modes)'
          /\ length' \in 0..MaxLines
          /\ heads' \in SUBSET (1..length')
      BY <1>2, <1>3 DEF TypeOK
    <2> QED
      BY <1>2, <1>4, <1>6, <2>1, <2>2, <2>3 DEF TypeOK
  <1>8. NamesArePlaces'
    BY <1>2, <1>4 DEF NamesArePlaces, FirstName, InputsOf, RankIn
  <1>9. VisitedAreTaken'
    BY <1>2 DEF VisitedAreTaken
  <1>10. LastScanTakesAll' /\ CpaTigerReadsOnce'
    <2>1. ~finished
      BY <1>1 DEF Scan
    <2>2. CASE ready
      <3>1. \A h \in heads : InputsOf(h) # {} => \E v \in taken' : v.head = h
        BY <1>2, BatchTakesAll
      <3>2. \A h \in heads : InputsOf(h)' = InputsOf(h)
        BY <1>2 DEF InputsOf
      <3> QED
        BY <1>1, <1>2, <2>2, <3>1, <3>2 DEF LastScanTakesAll, CpaTigerReadsOnce
    <2>3. CASE ~ready
      BY <1>1, <1>2, <2>1, <2>3 DEF SuiteInv, LastScanTakesAll, CpaTigerReadsOnce
    <2> QED
      BY <2>2, <2>3
  <1> QED
    BY <1>7, <1>8, <1>9, <1>10 DEF SuiteInv

\* Every step keeps the invariant.
LEMMA NextPreservesInv ==
  ASSUME SuiteInv, [Next]_vars
  PROVE  SuiteInv'
  <1>1. CASE AppendTest
    BY <1>1, AppendPreservesInv
  <1>2. CASE GeneratorReturns
    <2>1. ready' = TRUE /\ UNCHANGED <<converter, heads, length, finished, visited, taken, xml>>
      BY <1>2 DEF GeneratorReturns
    <2>2. TypeOK' /\ NamesArePlaces' /\ VisitedAreTaken'
      BY <2>1 DEF SuiteInv, TypeOK, NamesArePlaces, VisitedAreTaken, FirstName, RankIn, InputsOf
    <2>3. CpaTigerReadsOnce' /\ LastScanTakesAll'
      BY <2>1 DEF SuiteInv, CpaTigerReadsOnce, LastScanTakesAll, InputsOf
    <2> QED
      BY <2>2, <2>3 DEF SuiteInv
  <1>3. CASE ScanInLoop \/ ScanAtEnd
    BY <1>3, ScanPreservesInv
  <1>4. CASE UNCHANGED vars
    BY <1>4 DEF vars, SuiteInv, TypeOK, NamesArePlaces, VisitedAreTaken, CpaTigerReadsOnce,
                LastScanTakesAll, FirstName, RankIn, InputsOf
  <1> QED
    BY <1>1, <1>2, <1>3, <1>4 DEF Next

-----------------------------------------------------------------------------
(* Theorems *)

\* The inductive invariant holds for every file, as long as CPATiger's is read once only
\* (_get_test_cases_in_dir of both converters, visited_tests and the XML files).
THEOREM SuiteCorrect ==
  ASSUME StableNames
  PROVE  Spec => []SuiteInv
  <1>1. Init => SuiteInv
    BY InitImpliesInv
  <1>2. SuiteInv /\ [Next]_vars => SuiteInv'
    BY NextPreservesInv
  <1> QED
    BY <1>1, <1>2, PTL DEF Spec

\* No two tests of a suite share a name, and none changes it, however often the file is
\* read while it grows (TestVector: "Consists of a unique name").
THEOREM NamesUnique ==
  ASSUME StableNames
  PROVE  Spec => []NamesAreUnique
  <1>1. ASSUME SuiteInv
        PROVE  NamesAreUnique
    <2> SUFFICES ASSUME NEW v \in taken, NEW w \in taken
                 PROVE  v.name = w.name <=> v.head = w.head
      BY DEF NamesAreUnique
    <2>1. /\ v.head \in heads /\ v.name = RankIn(heads, v.head) + FirstName
          /\ w.head \in heads /\ w.name = RankIn(heads, w.head) + FirstName
      BY <1>1 DEF SuiteInv, TypeOK, NamesArePlaces
    <2> QED
      BY <1>1, <2>1, NameDeterminesHead DEF SuiteInv
  <1> QED
    BY <1>1, SuiteCorrect, PTL

\* At the end every test with an input has an XML file with its inputs (XmlWritingTestConverter
\* with force_write: no later test overwrites it).
THEOREM TestsExported ==
  ASSUME StableNames
  PROVE  Spec => []EveryTestIsExported
  <1>1. ASSUME SuiteInv
        PROVE  EveryTestIsExported
    <2> SUFFICES ASSUME finished, NEW h \in heads, InputsOf(h) # {}
                 PROVE  \E n \in DOMAIN xml : xml[n] = InputsOf(h)
      BY DEF EveryTestIsExported
    <2>1. PICK v \in taken : v.head = h
      BY <1>1 DEF SuiteInv, LastScanTakesAll
    <2>2. v.name \in DOMAIN xml /\ xml[v.name] = InputsOf(h)
      BY <1>1, <2>1 DEF SuiteInv, VisitedAreTaken, NamesArePlaces
    <2> QED
      BY <2>2
  <1> QED
    BY <1>1, SuiteCorrect, PTL

\* No scan hands out a test again, so that no validator runs it twice (visited_tests).
THEOREM TestsHandedOutOnce ==
  ASSUME StableNames
  PROVE  Spec => []HandedOutOnce
  <1>1. ASSUME SuiteInv
        PROVE  HandedOutOnce
    <2> SUFFICES ASSUME NEW w \in TestCases(visited), NEW v \in taken, v.head = w.head
                 PROVE  FALSE
      BY DEF HandedOutOnce
    <2>1. v.name = RankIn(heads, v.head) + FirstName /\ v.name \in visited
      BY <1>1 DEF SuiteInv, NamesArePlaces, VisitedAreTaken
    <2>2. w.name = RankIn(heads, w.head) + FirstName /\ w.name \notin visited
      BY <1>1, BatchIsNew
    <2> QED
      BY <2>1, <2>2
  <1> QED
    BY <1>1, SuiteCorrect, PTL
=============================================================================
