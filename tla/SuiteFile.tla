------------------------------ MODULE SuiteFile ------------------------------
(***************************************************************************)
(* CPATiger and FShell write all their tests into one file, testsuite.txt. *)
(* tbf/tools/cpatiger.py and tbf/tools/fshell.py cut it into test cases    *)
(* and make up their names; _perform_processing remembers the names it has *)
(* visited, and XmlWritingTestConverter names the XML file of a test after *)
(* it.  This module is TestProcessing's directory scan for these tools.    *)
(*                                                                         *)
(* The file is a sequence of lines: for CPATiger a line is a whole test,   *)
(* for FShell a line IN begins a test and every other line is one of its   *)
(* inputs.  Which value an input has is left out: its position in the file *)
(* stands for it.  Names are numbers.                                      *)
(***************************************************************************)
EXTENDS Naturals, FiniteSets

CONSTANTS
    Modes,     \* the pairs of a converter and "parallel" or "sequential" considered
    MaxLines   \* bound on the lines of the file

ASSUME ModesAssumption ==
    /\ Modes \subseteq {"cpatiger", "fshell"} \X {"parallel", "sequential"}
    /\ MaxLines \in Nat

VARIABLES
    converter, \* which converter reads the file
    heads,     \* the numbers of the lines that begin a test
    length,    \* the number of lines in the file
    ready,     \* the input generator has returned
    finished,  \* the pass is over
    visited,   \* visited_tests
    taken,     \* history: the test cases of all scans
    xml        \* the XML files, by name: the inputs of the test they hold

vars == <<converter, heads, length, ready, finished, visited, taken, xml>>

\* Each test begins with its head; its inputs follow up to the next head.
InputsOf(h) ==
    IF converter = "cpatiger" THEN {h}
    ELSE {i \in (h + 1)..length : \A g \in heads : g > h => i < g}

\* How many tests there are before the one that begins with h.
RankIn(H, h) == Cardinality({g \in H : g < h})

\* Every variable stays in its domain: CPATiger's tests are named from 0 on, FShell's from 1.
TypeOK ==
    /\ <<converter, "parallel">> \in Modes \/ <<converter, "sequential">> \in Modes
    /\ length \in 0..MaxLines
    /\ heads \in SUBSET (1..length)
    /\ ready \in BOOLEAN
    /\ finished \in BOOLEAN
    /\ visited \in SUBSET (0..MaxLines)
    /\ \A v \in taken :
        /\ v.name \in IF converter = "cpatiger" THEN 0..(length - 1) ELSE 1..length
        /\ v.head \in heads
        /\ v.inputs \subseteq 1..length
    /\ DOMAIN xml \subseteq 0..MaxLines

\* In sequential mode the first scan comes when the file is complete.
Init ==
    /\ \E m \in Modes :
        /\ converter = m[1]
        /\ length \in IF m[2] = "parallel" THEN {0} ELSE 0..MaxLines
        /\ ready = (m[2] = "sequential")
    /\ heads \in {H \in SUBSET (1..length) : length > 0 => 1 \in H}
    /\ converter = "cpatiger" => heads = 1..length
    /\ finished = FALSE
    /\ visited = {}
    /\ taken = {}
    /\ xml = <<>>

-----------------------------------------------------------------------------
(* The tool *)

\* CPATiger appends a test.  FShell writes a whole test at once: IN and inputs.
AppendTest ==
    /\ ~ready
    /\ length < MaxLines
    /\ length' \in IF converter = "cpatiger" THEN {length + 1} ELSE (length + 1)..MaxLines
    /\ heads' = heads \cup {length + 1}
    /\ UNCHANGED <<converter, ready, finished, visited, taken, xml>>

GeneratorReturns ==
    /\ ~ready
    /\ ready' = TRUE
    /\ UNCHANGED <<converter, heads, length, finished, visited, taken, xml>>

-----------------------------------------------------------------------------
(* The converters: _get_test_cases_in_dir(directory, exclude) *)

\* Mutant of CpaTigerTestCases: enumerate(tests, start=1).
CpaTigerTestCasesFromOne(exclude) ==
    LET remaining == {h \in heads : RankIn(heads, h) \notin exclude}
    IN {[name |-> RankIn(remaining, h) + 1, head |-> h, inputs |-> InputsOf(h)] : h \in remaining}

\* CpaTigerTestConverter: tests are left out by their number in the file, and those that
\* remain are numbered anew.
CpaTigerTestCases(exclude) ==
    LET remaining == {h \in heads : RankIn(heads, h) \notin exclude}
    IN {[name |-> RankIn(remaining, h), head |-> h, inputs |-> InputsOf(h)] : h \in remaining}

\* Mutant of FshellTestCases: only tests that are not visited count, as in CPATiger's.
FshellTestCasesRenumbered(exclude) ==
    LET remaining == {h \in heads : RankIn(heads, h) + 1 \notin exclude}
    IN {[name |-> RankIn(remaining, h) + 1, head |-> h, inputs |-> InputsOf(h)] : h \in
            {g \in remaining : (\E f \in heads : f > g) \/ InputsOf(g) # {}}}

\* Mutant of FshellTestCases: the test after the last IN is forgotten.
FshellTestCasesButLast(exclude) ==
    {[name |-> RankIn(heads, h) + 1, head |-> h, inputs |-> InputsOf(h)] : h \in
        {g \in heads : /\ RankIn(heads, g) + 1 \notin exclude
                       /\ \E f \in heads : f > g}}

\* Mutant of FshellTestCases: visited tests are not left out.
FshellTestCasesAgain(exclude) ==
    {[name |-> RankIn(heads, h) + 1, head |-> h, inputs |-> InputsOf(h)] : h \in
        {g \in heads : (\E f \in heads : f > g) \/ InputsOf(g) # {}}}

\* FshellTestConverter: the tests are counted from 1; the last one is only there if it has
\* an input.
FshellTestCases(exclude) ==
    {[name |-> RankIn(heads, h) + 1, head |-> h, inputs |-> InputsOf(h)] : h \in
        {g \in heads : /\ RankIn(heads, g) + 1 \notin exclude
                       /\ (\E f \in heads : f > g) \/ InputsOf(g) # {}}}

TestCases(exclude) ==
    IF converter = "cpatiger" THEN CpaTigerTestCases(exclude) ELSE FshellTestCases(exclude)

-----------------------------------------------------------------------------
(* The pass *)

\* get_test_vectors, the XML files written with force_write, and visited_tests.
Scan ==
    LET batch == TestCases(visited)
        names == {v.name : v \in batch}
    IN /\ ~finished
       /\ taken' = taken \cup batch
       /\ xml' = [n \in DOMAIN xml \cup names |->
                    IF n \in names THEN (CHOOSE v \in batch : v.name = n).inputs ELSE xml[n]]
       /\ visited' = visited \cup names
       /\ UNCHANGED <<converter, heads, length, ready>>

ScanInLoop  == ~ready /\ Scan /\ UNCHANGED finished
ScanAtEnd   == ready /\ Scan /\ finished' = TRUE

Next == AppendTest \/ GeneratorReturns \/ ScanInLoop \/ ScanAtEnd

Spec == Init /\ [][Next]_vars

-----------------------------------------------------------------------------
(* Properties *)

\* TestVector: "Consists of a unique name".  No two tests of a suite share a name, and
\* none gets another name in a later scan (converters; visited_tests relies on it).
NamesAreUnique ==
    \A v, w \in taken : v.name = w.name <=> v.head = w.head

\* At the end of the pass every test of the file with at least one input has an XML file
\* of its own with exactly its inputs, however the file grew between the scans.
EveryTestIsExported ==
    finished => \A h \in heads :
        InputsOf(h) # {} => \E n \in DOMAIN xml : xml[n] = InputsOf(h)

\* A test is handed out at most once: what the next scan finds was in no earlier one, so
\* that no validator runs it again (get_test_vectors with visited_tests).
HandedOutOnce ==
    \A w \in TestCases(visited) : \A v \in taken : v.head # w.head

-----------------------------------------------------------------------------
(* The inductive invariant *)

\* CPATiger counts its tests from 0, FShell from 1.
FirstName == IF converter = "cpatiger" THEN 0 ELSE 1

\* A test that was handed out is named after its place in the file as it is now, and had
\* the inputs it has now: what is appended later changes neither.
NamesArePlaces ==
    \A v \in taken :
        /\ v.name = RankIn(heads, v.head) + FirstName
        /\ v.inputs = InputsOf(v.head)

\* visited_tests has the names of the tests that were handed out; so have the XML files,
\* and each holds the inputs of its test.
VisitedAreTaken ==
    /\ visited = {v.name : v \in taken}
    /\ DOMAIN xml = visited
    /\ \A v \in taken : xml[v.name] = v.inputs

\* CPATiger's file is complete before its only scan.
CpaTigerReadsOnce ==
    converter = "cpatiger" => ready /\ (finished \/ taken = {})

\* The last scan comes after the generator and leaves no test with an input behind.
LastScanTakesAll ==
    finished => /\ ready
                /\ \A h \in heads : InputsOf(h) # {} => \E v \in taken : v.head = h

\* What makes names unique, and tests handed out once and exported, as long as CPATiger's
\* file is read once only (get_test_vectors and visited_tests over all scans).
SuiteInv ==
    /\ TypeOK
    /\ NamesArePlaces
    /\ VisitedAreTaken
    /\ CpaTigerReadsOnce
    /\ LastScanTakesAll
=============================================================================
