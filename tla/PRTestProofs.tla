---------------------------- MODULE PRTestProofs ----------------------------
(* Proofs about PRTest, for every set of guards and of values, every       *)
(* MAX_TEST_SIZE and every MAX_TEST_NUMBER.                                *)
EXTENDS PRTest, FiniteSets, TLAPS, SequenceTheorems, FiniteSetTheorems

-----------------------------------------------------------------------------
(* Lemmas about the operators of the model *)

\* reset_test_vector stops at the first empty row, and yet empties every row: behind the
\* rows of the last run there are none.
LEMMA ResetRowsEmpties ==
  ASSUME TypeOK, RowsAreInputs
  PROVE  ResetRows = [i \in Rows |-> Empty]
  <1> SUFFICES ASSUME NEW i \in Rows
               PROVE  (i < MAX_TEST_SIZE /\ \A j \in 0..i : test_vector[j] # Empty)
                        \/ test_vector[i] = Empty
    BY DEF ResetRows
  <1>1. CASE i < test_size
    <2>1. \A j \in 0..i : test_vector[j] = received[j + 1] /\ received[j + 1] \in Values
      BY <1>1, LimitsAssumption DEF TypeOK, RowsAreInputs, Rows
    <2>2. i < MAX_TEST_SIZE
      BY <1>1, LimitsAssumption DEF TypeOK, Rows
    <2> QED
      BY <2>1, <2>2, LimitsAssumption
  <1>2. CASE ~(i < test_size)
    BY <1>2 DEF RowsAreInputs
  <1> QED
    BY <1>1, <1>2

\* When write_test finds an empty row, tmp_vector has the inputs of the run, all of them.
LEMMA EmptyRowEndsInputs ==
  ASSUME TypeOK, RowsAreInputs, TmpIsPrefix, pc = "writing",
         test_vector[Len(tmp_vector)] = Empty
  PROVE  tmp_vector = received
  <1>1. Len(tmp_vector) \in 0..test_size
    BY LenProperties DEF TypeOK, TmpIsPrefix, Rows
  <1>2. ~(Len(tmp_vector) < test_size)
    <2> SUFFICES ASSUME Len(tmp_vector) < test_size
                 PROVE  FALSE
      OBVIOUS
    <2>1. test_vector[Len(tmp_vector)] = received[Len(tmp_vector) + 1]
      BY <1>1, LimitsAssumption DEF TypeOK, RowsAreInputs, Rows
    <2>2. received[Len(tmp_vector) + 1] \in Values
      BY <1>1, LimitsAssumption DEF TypeOK, RowsAreInputs, Rows
    <2> QED
      BY <2>1, <2>2, LimitsAssumption
  <1>3. Len(tmp_vector) = Len(received)
    BY <1>1, <1>2, LimitsAssumption DEF TypeOK, RowsAreInputs, Rows
  <1> QED
    BY <1>3, SeqEqual DEF TypeOK, TmpIsPrefix

\* Renaming tmp_vector adds one file and leaves the others alone.
LEMMA RenameAddsFile ==
  ASSUME TypeOK, FilesAreNumbered, Rename
  PROVE  /\ DOMAIN files' = 0..test_runs
         /\ test_runs \notin DOMAIN files
         /\ files'[test_runs] = [rows |-> tmp_vector, received |-> received, newly |-> newly]
         /\ \A n \in DOMAIN files : n \in DOMAIN files' /\ files'[n] = files[n]
         /\ Written' = Written \cup newly
  <1>1. DOMAIN files' = 0..test_runs
    BY LimitsAssumption DEF TypeOK, FilesAreNumbered, Rename
  <1>2. test_runs \notin DOMAIN files
    BY LimitsAssumption DEF TypeOK, FilesAreNumbered
  <1>3. files'[test_runs] = [rows |-> tmp_vector, received |-> received, newly |-> newly]
    BY <1>1, LimitsAssumption DEF TypeOK, Rename
  <1>4. \A n \in DOMAIN files : n \in DOMAIN files' /\ files'[n] = files[n]
    BY <1>2 DEF Rename
  <1>5. DOMAIN files' = DOMAIN files \cup {test_runs}
    BY DEF Rename
  <1>6. Written' = Written \cup newly
    BY <1>3, <1>4, <1>5 DEF Written
  <1> QED
    BY <1>1, <1>2, <1>3, <1>4, <1>6

-----------------------------------------------------------------------------
(* The inductive invariant *)

\* The initial state satisfies it.
LEMMA InitImpliesInv == Init => TesterInv
  <1> USE LimitsAssumption
  <1> SUFFICES ASSUME Init
               PROVE  TesterInv
    OBVIOUS
  <1>1. TypeOK
    BY EmptySeq DEF Init, TypeOK, Rows
  <1>2. RowsAreInputs /\ TmpIsPrefix
    BY DEF Init, RowsAreInputs, TmpIsPrefix, Rows
  <1>3. DOMAIN files = {}
    BY DEF Init
  <1>4. FilesAreNumbered /\ FilesAreFaithful /\ FilesAreMeaningful /\ WritesAreJustified
    BY <1>3 DEF Init, InRun, FilesAreNumbered, FilesAreFaithful, FilesAreMeaningful,
                WritesAreJustified
  <1>5. NewIsUnwritten /\ CoverageIsWritten
    BY <1>3 DEF Init, InRun, NewIsUnwritten, CoverageIsWritten
  <1> QED
    BY <1>1, <1>2, <1>4, <1>5 DEF TesterInv

\* Every step of the tester, and its death, preserves type correctness.
LEMMA NextPreservesType == TesterInv /\ [Next]_vars => TypeOK'
  <1> SUFFICES ASSUME TesterInv, [Next]_vars
               PROVE  TypeOK'
    OBVIOUS
  <1> USE LimitsAssumption DEF TesterInv, TypeOK
  <1>1. CASE StartRun
    <2>1. test_vector' = [i \in Rows |-> Empty]
      BY <1>1, ResetRowsEmpties DEF StartRun
    <2>2. received' \in Seq(Values)
      BY <1>1, EmptySeq DEF StartRun
    <2>3. test_vector' \in [Rows -> Values \cup {Empty}] /\ test_vector'[MAX_TEST_SIZE] = Empty
      BY <2>1 DEF Rows
    <2>4. test_size' \in Rows
      BY <1>1 DEF StartRun, Rows
    <2> QED
      BY <1>1, <2>2, <2>3, <2>4 DEF StartRun
  <1>2. CASE LoopEnds \/ RunEnds \/ ReachError \/ AfterRun \/ Die
    BY <1>2 DEF LoopEnds, RunEnds, ReachError, AfterRun, Die
  <1>3. ASSUME NEW g \in Guards, Cover(g)
        PROVE  TypeOK'
    BY <1>3 DEF Cover
  <1>4. ASSUME NEW v \in Values, input(v)
        PROVE  TypeOK'
    <2>1. test_size < MAX_TEST_SIZE
      BY <1>4 DEF input, RowsAreInputs
    <2>2. /\ test_vector' \in [Rows -> Values \cup {Empty}]
          /\ test_vector'[MAX_TEST_SIZE] = Empty
          /\ test_size' \in Rows
      BY <1>4, <2>1 DEF input, Rows
    <2>3. received' \in Seq(Values) /\ pc' \in {"after", "run"}
      BY <1>4, AppendProperties DEF input
    <2> QED
      BY <1>4, <2>2, <2>3 DEF input
  <1>5. CASE OpenTmp
    BY <1>5, EmptySeq DEF OpenTmp
  <1>6. CASE WriteRow
    <2>1. Len(tmp_vector) \in Rows
      BY <1>6, LenProperties DEF WriteRow, TmpIsPrefix, Rows
    <2>2. test_vector[Len(tmp_vector)] \in Values
      BY <1>6, <2>1 DEF WriteRow
    <2> QED
      BY <1>6, <2>2, AppendProperties DEF WriteRow
  <1>7. CASE Rename
    <2>1. \A n \in DOMAIN files' : n \in Nat /\ files'[n] \in TestFiles
      BY <1>7, RenameAddsFile DEF TestFiles, FilesAreNumbered
    <2>2. test_runs' \in 0..MAX_TEST_NUMBER
      BY <1>7 DEF Rename, NextTestNumber, FilesAreNumbered, InRun
    <2> QED
      BY <1>7, <2>1, <2>2, EmptySeq DEF Rename, AfterWrite
  <1>8. CASE UNCHANGED vars
    BY <1>8 DEF vars
  <1> QED
    BY <1>1, <1>2, <1>3, <1>4, <1>5, <1>6, <1>7, <1>8 DEF Next, TesterNext

\* They preserve the inductive invariant.
LEMMA NextPreservesInv == TesterInv /\ [Next]_vars => TesterInv'
  <1> SUFFICES ASSUME TesterInv, [Next]_vars
               PROVE  TesterInv'
    OBVIOUS
  <1>0. TypeOK'
    BY NextPreservesType
  <1> USE LimitsAssumption, <1>0 DEF TesterInv
  <1>1. CASE StartRun
    <2>1. RowsAreInputs'
      <3>1. test_vector' = [i \in Rows |-> Empty]
        BY <1>1, ResetRowsEmpties DEF StartRun
      <3> QED
        BY <1>1, <3>1 DEF StartRun, RowsAreInputs, Rows
    <2>2. FilesAreNumbered' /\ FilesAreFaithful' /\ TmpIsPrefix'
      BY <1>1 DEF StartRun, FilesAreNumbered, FilesAreFaithful, TmpIsPrefix, TypeOK
    <2>3. NewIsUnwritten' /\ CoverageIsWritten'
      BY <1>1 DEF StartRun, NewIsUnwritten, CoverageIsWritten, Written, InRun
    <2>4. WritesAreJustified' /\ FilesAreMeaningful'
      BY <1>1 DEF StartRun, WritesAreJustified, FilesAreMeaningful
    <2> QED
      BY <2>1, <2>2, <2>3, <2>4
  <1>2. CASE LoopEnds \/ Die
    <2>1. RowsAreInputs' /\ TmpIsPrefix' /\ FilesAreNumbered' /\ FilesAreFaithful'
      BY <1>2 DEF LoopEnds, Die, RowsAreInputs, TmpIsPrefix, FilesAreNumbered,
                  FilesAreFaithful, InRun
    <2>2. NewIsUnwritten' /\ CoverageIsWritten' /\ WritesAreJustified' /\ FilesAreMeaningful'
      BY <1>2 DEF LoopEnds, Die, NewIsUnwritten, CoverageIsWritten, WritesAreJustified,
                  FilesAreMeaningful, InRun, TypeOK
    <2> QED
      BY <2>1, <2>2
  <1>3. ASSUME NEW g \in Guards, Cover(g)
        PROVE  TesterInv'
    <2>1. RowsAreInputs' /\ TmpIsPrefix' /\ FilesAreNumbered' /\ FilesAreFaithful'
      BY <1>3 DEF Cover, RowsAreInputs, TmpIsPrefix, FilesAreNumbered, FilesAreFaithful,
                  InRun
    <2>2. NewIsUnwritten'
      BY <1>3 DEF Cover, NewIsUnwritten, Written, InRun
    <2>3. CoverageIsWritten' /\ WritesAreJustified' /\ FilesAreMeaningful'
      BY <1>3 DEF Cover, CoverageIsWritten, WritesAreJustified, FilesAreMeaningful
    <2> QED
      BY <2>1, <2>2, <2>3
  <1>4. ASSUME NEW v \in Values, input(v)
        PROVE  TesterInv'
    <2>1. RowsAreInputs'
      <3>1. test_size = Len(received) /\ test_size < MAX_TEST_SIZE /\ test_size \in Nat
        BY <1>4 DEF input, RowsAreInputs, TypeOK, Rows
      <3>2. /\ Len(received') = test_size + 1
            /\ \A i \in 1..test_size : received'[i] = received[i]
            /\ received'[test_size + 1] = v
        BY <1>4, <3>1, AppendProperties DEF input, TypeOK
      <3>3. \A i \in Rows : test_vector'[i] = IF i = test_size THEN v ELSE test_vector[i]
        BY <1>4 DEF input, TypeOK
      <3>4. \A i \in Rows : test_vector'[i] = IF i < test_size' THEN received'[i + 1] ELSE Empty
        BY <1>4, <3>1, <3>2, <3>3 DEF input, RowsAreInputs, Rows
      <3>5. pc' = "run" => test_size' < MAX_TEST_SIZE
        BY <1>4, <3>1 DEF input, IsTooLong
      <3> QED
        BY <1>4, <3>1, <3>2, <3>4, <3>5 DEF input, RowsAreInputs
    <2>2. TmpIsPrefix' /\ FilesAreNumbered' /\ FilesAreFaithful'
      BY <1>4 DEF input, TmpIsPrefix, FilesAreNumbered, FilesAreFaithful, InRun
    <2>3. NewIsUnwritten' /\ CoverageIsWritten' /\ WritesAreJustified' /\ FilesAreMeaningful'
      BY <1>4 DEF input, NewIsUnwritten, Written, CoverageIsWritten, WritesAreJustified,
                  FilesAreMeaningful, InRun
    <2> QED
      BY <2>1, <2>2, <2>3
  <1>5. CASE RunEnds \/ ReachError \/ AfterRun
    <2>1. RowsAreInputs' /\ TmpIsPrefix' /\ FilesAreNumbered' /\ FilesAreFaithful'
      BY <1>5 DEF RunEnds, ReachError, AfterRun, RowsAreInputs, TmpIsPrefix,
                  FilesAreNumbered, FilesAreFaithful, InRun
    <2>2. NewIsUnwritten' /\ CoverageIsWritten'
      BY <1>5 DEF RunEnds, ReachError, AfterRun, NewIsUnwritten, CoverageIsWritten,
                  Written, InRun
    <2>3. WritesAreJustified' /\ FilesAreMeaningful'
      BY <1>5 DEF RunEnds, ReachError, AfterRun, NewIsUnwritten, WritesAreJustified,
                  FilesAreMeaningful
    <2> QED
      BY <2>1, <2>2, <2>3
  <1>6. CASE OpenTmp \/ WriteRow
    <2>1. TmpIsPrefix'
      <3>1. CASE OpenTmp
        BY <3>1, EmptySeq DEF OpenTmp, TmpIsPrefix, TypeOK, Rows
      <3>2. CASE WriteRow
        <4>1. Len(tmp_vector) \in Nat /\ Len(tmp_vector) \in Rows /\ test_size \in Rows
          BY <3>2, LenProperties DEF WriteRow, TmpIsPrefix, TypeOK, Rows
        <4>2. /\ Len(tmp_vector) < test_size
              /\ test_vector[Len(tmp_vector)] = received[Len(tmp_vector) + 1]
          BY <3>2, <4>1 DEF WriteRow, RowsAreInputs
        <4>3. test_vector[Len(tmp_vector)] \in Values
          BY <3>2, <4>1 DEF WriteRow, TypeOK
        <4>4. /\ Len(tmp_vector') = Len(tmp_vector) + 1
              /\ \A i \in 1..Len(tmp_vector) : tmp_vector'[i] = tmp_vector[i]
              /\ tmp_vector'[Len(tmp_vector) + 1] = test_vector[Len(tmp_vector)]
          BY <3>2, <4>3, AppendProperties DEF WriteRow, TypeOK
        <4> QED
          BY <3>2, <4>1, <4>2, <4>4 DEF WriteRow, TmpIsPrefix, Rows
      <3> QED
        BY <1>6, <3>1, <3>2
    <2>2. RowsAreInputs' /\ FilesAreNumbered' /\ FilesAreFaithful'
      BY <1>6 DEF OpenTmp, WriteRow, RowsAreInputs, FilesAreNumbered, FilesAreFaithful, InRun
    <2>3. NewIsUnwritten' /\ CoverageIsWritten' /\ WritesAreJustified' /\ FilesAreMeaningful'
      BY <1>6 DEF OpenTmp, WriteRow, NewIsUnwritten, Written, CoverageIsWritten,
                  WritesAreJustified, FilesAreMeaningful, InRun
    <2> QED
      BY <2>1, <2>2, <2>3
  <1>7. CASE Rename
    <2>1. /\ DOMAIN files' = 0..test_runs
          /\ test_runs \notin DOMAIN files
          /\ files'[test_runs] = [rows |-> tmp_vector, received |-> received, newly |-> newly]
          /\ \A n \in DOMAIN files : files'[n] = files[n]
          /\ Written' = Written \cup newly
      BY <1>7, RenameAddsFile
    <2>2. /\ test_runs \in Nat /\ test_runs' = test_runs + 1
          /\ test_runs' - 1 = test_runs
          /\ DOMAIN files = 0..(test_runs - 1)
      BY <1>7 DEF Rename, NextTestNumber, TypeOK, FilesAreNumbered
    <2>3. \A n \in DOMAIN files' : n = test_runs \/ n \in DOMAIN files
      BY <2>1, <2>2
    <2>4. RowsAreInputs' /\ TmpIsPrefix'
      BY <1>7 DEF Rename, RowsAreInputs, TmpIsPrefix, AfterWrite
    <2>5. FilesAreNumbered'
      BY <1>7, <2>1, <2>2 DEF Rename, FilesAreNumbered, InRun, AfterWrite
    <2>6. FilesAreFaithful'
      <3>1. tmp_vector = received
        BY <1>7, EmptyRowEndsInputs DEF Rename
      <3> QED
        BY <2>1, <2>3, <3>1 DEF FilesAreFaithful
    <2>7. NewIsUnwritten' /\ CoverageIsWritten'
      BY <1>7, <2>1 DEF Rename, NewIsUnwritten, CoverageIsWritten, Written, InRun,
                        AfterWrite
    <2>8. WritesAreJustified'
      <3>1. pc' = IF success THEN "over" ELSE "loop"
        BY <1>7 DEF Rename, AfterWrite
      <3>2. ErrorIsLast'
        BY <1>7, <2>1, <2>2 DEF Rename, ErrorIsLast
      <3>3. ~success => \A n \in DOMAIN files' : files'[n].newly # {}
        BY <1>7, <2>1, <2>3 DEF Rename, WritesAreJustified
      <3> QED
        BY <1>7, <3>1, <3>2, <3>3 DEF Rename, WritesAreJustified, TypeOK
    <2>9. FilesAreMeaningful'
      <3>1. ASSUME NEW n \in DOMAIN files
            PROVE  files'[n].newly # {} /\ files'[n].newly \cap newly = {}
        BY <1>7, <2>1 DEF Rename, WritesAreJustified, NewIsUnwritten, Written, InRun
      <3>2. newly = {} => success'
        BY <1>7 DEF Rename, WritesAreJustified
      <3> QED
        BY <2>1, <2>2, <2>3, <3>1, <3>2 DEF FilesAreMeaningful
    <2> QED
      BY <2>4, <2>5, <2>6, <2>7, <2>8, <2>9
  <1>8. CASE UNCHANGED vars
    BY <1>8 DEF vars, RowsAreInputs, TmpIsPrefix, FilesAreNumbered, FilesAreFaithful,
                NewIsUnwritten, Written, CoverageIsWritten, WritesAreJustified,
                ErrorIsLast, FilesAreMeaningful, InRun
  <1> QED
    BY <1>1, <1>2, <1>3, <1>4, <1>5, <1>6, <1>7, <1>8 DEF Next, TesterNext

\* The inductive invariant, type correctness included, holds whatever the program under
\* test does and whenever the tester dies.
THEOREM TesterCorrect == Spec => []TesterInv
  <1>1. Init => TesterInv
    BY InitImpliesInv
  <1>2. TesterInv /\ [Next]_vars => TesterInv'
    BY NextPreservesInv
  <1> QED
    BY <1>1, <1>2, PTL DEF Spec

-----------------------------------------------------------------------------
(* The safety properties *)

\* A test file that TBF can see holds the inputs of its run, all of them and none of an
\* earlier run (input, reset_test_vector, write_test).
THEOREM FilesFaithful == Spec => []FilesAreFaithful
  <1>1. TesterInv => FilesAreFaithful
    BY DEF TesterInv
  <1> QED
    BY <1>1, TesterCorrect, PTL

\* When a run is over, everything that was ever covered is in a test file (main,
\* exit_handler).
THEOREM CoverageWritten == Spec => []CoverageIsWritten
  <1>1. TesterInv => CoverageIsWritten
    BY DEF TesterInv
  <1> QED
    BY <1>1, TesterCorrect, PTL

\* Each file but the one of the error is the first to cover something (main,
\* __sanitizer_cov_trace_pc_guard).
THEOREM FilesMeaningful == Spec => []FilesAreMeaningful
  <1>1. TesterInv => FilesAreMeaningful
    BY DEF TesterInv
  <1> QED
    BY <1>1, TesterCorrect, PTL

\* A test file never changes and never disappears, so that TBF may remember visited tests
\* by their names (write_test).
THEOREM FilesFinal == Spec => FilesAreFinal
  <1>1. TesterInv /\ [Next]_vars =>
          \A n \in DOMAIN files : n \in DOMAIN files' /\ files'[n] = files[n]
    <2> SUFFICES ASSUME TesterInv, [Next]_vars
                 PROVE  \A n \in DOMAIN files : n \in DOMAIN files' /\ files'[n] = files[n]
      OBVIOUS
    <2>1. CASE Rename
      BY <2>1, RenameAddsFile DEF TesterInv
    <2>2. CASE UNCHANGED files
      BY <2>2
    <2>3. Rename \/ UNCHANGED files
      BY DEF Next, TesterNext, StartRun, LoopEnds, Cover, input, RunEnds, ReachError,
             AfterRun, OpenTmp, WriteRow, Die, vars
    <2> QED
      BY <2>1, <2>2, <2>3
  <1> QED
    BY <1>1, TesterCorrect, PTL DEF Spec, FilesAreFinal

\* There are at most as many test files as guards, and the one of the error (main,
\* __sanitizer_cov_trace_pc_guard).
LEMMA FewFiles ==
  ASSUME TesterInv, IsFiniteSet(Guards), NEW k \in Nat, k <= test_runs,
         \A n \in 0..(k - 1) : files[n].newly # {}
  PROVE  k <= Cardinality(Guards)
  <1> DEFINE First == [n \in 0..(k - 1) |-> CHOOSE g \in Guards : g \in files[n].newly]
  <1>1. ASSUME NEW n \in 0..(k - 1)
        PROVE  n \in DOMAIN files /\ First[n] \in Guards /\ First[n] \in files[n].newly
    <2>1. n \in DOMAIN files
      BY LimitsAssumption DEF TesterInv, TypeOK, FilesAreNumbered
    <2>2. files[n].newly \subseteq Guards
      BY <2>1 DEF TesterInv, TypeOK, TestFiles
    <2> QED
      BY <2>1, <2>2
  <1>2. First \in Injection(0..(k - 1), Guards)
    <2>1. ASSUME NEW m \in 0..(k - 1), NEW n \in 0..(k - 1), m # n
          PROVE  First[m] # First[n]
      BY <1>1, <2>1 DEF TesterInv, FilesAreMeaningful
    <2> QED
      BY <1>1, <2>1 DEF Injection, IsInjective
  <1>3. Cardinality(0..(k - 1)) <= Cardinality(Guards)
    BY <1>2, FS_Injection
  <1>4. Cardinality(0..(k - 1)) = k
    BY FS_Interval
  <1> QED
    BY <1>3, <1>4

\* If the program has fewer guards than MAX_TEST_NUMBER, the tester ends by itself
\* only when the error was reached: otherwise a time limit of TBF has to end it
\* (main, exit_handler).
THEOREM OnlyErrorEndsTester ==
  ASSUME IsFiniteSet(Guards), Cardinality(Guards) < MAX_TEST_NUMBER
  PROVE  Spec => [](pc = "over" => success)
  <1>1. ASSUME TesterInv, pc = "over", ~success
        PROVE  FALSE
    <2>1. test_runs = MAX_TEST_NUMBER /\ test_runs \in Nat
      BY <1>1, LimitsAssumption DEF TesterInv, WritesAreJustified
    <2>2. \A n \in 0..(test_runs - 1) : files[n].newly # {}
      BY <1>1 DEF TesterInv, FilesAreMeaningful, FilesAreNumbered
    <2>3. test_runs <= Cardinality(Guards)
      BY <1>1, <2>1, <2>2, FewFiles
    <2>4. Cardinality(Guards) \in Nat
      BY FS_CardinalityType
    <2> QED
      BY <2>1, <2>3, <2>4, LimitsAssumption
  <1>2. TesterInv => (pc = "over" => success)
    BY <1>1
  <1> QED
    BY <1>2, TesterCorrect, PTL

\* When the error method ended the tester, the last test file has the inputs that reached it
\* (exit_handler, write_test).
THEOREM ErrorWritten == Spec => [](pc = "over" /\ success => ErrorIsLast)
  <1>1. TesterInv => (pc = "over" /\ success => ErrorIsLast)
    BY DEF TesterInv, WritesAreJustified
  <1> QED
    BY <1>1, TesterCorrect, PTL
=============================================================================
