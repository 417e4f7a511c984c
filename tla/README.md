# TLA+ models of TBF

TBF runs a test generator on a C program, executes the generated tests in a
harness while the generator still runs, and reports whether one of them calls
the error method. These modules model the parts of it that unit tests reach
badly: threads that poll each other's results, stop events and time limits,
tests that appear while they are read, the way an input value takes through
three text formats, and C types that are put together as text. TLC checks the models
on small instances. TLAPS proves, for instances of every size, the safety properties of
all components, except that the stubs have the declared types.

## Inventory

| component | code | state | operations | interacts with |
|---|---|---|---|---|
| test processing | `tbf/testcase_processing.py` | `visited_tests`, `verdicts`, the result of each pass | `process_inputs`, `_perform_processing`, `_k`, the two runners | polls the generator's result and the stop event; reads the test directory; calls harness and compiler |
| run thread | `tbf/__init__.py: run` | `processing_result`, `generation_done`, current directory | set-up, start of the generator, processing, `get(3)`, export, `finally` | starts the pool worker, calls `process_inputs`, sets both stop events |
| main thread | `tbf/__init__.py: main` | `timeout_watch` | poll, stop, `join(5)` | `stop_event`, run thread |
| stop events | `tbf/__init__.py: StopEvent` | a flag and a parent | `is_set`, `set` | set by main, run and the timer; read by processing and the waiters |
| input generation | `tbf/input_generation.py` | prepared file, position in `cmds` | `generate_input` | pool worker; executes the tool's commands |
| execution of tools | `tbf/utils.py: execute`, `Stopwatch`, `set_stop_timer` | a child process, its waiter thread, a stopwatch | start, communicate, poll, kill | stop flag, time limit; processes that inherit the pipe |
| PRTest | `tbf/tools/random/random_tester.c` | `test_vector`, `test_size`, `test_is_new`, `test_runs`, guards | main loop, coverage callback, `input`, handlers, `write_test` | the program under test; the directory TBF reads; signals |
| suite-file converters | `tbf/tools/cpatiger.py`, `fshell.py`, `tbf/testcase_converter.py` | one growing `testsuite.txt`, XML files by test name | `_get_test_cases_in_dir`, `get_test_vectors`, `write_testvector` | `visited_tests` |
| directory converters | `tbf/tools/random_tester.py`, `klee.py`, `afl.py`, `crest.py` | files in a directory | glob, exclusion by name, conversion of values | `visited_tests`, harness |
| harness | `tbf/harness_generation.py` | `access_counter`, stdin | generic and embedded nondeterministic methods, `parse_inp` | program under test |
| program preparation | `tbf/utils.py: find_nondet_methods, get_method_head`, `tbf/ast_visitor.py` | none | line scanner, search for undefined methods, types and heads of stubs | run thread, harness, every tool's preprocessor |
| XML builder, command line, statistics | `lib/py/tfbuilder`, `tbf/__init__.py`, `tbf/utils.py` | none that another part reads | formatting | |

`multiprocessing.dummy` makes main, run and the pool worker threads of one
process; only the tool is a process of its own.

What is hard here:

* A test can appear between any two steps of the thread that looks for tests,
  and the generator can return right after it has created one.
* There are two reasons for everything to end (the generator is done, somebody
  said stop), from different threads, and four ways to be told: `--timelimit`,
  `--ig-timelimit`, a success, the end of processing.
* Waiting is bounded in some places (5 s for a test, 3 s for the generator's
  result, 5 s for the run thread) and not in others (Klee replay, `communicate`).
* A call of `execute` has three threads of control: the caller in `communicate`, the
  waiter, and the process, whose children can hold the pipe open after it is dead.
* The current directory belongs to the process and not to the thread that changes it.
* Several exceptions are caught nowhere: an unreadable test, output that is no UTF-8,
  a missing `gcc` or `gcov`.
* Tests are known by name only, and each tool's converter makes up the names.
* The random tester can be killed at any moment, and leaves runs by `longjmp`.
* A value is printed, reversed, parsed and copied by code in C and in Python.

What makes each component correct:

* processing: no test missed, none run twice, a positive result never lost, a
  verdict that the runs justify, an end when either reason is there;
* run and generation: processing gets the environment it relies on; verdict and
  exported test agree whatever becomes of the generator; limits end what they
  are for;
* execution: the caller learns how the process ended, only after everybody who holds
  its pipe has, and a process that is to be killed does not live on;
* PRTest: a test file that is visible is complete, final and new;
* converters: names are unique and stable, every test is exported;
* program preparation: exactly the undefined methods get a stub, each one, whatever
  the line scanner removes, and the stub has the declared type;
* values and harness: the program gets what the generator chose, from both
  variants of the harness.

The hazards are listed line by line in `PROJECT.json`.

## Modules

| module | models | state and actions |
|---|---|---|
| `VerdictService` | nothing in the code: what processing promises | tests published, examined, positive; one announcement |
| `TestProcessing` | `process_inputs` and everything it calls, with generator and stop event as environment | variables are the locals of `process_inputs` and `_perform_processing`; `pc` separates the two operands of the loop condition, the check after the loop, the scan, each single run of `_k`, and the end of the batch |
| `TbfRun` | main, run, pool worker, timer, tool | instantiates `TestProcessing`, whose steps are `Process`, and `ToolProcess`, whose steps are `KillTool`, `ToolEnds` and `CommandReturned`; the stop event and the generator's result are set by the code that sets them; `cwd` is the directory of the process |
| `ToolProcess` | nothing in the code: what a call of `execute` promises | told to stop, the process, processes left behind, the result |
| `ProcessExecution` | `execute`, `wait_and_terminate`, `curr_s` | `caller` and `waiter` are the two threads; poll, check and kill are steps of their own; time advances in ticks |
| `PRTest` | `random_tester.c` | one action per function or branch; `write_test` is three: open, one row at a time, rename |
| `SuiteFile` | converters of CPATiger and FShell, XML files | a file of lines that grows between scans |
| `InputValues` | one value as memory and as text | operators only: PRTest's, KLEE's and decimal notation, casts, `parse_inp` |
| `Harness` | the tools' stubs, the converters' `get_test_vector`, the two variants of the harness | what a program got from PRTest, KLEE, CREST, CPATiger or AFL, its vector, and both variants executed in lock step by one program |
| `MethodDiscovery` | `find_nondet_methods`, `_rewrite_cproblems`, the AST collectors | one action per line of the program, which carries out the whole loop body; one for the search |
| `StubTypes` | `get_type`, `_prettify`, `get_method_head` | a declared type is a tree, a text a sequence of tokens; one action per type that `_prettify` asks for and per parameter that `get_method_head` writes |

`TestProcessingProofs`, `TbfRunProofs`, `ProcessExecutionProofs`, `PRTestProofs`,
`SuiteFileProofs`, `HarnessProofs` (with the theorems about `InputValues`) and
`MethodDiscoveryProofs` hold the theorems about the module they are named after, and
`NaturalRecursion` lemmas about induction and recursion that the last two use. The parts
of an inductive invariant are definitions of the module itself, so that TLC evaluates
them.

`MC*` modules hold the values of constants for TLC. `map` in `PROJECT.json`
gives the lines each definition stands for.

A test case is a model value, a validator's answer a choice that
`Reaching` limits: a run on a test in `Reaching[v]` may be positive, or time out
and not be; a run on one in `Undecodable[v]` may raise, and a scan that meets one in
`Malformed` does. A batch is run in any order, as `glob` returns files in any order.
`hits` (TestProcessing), `stray` (TbfRun), `killed_at` (ProcessExecution), `received`,
`newly` (PRTest), `taken` (SuiteFile), `ambiguous` and `long` (MethodDiscovery) are history variables that only the
properties read; `judged` also tells `FailToCompile` that no harness exists yet.

### Mutants

A definition whose comment starts with "Mutant of" is a plausible mistake in the
definition after it. `PROJECT.json` says which property finds it. They show that
each property depends on the code it is about.

## Runs

The inductive invariant of a module, where it has one, is checked in place of the
type invariant that is its first conjunct.

| run | instance | shows |
|---|---|---|
| `processing` | 4 tests: one reaches the error for both validators, one when it is executed only, one may write bytes that cannot be decoded, one cannot be read; all 64 configurations | `ProcessingInv` and the properties of processing, the refinement of `VerdictService`, the end of processing |
| `tbf_run` | 2 tests, one reaching, 2 commands, 3 configurations, all 16 combinations of parallelism, existing directory and limits, and a run without error method | the environment of `TestProcessing` is the real one (`RefinesProcessing`); verdict and export agree; limits work; nothing is started in the wrong directory |
| `process_execution` | limits of none and 1 s, 2 ticks per second, 3 s, 2 children | `execute` implements `ToolProcess`; the limit is kept; no waiter stays |
| `prtest` | 3 guards, 2 input values, `MAX_TEST_SIZE` 2, `MAX_TEST_NUMBER` 3 | files are faithful, final and meaningful; success and coverage are written |
| `suite_file` | files of up to 5 lines, FShell in both modes, CPATiger sequentially | names are unique and stable, every test is exported |
| `harness` | base 4, `unsigned long long` of 2 bytes; tests of up to 2 variables of 1 to 3 bytes, with each kind of byte that `repr` shows in its own way; rows of 3 and of 4 digits; up to 2 of 9 numbers in 8 types; files of up to 3 lines of 9 kinds; a buffer for 10 characters | `HarnessInv`; values survive their way, and both harnesses give the same |
| `method_discovery` | programs of up to 3 lines, each of up to 3 tokens, with and without `--svcomp-nondets` and error method | `DiscoveryInv`; no declaration gets lost, the rest can be parsed, stubs are the undefined methods |
| `stub_types` | 2850 declarations: one parameter, alone or between an `int` and an ellipsis, of 142 types, named or not, 5 return types | a stub has the declared type exactly for `StubIsPossible` |

Bounds. Three tests are enough to have one before, one in and one after the
batch that succeeds, and the fourth one raises; two suffice for `tbf_run`, whose
processing is covered by
`RefinesProcessing` and the proofs. Two commands are a compiler and a generator,
as every tool has at most; only the last creates tests. Two ticks per second tell a
time that is rounded down from one that is not, and three seconds are more than the
limit of one and the second that `>` adds; two children are one that outlives
the other. Three guards and three
files reach the limit `MAX_TEST_NUMBER` and pass it by a success; two rows reach
`MAX_TEST_SIZE` with a run that is shorter and one that is longer. Five lines are
two FShell tests with inputs and one without. In base 4 a byte has two digits
with and without a leading zero, and up to two are a character that is a digit, one
that is none, a space, a colon, an apostrophe, a double quote, a backslash or a newline;
three bytes exceed the two of `unsigned long long`; a row of three digits
cuts a value of two bytes and one of four just holds it. (A row has 98 characters, of
which `__sym_`, the name of the method and `: 0x` take some; a row that the name of a
method of 88 characters or more fills has no digits and is left out.) AFL's lines are
empty, integers, floating-point numbers, text that is no number, a number in quotes,
one that fills the buffer and one that is larger. The numbers are the ends of
the ranges of one and two bytes and those around zero. `strtoull` is
applied after the text is known to be digits; that base 16 and 8 bytes bring nothing
new is proved.
Three lines hold an attribute that begins on one, goes on over the next and ends on
the third, a struct with a blank line in it, and an asm statement with one in it;
three tokens are an attribute with a declaration before, in between or after. Longer
programs (four lines, 1.7 million states) hold, too. The kinds of parameters of
`stub_types` are every base type and pointer with every set of qualifiers, named and
unnamed, pointers to pointers, arrays of those, arrays of arrays, pointers to
arrays, functions, arrays of and pointers to function pointers, and function
pointers with ellipsis, arrays or function pointers among their own parameters:
every branch of `get_type`, and the pairs of them that C allows.

The reference of `stub_types` is a reading of C declarators (`Denoted`), not a
second way to write them. Model and reference were compared with the program: for
all 2850 declarations, `get_type` and `get_method_head` give the text of the model,
and `gcc -std=gnu90` accepts a stub after its declaration exactly if
`StubIsPossible` holds.

Deadlock is not checked: every modelled thread or program ends, and then nothing
happens. That they do end is a liveness property where it is one of the code.

`KleeText` was compared with Python's `repr` and the functions of `klee.py`, for base
16 and 3272 memories of up to 8 bytes, random ones and ones of quotes, colons, spaces,
letters and control characters: the texts are the same.

### Fairness

`TestProcessing`: weak fairness of the thread as a whole, since it always has a
next statement and never blocks in the model; nothing for generator and stop.
Running a test is one step, or `HangInRun` if it does not end: nothing kills a Klee
replay, and `ExecutionRunner` kills the process it started but waits for others
that hold the pipe.
`ProcessExecution`: weak fairness of the caller, of the waiter, which sleeps for a
millisecond, and of time; none for processes and the stop flag. A kill that is due
is a promise to the caller, so `ToolProcess` has fairness of `Kill` and of
`Return`.
`TbfRun`: weak fairness for main, run thread, worker and waiter, which are
threads that sleep for a bounded time, and for timer and clock. There is none for
the tool or for what it leaves behind. `PRTest`: weak fairness of the tester, on the
assumption that each single run of the program under test ends (a run is a finite
sequence of inputs and covered guards, as longer ones are cut at `MAX_TEST_SIZE`);
none for the kill.

`TimelimitEndsRun` and `IgLimitEndsGeneration` name their exceptions: a replay
that hangs, and children of a killed tool that keep the pipe open.

## Runs that find a disagreement

| run | what the repository says | what the code does |
|---|---|---|
| `overdue_run` | "Main run didn't terminate within acceptable limit. Killing it." | `join(5)` raises nothing, nothing is killed |
| `cpatiger_names` | `TestVector`: "Consists of a unique name" | numbering starts again in each scan |
| `klee_values` | "bytestring notation, so we have to convert it afterwards" | bytes that `repr` shows without `\x` (printable characters, tab, newline, carriage return) are not converted |
| `harness_of_afl` | README: "the test harness as C-file" | an empty value makes `parse_inp` read outside of its buffer in `harness.c` |

Not every observation is a run.

* `--naive-verification` is for when "all test cases were handled" (its help), and says
  TRUE after a stop, too, with tests that were not run.
* A positive result is lost if, after it, a test cannot be read, the program writes
  bytes that are no UTF-8 (`found_err` decodes what `execute` could not), or `gcov` is
  missing: `NoPositiveLost` names them in `FailureIsExcused`.
* "All created files are put in a directory `created_files`" (docstring of `run`): a
  generator that is given up after 3 s writes and starts what it still has to in the
  old directory. `NothingStray` is about those that end in time.
* `_k` compares a list with a string and so never returns early after a success: the
  rest of the batch is run.
* A stop skips the last scan, so that `--write-xml --timelimit` (an example in the
  repository's README) can leave tests without XML file.
* The timer of `--ig-timelimit` is not cancelled and keeps a finished process alive.
* A time limit of 5 s kills after 6 s: the stopwatch is rounded down and compared
  with `>`.
* CREST has no `float`, `double`, `size_t` or plain `unsigned` and is given `unsigned
  long long` for them, which its stub casts. A cast to a floating-point type converts,
  and `parse_inp` copies the bits of the number: the program gets another value. The
  same holds for CPATiger, and for a `_Bool` that was made from another number than 0
  and 1.
* The buffer for a value has 3000 characters. `fgets` leaves the rest of a longer line of
  AFL for the next call, which shifts all values after it, and `strcpy` of the same
  literal in `harness.c` writes behind the end: `SameValues` excludes such vectors
  (`AllFit`).
* The gnu90 command of `KleeReplayRunner` is never executed.
* `get_type` raises for parameters of function type and in `get_method_head` for
  arrays of arrays and for function pointers that take arrays or function pointers; it
  writes something else than the declaration for volatile pointers, pointers to arrays,
  function pointers that are `const` or return a `const` without having a name, unnamed
  arrays of `const`, and function pointers with an ellipsis, which become an ellipsis;
  and `get_name` raises for functions that return a pointer to an array.

## Proofs

Everything here is `Spec => []Inv` or `Spec => [][A]_vars` unless it says otherwise,
for all values of the constants that satisfy the named assumptions, which are about
the shape of the constants and are evaluated by TLC in every run. Each proof has the
same outline: the initial states satisfy an inductive invariant, every action
preserves it (a step per action and below it per conjunct that the action can
disturb), and it implies the property.

### Test processing

From `ConstantsAssumption` (`Tests` may be infinite): `ProcessingCorrect`
(`ProcessingInv`); `FalseWitnessed`, `PositiveReported`, `TestsAllHandled` (the
invariants `FalseIsWitnessed`, `NoPositiveLost`, `NoTestMissed`); `TestsJudgedOnce`
(the action property `JudgedAtMostOnce`); `Implements` (`Spec => Service!Spec`).

None of the three invariants is inductive. `NoTestMissed` speaks of the end; to
get there one has to know that the last scan takes place after the generator has
returned (`LastScanIsComplete`), that what was visited was run
(`VisitedIsJudged`) and exported (`ScannedIsExported`), and that a completed pass
stays complete until the end (`PassIsComplete`): tests are only created while
the generator has not returned. `FalseIsWitnessed` needs that the first positive
verdict is that of a test of the current pass (`FirstIsAHit`), and that the
result of a pass is FALSE iff there is one (`ResultFollowsFirst`), which also
keeps a second pass from starting after a positive first. `PassesAreSeparate`
says what is pending and run outside of the passes. `NoPositiveLost` needs, for the
end in `failed`, that the compiler runs before any test of its pass and no pass
follows a positive one. For the refinement, a replay or
execution pass after the first maps to `Restart`, a run to `Examine`, the return
to `Announce`, and everything else to a stutter or a step of the environment;
`ProcessingInv` justifies the guard of `Announce`.

### The run as a whole

From `ArgsAssumption` and `ProcessingAssumption` (that of `TestProcessing`, for any
set of tests and any `NumCmds`): `RunCorrect` (`RunInv`); `Refines`
(`RefinesProcessing`: run, generator and stop events are an environment
that `TestProcessing` allows, so that its theorems hold of a run of TBF);
`FalseExported`, `TrueOnlyAfterGeneration`, `AnalysisPerformed`, `NothingLeftOutside`.

`RunInv` contains `P!ProcessingInv` and five parts of its own. The
refinement rests on `GeneratorIsOrderly`: tests only appear while the last command
runs, and not once the result is there. `TrueAfterGeneration` needs
`OutcomeIsVerdict`, which follows the verdict through `get(3)`, the export and the
`finally` clause, and `AnalysisIsComplete` needs `StopIsJustified`: before its own end
only `--timelimit` stops the processing, `--ig-timelimit` never does.
`WorkDirectory` is what makes `NothingStray` inductive: `stray` can only become true
after the directory was left, and then the result is not awaited any more.
A theorem of an instantiated module cannot be cited by tlapm, so the two lemmas
behind `ProcessingCorrect` are proved again about the instance `P`.

### Execution of tools

From `ExecutionAssumption`, for all limits, numbers of ticks per second and bounds:
`ExecutionCorrect` (`ExecutionInv`), `LimitKept` (`LimitIsKept`) and `ImplementsSafely`
(`Spec => Call!Spec`: each step of the two threads is a step of `ToolProcess` or a
stutter; `TbfRun` is built on `ToolProcess`). The lemma `WholeSeconds` is the rounding
of the stopwatch: `n \div d > k` iff `n >= (k + 1) * d`. `LimitIsKept` needs
`TimeIsWatched`, as time only goes on after the waiter had its turn, and
`WaiterIsJustified`: a reason to kill that was seen does not go away, although poll,
check and kill are steps of their own. `CallIsOrderly` is what the refinement needs to
know of the caller, such as that nobody holds the pipe when it returns.

### PRTest

From `LimitsAssumption`, for any guards (finitely many or not), input values,
`MAX_TEST_SIZE` and `MAX_TEST_NUMBER`: `TesterCorrect` (`TesterInv`), `FilesFaithful`,
`CoverageWritten`, `FilesMeaningful`, and `FilesFinal` (an action property).
`FilesAreFaithful` rests on `RowsAreInputs`: the rows of a test are its inputs, and all
others are empty. It is why it is enough that `reset_test_vector` stops at the first
empty row (lemma `ResetRowsEmpties`), and it needs that one row stays empty.
`TmpIsPrefix` carries it through the writing of the rows, one step each, to the
rename. `FilesAreFinal` needs `FilesAreNumbered`: the number of the next file is free.
`CoverageIsWritten` needs `NewIsUnwritten`: within a run, what is covered was either
written or is new, and not both.

Two more results have no property of their own. `OnlyErrorEndsTester`: with fewer guards
than `MAX_TEST_NUMBER`, the tester does not end by itself before it has called the error
method (there are no more files than guards, as each covers something no other does).
`ErrorWritten`: at the end of a successful tester the last file is that of the
error, which is the safety half of `SuccessIsWritten`.

### Test suite files

From `ModesAssumption`, files of every length, and `StableNames`: CPATiger's converter
does not run in parallel with the generator. (If it does, `NamesAreUnique` is
violated: run `cpatiger_names`.) `SuiteCorrect` (`SuiteInv`), `NamesUnique`,
`TestsExported`, `TestsHandedOutOnce`. `NamesArePlaces` is the core: the name of a test
that was handed out is its rank in the file as it is now. The lemmas say that the rank
of a line determines it (`RankIsInjective`) and that lines which are appended change
neither ranks nor inputs of the tests before (`AppendChangesNoTest`); FShell's last test
is not handed out before it is complete.

### Values and harness

From `ValuesAssumption`, for every base and size of `unsigned long long`, 16 and 8
among them: `RandomRoundTrip`, `KleeRoundTrip`, `DecimalRoundTrip`, which are about
operators and not behaviours. What `parse_inp` makes of the text is the memory or the
number that it was made of: for any memory of at most `LongLong` bytes in PRTest's
notation, the same in ktest-tool's if `repr` shows each byte as `\xhh`, and any number from
`-ULLONG_MAX` to `ULLONG_MAX` in decimal. For ktest-tool's the proof follows the text
through `repr`, `_get_value` and `_convert_bytestring_to_hex`: the only apostrophes are
the quotes, there is no colon to cut at, and the parts between the `\x` are the digits of
the bytes, which are joined in reverse order.

With `HarnessAssumption` in addition, for any number of variables, lines and calls:
`HarnessCorrect` (`HarnessInv`), `ChosenValuesSurvive` (`ValuesSurvive`),
`HarnessesAgree` (`SameValues`). The properties speak of the calls so far, and what
makes them inductive is where the next value comes from: `StdinIsRest` says that stdin has
the values after those that were returned if all of them fit in the buffer, the last conjunct of `TypeOK` that
`access_counter` is their number (void methods do not count, and at an abort there is no
next call), `CallsAreSame` that both harnesses got the same calls and only the last one
can differ, and `VectorIsWritten` that each value is the text of what the generator
chose. The round trips then give the result of the next call.

What a text of any length means is a matter of induction over its length. The library's
induction theorems take an operator as a parameter, which the installed provers cannot
instantiate. `NaturalRecursion` states them of sets and functions: a set of numbers that
has 0 and all successors of its members is `Nat`, and a function defined by recursion on
numbers exists and unrolls. `InputValues`, `Harness` and `MethodDiscovery` define their
recursions as recursive functions on numbers for this reason, rather than with the folds
of the community modules, about which tlapm has no facts.

### Program preparation

From `NamesAssumption` and `LinesAssumption`, for any names, any lines and programs of
every length: `DiscoveryCorrect` (`DiscoveryInv`), `DeclarationsKept`
(`DeclarationsAreKept`), `CanBeParsed` (`RewrittenCanBeParsed`), `StubsUndefined`
(`StubsAreTheUndefined`), `CalledStubs` (`CalledHaveStubs`). `LinesAssumption` says what
a line is: asm statements and structs have theirs to themselves, and no declaration
stands before a call or a definition in its line. A line may have any number of
attributes and declarations otherwise.

The three flags of the scanner are all it knows of the lines before. `ScannerFollows`
says that they tell what the next line is inside of, and `long` marks where they do
not: `in_attribute` is reset by the second line of an attribute, also if it goes on.
`AttributesAreRemoved` holds as long as that has not happened. `StructsHaveMembers` is
about two tokens that can come from lines far apart, and needs that `need_struct_body`
is set exactly while the last token that got through is the beginning of a struct.

What one line does is the lemma `LineOutcome`, for three sorts of lines: empty ones,
lines of asm and structs, and lines of attributes and declarations. For the last,
`PiecesAreLeft` is the core: after the greedy removal from the first `__attribute__((`
to the last `))`, an opening is only left at the end of the line, if an attribute goes on
in the next, and a closing only at the beginning, if one began before; and no declaration
is removed unless the line is `Ambiguous`. The proof compares a line with the alternation
of openings and closings that a program has (`Neighbours`).

`UndefinedMethods` and `NondetMethods` say what the two searches compute:
the names of a set of tokens without those that are defined, implicit or excluded, each
once. With `DeclarationsAreKept` they speak of the program and not of what is left
of it. `CalledHaveStubs` follows for both ways at once: of a parsed program as the
method is declared and not defined, of another as it is called.
`SequenceInduction` is induction on sequences, of a set as in `NaturalRecursion`.

### Only model-checked

* Liveness: `ProcessingEnds`, `TimelimitEndsRun`, `IgLimitEndsGeneration`,
  `VerdictEndsProcess`, `WaiterEnds`, `SuccessIsWritten`, and the fairness that
  `ImplementsCall` claims beyond `ImplementsSafely`. Fairness and ENABLED are out of the
  prover's reach.
* `StubTypes`, which walks the trees of types with RECURSIVE operators: tlapm has no
  SMT backend in a module that has one.

## Not modelled

* Tool binaries, compilers and the program under test: which tests a tool creates
  and when is arbitrary, but tests appear at once. PRTest does that by `rename`;
  how KLEE, AFL and CREST write their files is not in the repository, and a file
  read half-written would never be read again.
* Vendored code: pycparser with ply and its generated tables, and the BenchExec copy
  inside CPATiger. They are more than 50,000 of the 58,000 lines of implementation in
  the repository and none of them is TBF's; TBF's own code has about 4,300 lines, a
  third of which the models translate. What pycparser's parser accepts and where it notes
  qualifiers is an assumption of `MethodDiscovery` and `StubTypes`.
* Of values as text: octal numbers and spaces at the beginning, which `strtoull` accepts
  (AFL's lines), a backslash directly before a byte that is an `x`, at which
  `klee.py` splits although it is no `\x` of a byte (the text is no number either way),
  and data that contains `name:`, whose line is taken for that of a name. `strtold` is
  a constant, the memory that it makes of some texts.
* The removal of the work directory, statistics, gcov's numbers, XML text, the command
  line.
* Preparation of the program: `gcc -E` and its second try with gnu90, GCC's
  keywords that are replaced, the bodies of the stubs, which differ per tool. In
  `MethodDiscovery` a call or definition has a line without a
  prototype before it: otherwise the fallback's regular expression begins its match
  at the prototype and ends it at the call.
* Which of a converter's assertions fails, such as for two test suites in FShell's
  file: to `TestProcessing` all of them are a test that cannot be read.

## Plan

Done, in this order: `TestProcessing` with `VerdictService` and the proofs;
`TbfRun`, which composes it with the threads around it; `PRTest`; `SuiteFile`;
`InputValues` and `Harness`; `MethodDiscovery`; the exceptions in `TestProcessing`;
`ProcessExecution` with `ToolProcess`; directories in `TbfRun`; `StubTypes`; proofs
about `PRTest`, `ProcessExecution`, `TbfRun`, `SuiteFile`, `InputValues`, `Harness` and
`MethodDiscovery`.

Next, in order of importance:

1. `TestFiles`: files written in place, next to PRTest's `rename`, read by a scan
   at any moment.
2. `PRTest` composed with `TestProcessing`.
