------------------------------- MODULE Harness -------------------------------
(***************************************************************************)
(* tbf/harness_generation.py: HarnessCreator.create_harness writes the     *)
(* nondeterministic methods of the program under test in two ways:         *)
(*   - generic (no test vector): a call reads the next line of stdin,      *)
(*     where ExecutionRunner.run puts the values of a test vector,         *)
(*   - embedded (a test vector): a call takes its value from a switch over *)
(*     access_counter.  This is the harness.c and a.out that stay behind   *)
(*     for the test that reached the error method.                         *)
(* Both are executed here side by side by the same program, which calls    *)
(* its methods in an order that depends on the values it has got so far.   *)
(*                                                                         *)
(* The generators run the same program with methods of their own.  PRTest  *)
(* and KLEE choose the memory of each variable, CREST and CPATiger numbers *)
(* that are cast; the vector is what their converters make of it.  AFL's   *)
(* is what its converter makes of a file of lines.  A value is text as in  *)
(* InputValues.                                                            *)
(***************************************************************************)
EXTENDS InputValues

CONSTANTS
    Generators,  \* of "random", "klee", "afl", "crest" and "cpatiger"
    Memories,    \* the memories of variables that are considered
    Values,      \* the numbers that are considered
    Rooms,       \* how many digits PRTest's row has room for, after the name of the variable:
                 \* one at least, unless the name fills the row
    Lines,       \* the lines of a test file of AFL that are considered
    MaxValues,   \* bound on the number of variables of a test
    InpSize,     \* inp_size, the size of the buffer for a value (3000 in the code)
    MaxLines     \* bound on the number of lines of a test file

\* Text that strtoull reads to its end.
IsNumber(text) ==
    ToSet(IF Len(text) > 1 /\ Head(text) = Minus THEN Tail(text) ELSE text)
        \subseteq 0..(Base - 1)

ASSUME HarnessAssumption ==
    /\ Generators \subseteq {"random", "klee", "afl", "crest", "cpatiger"}
    /\ Memories \subseteq Seq(Byte) \ {<<>>}
    /\ Rooms \subseteq Nat \ {0} /\ Values \subseteq Int
    \* strtoull would skip spaces at the beginning of a line.
    /\ Lines \subseteq Seq(Characters) /\ \A line \in Lines : line # <<>> => Head(line) # Space
    /\ MaxValues \in Nat /\ MaxLines \in Nat
    \* There is room for two characters of each byte of memory, "0x" or a sign, a newline
    \* and the end of the string.
    /\ InpSize \in Nat
    /\ \A s \in {Len(m) : m \in Memories} \cup {LongLong} : 2 * s + 4 <= InpSize
    /\ \A t \in DOMAIN LongDouble : ~IsNumber(t)

VARIABLES
    generator,
    chosen,          \* the variables of the test as the program got them from the
                     \* generator; of AFL only the texts are known
    types,           \* the types of their methods, if the generator chose numbers
    room,            \* of PRTest's rows
    vector,          \* test_vector: its values
    stdin,           \* generic: the values that were not read
    access_counter,  \* embedded
    generic,         \* what the calls returned in the generic harness
    embedded         \* what they returned in the embedded one

vars == <<generator, chosen, types, room, vector, stdin, access_counter, generic, embedded>>

\* A call returns memory, or nothing if its method is void, or it ends the program by
\* abort().  "garbage" is any value, or that the harness cannot be compiled.
Value(m) == [what |-> "value", bytes |-> m]
Void     == [what |-> "void", bytes |-> <<>>]
Aborted  == [what |-> "abort", bytes |-> <<>>]
Garbage  == [what |-> "garbage", bytes |-> <<>>]

\* How many values the program got, and whether each of them is the one it got from the
\* generator, if the generator chose so many.
NumberOfValues(outcomes) == Cardinality({i \in DOMAIN outcomes : outcomes[i] # Void})

AreChosen(outcomes) ==
    \A i \in DOMAIN outcomes :
        LET n == NumberOfValues(SubSeq(outcomes, 1, i))
        IN outcomes[i] # Void /\ n \in DOMAIN chosen => outcomes[i] = Value(chosen[n])

Outcome == [what : {"value", "void", "abort", "garbage"}, bytes : Seq(Byte)]

\* Every variable stays in its domain, and the counter of the embedded harness counts what
\* it returned.
TypeOK ==
    /\ generator \in Generators
    /\ chosen \in Seq(Seq(Byte))
    /\ types \in Seq(Types)
    /\ room \in Rooms \cup {0}
    /\ vector \in Seq(Seq(Characters))
    /\ stdin \in Seq(Seq(Characters))
    /\ generic \in Seq(Outcome)
    /\ embedded \in Seq(Outcome)
    /\ access_counter = Cardinality({i \in DOMAIN embedded : embedded[i] \notin {Void, Aborted}})

\* Mutant of RowText: the row ends one character early.
RowTextShort(m, r) == SubSeq(RandomText(m), 1, IF 2 * Len(m) < r THEN 2 * Len(m) ELSE r - 1)

\* The digits in a row of test_vector, which snprintf cuts at its end; the converter takes
\* what follows the colon.
RowText(m, r) == SubSeq(RandomText(m), 1, IF 2 * Len(m) < r THEN 2 * Len(m) ELSE r)

\* AflTestConverter.get_test_vector: every line, and what follows the last newline.
AflVector(lines) == lines

\* CrestTestConverter.get_test_vector: every line that is not empty.
CrestVector(lines) ==
    LET values[n \in 0..Len(lines)] ==
            IF n = 0 THEN <<>>
            ELSE IF lines[n] = <<>> THEN values[n - 1] ELSE Append(values[n - 1], lines[n])
    IN values[Len(lines)]

\* CpaTigerTestConverter.get_test_vector: no value at all is an empty one.
CpaTigerVector(values) == IF values = <<>> THEN <<<<>>>> ELSE values

\* What the stub of CREST or CPATiger asks the generator for, before it casts it.
NumberType(t) == IF generator = "crest" THEN internal_type(t) ELSE "int"

\* The stub of the preprocessor has a variable of the method's type for the generator.
ChooseMemory ==
    /\ generator \in {"random", "klee"}
    /\ room \in IF generator = "random" THEN Rooms ELSE {0}
    /\ \E n \in 1..MaxValues : chosen \in [1..n -> Memories]
    /\ types = <<>>
    /\ vector = [i \in DOMAIN chosen |-> IF generator = "random" THEN RowText(chosen[i], room)
                                         ELSE KleeText(chosen[i])]

\* Both generators write the numbers down, and CREST ends each with a newline.
ChooseNumbers ==
    /\ generator \in {"crest", "cpatiger"}
    /\ room = 0
    /\ \E n \in 0..MaxValues :
         /\ types \in [1..n -> Types]
         /\ \E numbers \in [1..n -> Values] :
              LET texts == [i \in 1..n |-> DecimalText(numbers[i])]
              IN /\ \A i \in 1..n : numbers[i] \in Numbers(NumberType(types[i]))
                 /\ chosen = [i \in 1..n |-> Cast(numbers[i], types[i])]
                 /\ vector = IF generator = "crest" THEN CrestVector(Append(texts, <<>>))
                             ELSE CpaTigerVector(texts)

ChooseLines ==
    /\ generator = "afl"
    /\ room = 0
    /\ chosen = <<>>
    /\ types = <<>>
    /\ \E n \in 1..MaxLines : \E lines \in [1..n -> Lines] : vector = AflVector(lines)

Init ==
    /\ generator \in Generators
    /\ ChooseMemory \/ ChooseNumbers \/ ChooseLines
    /\ stdin = vector
    /\ access_counter = 0
    /\ generic = <<>>
    /\ embedded = <<>>

\* The buffer has no room for a text, a newline and the end of the string.  Only a line of
\* AFL can be so long.
IsTooLong(text) == Len(text) + 2 > InpSize

\* fgets: a line, or as much of it as there is room for.
ReadLine(text) == IF IsTooLong(text) THEN SubSeq(text, 1, InpSize - 1) ELSE text

\* stdin after that.  The rest of a long line is the next one; it may be no more than its
\* newline.
AfterRead(lines) ==
    CASE lines = <<>> -> lines
      [] lines # <<>> /\ IsTooLong(Head(lines)) ->
           <<SubSeq(Head(lines), InpSize, Len(Head(lines)))>> \o Tail(lines)
      [] OTHER -> Tail(lines)

\* parse_inp of a value on stdin: an empty value is a line with a newline, which is
\* removed, and zero.  strtold is asked last (strtoll accepts nothing that strtoull does
\* not), and text that is no number at all aborts.
ParseLine(text, size) ==
    IF IsNumber(text) THEN {Value(m) : m \in ParsedBytes(text, size)}
    ELSE IF text \in DOMAIN LongDouble THEN {Value(m) : m \in FloatBytes(text, size)}
    ELSE {Aborted}

\* parse_inp of a string literal, which strcpy writes behind the end of the buffer if it is
\* too large.  strlen(...)-1 of an empty one is UINT_MAX, so that memory far away is read
\* and perhaps written.  A quote or a backslash changes the literal.
ParseLiteral(text, size) ==
    IF text = <<>> \/ Quote \in ToSet(text) \/ Len(text) >= InpSize THEN {Garbage}
    ELSE ParseLine(text, size)

\* Mutant of CaseOf: the cases of the switch are counted from 1.
CaseFromOne(counter) == counter

\* The value in the case of the switch for this counter.
CaseOf(counter) == counter + 1

\* The program goes on as long as both harnesses gave it the same, and the same as the
\* generator: only then are its next calls those of the generator's run.  It makes two
\* calls more than there are values, at most.
Running ==
    /\ generic = embedded
    /\ Aborted \notin ToSet(generic)
    /\ Len(generic) <= Len(vector) + 1
    /\ generator # "afl" => AreChosen(generic)

\* The size of the variable of the next call: that of the generator's run.
NextSize ==
    LET n == NumberOfValues(generic) + 1
    IN IF n \in DOMAIN chosen THEN Len(chosen[n]) ELSE 1

\* A method with a value.  At its end, stdin leaves the buffer uninitialized.
CallValue ==
    /\ Running
    /\ \E line \in IF stdin = <<>> THEN {Garbage} ELSE ParseLine(ReadLine(Head(stdin)), NextSize) :
         generic' = Append(generic, line)
    /\ \E literal \in IF CaseOf(access_counter) \in DOMAIN vector
                      THEN ParseLiteral(vector[CaseOf(access_counter)], NextSize)
                      ELSE {Aborted} :
         /\ embedded' = Append(embedded, literal)
         /\ access_counter' = access_counter + (IF literal = Aborted THEN 0 ELSE 1)
    /\ stdin' = AfterRead(stdin)
    /\ UNCHANGED <<generator, chosen, types, room, vector>>

\* Mutant of CallVoid: every method counts as an access.
CallVoidCounts ==
    /\ Running
    /\ generic' = Append(generic, Void)
    /\ embedded' = Append(embedded, Void)
    /\ access_counter' = access_counter + 1
    /\ UNCHANGED <<generator, chosen, types, room, vector, stdin>>

CallVoid ==
    /\ Running
    /\ generic' = Append(generic, Void)
    /\ embedded' = Append(embedded, Void)
    /\ UNCHANGED <<generator, chosen, types, room, vector, stdin, access_counter>>

Next == CallValue \/ CallVoid

Spec == Init /\ [][Next]_vars

-----------------------------------------------------------------------------
(* Properties *)

FitsLongLong == \A i \in DOMAIN chosen : Len(chosen[i]) <= LongLong
AllFit == \A i \in DOMAIN vector : ~IsTooLong(vector[i])
WithinVector == NumberOfValues(generic) <= Len(vector)

\* The text of a variable tells what it is: PRTest's row is not cut, repr shows each of
\* KLEE's bytes as \x and two digits, and a truth value is given as one.
CanBeRead(i) ==
    /\ generator = "random" => 2 * Len(chosen[i]) <= room
    /\ generator = "klee" => ToSet(chosen[i]) \cap Shown = {}
    /\ i \in DOMAIN types /\ types[i] = "_Bool" => vector[i] \in {<<0>>, <<1>>}

\* What the program gets, call by call, is what it got from the generator, from both
\* harnesses and whatever methods it calls in between.  Excluded are variables larger than
\* unsigned long long, rows that PRTest cuts, of KLEE, bytes that repr shows otherwise than
\* as \x and two digits (printable characters, tab, newline and carriage return), and
\* numbers that are no truth value but given as one (the preprocessors, input, ktest-tool,
\* _convert_bytestring_to_hex, get_test_vector, create_harness, parse_inp).
ValuesSurvive ==
    (/\ NumberOfValues(generic) <= Len(chosen)
     /\ FitsLongLong
     /\ \A i \in DOMAIN chosen : CanBeRead(i)) =>
        AreChosen(generic) /\ AreChosen(embedded)

\* As long as the program asks for no more values than the vector has, both harnesses give
\* it the same values in the same order, if no value has a quote, none is empty, as AFL's and
\* CPATiger's may be, none is too large, and none is a text that the buffer has no room for
\* (get_test_vector, create_harness, ExecutionRunner._get_input_vector).
SameValues ==
    (/\ WithinVector
     /\ FitsLongLong
     /\ AllFit
     /\ \A i \in DOMAIN vector : Quote \notin ToSet(vector[i])
     /\ generator \in {"afl", "cpatiger"} => <<>> \notin ToSet(vector)) =>
        generic = embedded

-----------------------------------------------------------------------------
(* The inductive invariant *)

\* The vector is what the converters make of what the generator chose.
VectorIsWritten ==
    /\ generator \in {"random", "klee"} =>
         /\ types = <<>> /\ Len(vector) = Len(chosen)
         /\ generator = "random" => room \in Rooms
         /\ \A i \in DOMAIN chosen :
              /\ chosen[i] # <<>>
              /\ vector[i] = IF generator = "random" THEN RowText(chosen[i], room)
                             ELSE KleeText(chosen[i])
    /\ generator \in {"crest", "cpatiger"} =>
         /\ Len(types) = Len(chosen)
         /\ Len(vector) = Len(chosen) \/ (generator = "cpatiger" /\ chosen = <<>>)
         /\ \A i \in DOMAIN chosen : \E v \in Values :
              /\ v \in Numbers(NumberType(types[i]))
              /\ vector[i] = DecimalText(v)
              /\ chosen[i] = Cast(v, types[i])
    /\ generator = "afl" => chosen = <<>>

\* The methods were called in the same order, and at most the last one differs.
CallsAreSame ==
    /\ Len(generic) = Len(embedded)
    /\ \A i \in DOMAIN generic :
         /\ generic[i] = Void <=> embedded[i] = Void
         /\ i < Len(generic) => generic[i] = embedded[i]

\* What is left on stdin are the values after those that were returned, if each was read to
\* its end.
StdinIsRest == AllFit => stdin = SubSeq(vector, NumberOfValues(generic) + 1, Len(vector))

\* The inductive invariant: the next line on stdin and the next case of the switch are
\* those of the same value, and it is the text of what the generator chose.
HarnessInv ==
    /\ TypeOK
    /\ VectorIsWritten
    /\ CallsAreSame
    /\ StdinIsRest
    /\ ValuesSurvive
    /\ SameValues

-----------------------------------------------------------------------------
(* What the repository says *)

\* The comment of KleeTestConverter: the value is in bytestring notation, and is converted.
KleeValuesSurvive ==
    (generator = "klee" /\ WithinVector /\ FitsLongLong) => AreChosen(generic)

\* README: harness.c and a.out are the test harness and the executable test of the test
\* that was found.  What the generic harness gave the program, they give it again.
HarnessReproduces == WithinVector => generic = embedded
=============================================================================
