----------------------------- MODULE InputValues -----------------------------
(***************************************************************************)
(* One input value as memory and as text.                                  *)
(* PRTest (input() in random_tester.c) and KLEE (ktest-tool) write down    *)
(* the memory of a variable as text, RandomTestConverter and               *)
(* KleeTestConverter turn the text into C hex notation, and parse_inp of   *)
(* the harness turns that into memory again.                               *)
(* CREST and CPATiger choose a number, which the stub of their             *)
(* preprocessor casts to the type of the method, and write it down in      *)
(* decimal notation.                                                       *)
(*                                                                         *)
(* Sizes are scaled down: a byte is two digits of base Base (16 in the     *)
(* code) and unsigned long long has LongLong bytes (8 in the code).  Text  *)
(* is a sequence of digits, without "0x" and the name of the variable; a   *)
(* decimal number has the digits of base Base, too.                        *)
(***************************************************************************)
EXTENDS Integers, Sequences, FiniteSets, SequencesExt

CONSTANTS
    Base,        \* number of digits of the notation
    LongLong,    \* bytes of unsigned long long
    Shown,       \* bytes that Python's repr shows otherwise than as \x and two digits
    ReprOf,      \* how it shows them: as a character, or as a backslash and one more
    LongDouble,  \* the memory that strtold makes of texts that are numbers, but no integers
    LetterB,     \* the digit that the letter b is
    Minus,       \* the sign
    Quote,       \* what changes a C string literal: a double quote or a backslash
    Apostrophe, Colon, Space,
    NoDigit,     \* every other character that is no digit
    Escape       \* a backslash and an x, taken as one character

Byte == 0..(Base * Base - 1)

\* What values as text consist of, after the conversion.
Characters == (0..(Base - 1)) \cup {Minus, Quote, Apostrophe, Colon, Space, NoDigit}

ASSUME ValuesAssumption ==
    /\ Base \in Nat /\ Base > 1
    /\ LongLong \in Nat \ {0}
    /\ {Minus, Quote, Apostrophe, Colon, Space, NoDigit, Escape} \cap 0..(Base - 1) = {}
    /\ Minus \notin {Quote, Apostrophe, Colon, Space, NoDigit, Escape}
    /\ Quote \notin {Apostrophe, Colon, Space, NoDigit, Escape}
    /\ Apostrophe \notin {Colon, Space, NoDigit, Escape}
    /\ Colon \notin {Space, NoDigit, Escape}
    /\ Space \notin {NoDigit, Escape} /\ NoDigit # Escape
    /\ LetterB \in 0..(Base - 1)
    /\ Shown \subseteq Byte
    /\ \A b \in Shown : \/ \E c \in Characters \ {Minus} : ReprOf[b] = <<c>>
                       \/ \E c \in {Quote, NoDigit} : ReprOf[b] = <<Quote, c>>
    /\ \A t \in DOMAIN LongDouble :
         /\ t \in Seq(Characters)
         /\ LongDouble[t] \in Seq(Byte) /\ Len(LongDouble[t]) >= LongLong

-----------------------------------------------------------------------------
\* What the digit before n others counts for.
Power[n \in Nat] == IF n = 0 THEN 1 ELSE Base * Power[n - 1]

Digits(b) == <<b \div Base, b % Base>>

\* input() prints the most significant byte, which is the last one in memory, first.
RandomText(m) ==
    [j \in 1..(2 * Len(m)) |-> Digits(m[Len(m) - (j - 1) \div 2])[2 - (j % 2)]]

\* %r of ktest-tool.  The quotes around the bytes are apostrophes, unless there are
\* apostrophes among them and no double quotes; then they are double quotes, and otherwise
\* there is a backslash before every apostrophe.
repr(m) ==
    LET has(c) == \E b \in ToSet(m) \cap Shown : ReprOf[b] = <<c>>
        quote == IF has(Apostrophe) /\ ~has(Quote) THEN Quote ELSE Apostrophe
        shown(b) == CASE b \notin Shown -> <<Escape>> \o Digits(b)
                      [] b \in Shown /\ ReprOf[b] = <<quote>> -> <<Quote>> \o ReprOf[b]
                      [] OTHER -> ReprOf[b]
        body[n \in 0..Len(m)] == IF n = 0 THEN <<>> ELSE body[n - 1] \o shown(m[n])
    IN <<LetterB, quote>> \o body[Len(m)] \o <<quote>>

\* The place of the first c in a text, or 0.
find(text, c) ==
    LET places == {i \in DOMAIN text : text[i] = c}
    IN IF places = {} THEN 0 ELSE Min(places)

\* A text without the spaces at its end.
strip(text) == SubSeq(text, 1, Max({0} \cup {i \in DOMAIN text : text[i] # Space}))

\* The text up to a colon, between its first apostrophe, if there is one, and its last
\* character.
_get_value(text) ==
    LET colon == find(text, Colon)
        value == strip(IF colon = 0 THEN text ELSE SubSeq(text, 1, colon - 1))
    IN SubSeq(value, find(value, Apostrophe) + 1, Len(value) - 1)

\* Mutant of _convert_bytestring_to_hex: the parts are joined in their order.
InOrder(text) ==
    LET value == SelectSeq(text, LAMBDA c : c # Escape)
    IN IF value = <<>> THEN <<NoDigit>> ELSE value

\* The text is split at \x, and the parts are joined in reverse order: what repr() shows
\* otherwise stays behind the byte before it.  "0x" with nothing behind it is no number.
\* (A backslash, which is shown as two, before a byte that is an x would be split between
\* them; that is no number either way.)
_convert_bytestring_to_hex(text) ==
    LET parts[n \in 0..Len(text)] ==
            IF n = 0 THEN [last |-> <<>>, before |-> <<>>]
            ELSE IF text[n] = Escape
            THEN [last |-> <<>>, before |-> parts[n - 1].last \o parts[n - 1].before]
            ELSE [parts[n - 1] EXCEPT !.last = Append(@, text[n])]
        value == parts[Len(text)].last \o parts[Len(text)].before
    IN IF value = <<>> THEN <<NoDigit>> ELSE value

\* What KleeTestConverter makes of a line of ktest-tool.
KleeText(m) == _convert_bytestring_to_hex(_get_value(repr(m)))

ULLONG_MAX == Power[2 * LongLong] - 1

\* The number that digits stand for, one digit after the other.
Number(t) ==
    LET value[n \in 0..Len(t)] == IF n = 0 THEN 0 ELSE Base * value[n - 1] + t[n]
    IN value[Len(t)]

\* strtoull: the number, or the largest one there is if it is too large; with a minus sign
\* it is negated in unsigned arithmetic.
strtoull(t) ==
    LET signed == t # <<>> /\ Head(t) = Minus
        value == Number(IF signed THEN Tail(t) ELSE t)
    IN CASE value > ULLONG_MAX -> ULLONG_MAX
         [] value <= ULLONG_MAX /\ signed -> (-value) % (ULLONG_MAX + 1)
         [] OTHER -> value

\* Byte i of a number in memory.
ByteOf(value, i) == (value \div Power[2 * (i - 1)]) % (Base * Base)

\* The memory that parse_inp returns for digits, as far as a variable of some size reads
\* it: LongLong bytes of the number, and of the other ones of malloc(16) anything.
ParsedBytes(t, size) ==
    {[i \in 1..size |-> IF i <= LongLong THEN ByteOf(strtoull(t), i) ELSE garbage] :
        garbage \in {0, Base}}

\* The memory that it returns for text that only strtold accepts, likewise.
FloatBytes(t, size) ==
    {[i \in 1..size |-> IF i <= Len(LongDouble[t]) THEN LongDouble[t][i] ELSE garbage] :
        garbage \in {0, Base}}

-----------------------------------------------------------------------------
(* Numbers of CREST and CPATiger *)

\* The types of methods that are considered, of the sizes of a machine on which int has
\* one byte here.  A pointer is as large as an int with --32.
Types == {"char", "unsigned char", "int", "unsigned int", "_Bool", "char *",
          "long long", "unsigned long long"}

SizeOf == [t \in Types |-> IF t \in {"long long", "unsigned long long"} THEN LongLong ELSE 1]

Numbers(t) ==
    LET n == Power[2 * SizeOf[t]]
    IN IF t \in {"char", "int", "long long"} THEN -(n \div 2)..(n \div 2 - 1) ELSE 0..(n - 1)

\* CREST has no symbolic values of some types.
internal_type(t) ==
    CASE t = "_Bool" -> "char" [] t = "char *" -> "unsigned long long" [] OTHER -> t

\* The memory of number v after a cast to type t.
Cast(v, t) == IF t = "_Bool" THEN <<IF v = 0 THEN 0 ELSE 1>>
              ELSE [i \in 1..SizeOf[t] |-> ByteOf(v % (ULLONG_MAX + 1), i)]

DecimalText(v) ==
    LET n == IF v < 0 THEN -v ELSE v
        length == CHOOSE l \in 1..(2 * LongLong) :
                      n < Power[l] /\ (l = 1 \/ n >= Power[l - 1])
        digits == [i \in 1..length |-> (n \div Power[length - i]) % Base]
    IN IF v < 0 THEN <<Minus>> \o digits ELSE digits
=============================================================================
