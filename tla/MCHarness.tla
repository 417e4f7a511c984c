------------------------------ MODULE MCHarness ------------------------------
(* Constants of InputValues and Harness for TLC: bytes of two digits of base 4, and *)
(* variables of up to one byte more than the largest integer type.                  *)
EXTENDS Harness

\* Bytes that repr shows otherwise than as \x and two digits: a character that is also a
\* digit, like 'A', one that is none, like 'z', the punctuation marks, and a newline.
MCShown == 7..14
MCReprOf ==
    [b \in MCShown |->
        CASE b = 7  -> <<Colon>>
          [] b = 8  -> <<Space>>
          [] b = 9  -> <<3>>
          [] b = 10 -> <<Quote, NoDigit>>
          [] b = 11 -> <<Quote>>
          [] b = 12 -> <<Apostrophe>>
          [] b = 13 -> <<Quote, Quote>>
          [] b = 14 -> <<NoDigit>>]

\* Zero, a byte with a leading zero, and the largest byte.
PlainBytes == {0, 2, 15}

\* One or two bytes, those that repr shows in its own way among them, or three.
MCMemories ==
    LET bytes == PlainBytes \cup MCShown
    IN (bytes \X bytes) \cup {<<b>> : b \in bytes} \cup (PlainBytes \X PlainBytes \X PlainBytes)

\* Those with no such byte but the character that is also a digit.
DigitMemories == {m \in MCMemories : ToSet(m) \subseteq PlainBytes \cup {9}}

\* The ends of the ranges of one and of two bytes, and numbers around zero.
MCValues == {-128, -8, -1, 0, 1, 7, 15, 127, 255}

\* Two numbers with a point, and the memory of their long double.
OneAndAHalf == <<1, NoDigit, 2>>
Half == <<NoDigit, 2>>
MCLongDouble == [t \in {OneAndAHalf, Half} |-> IF t = Half THEN <<0, 3, 3, 3>> ELSE <<1, 3, 3, 3>>]

\* Nothing, two numbers, text that is no number, and a number in quotes.
MCLines ==
    LET zeros == [i \in 1..8 |-> 0]
    IN {<<>>, <<1>>, <<2>>, <<1, NoDigit>>, <<Quote, 1, Quote>>, OneAndAHalf, Half,
        \* With MCHarness.cfg: one that fills the buffer but for its newline, and one that
        \* is larger than the buffer.
        zeros \o <<3>>, zeros \o <<3, 2>>}

\* Lines that are read to their end and are no other literal in quotes.
PlainLines == {line \in MCLines : Quote \notin ToSet(line) /\ Len(line) < 9}
=============================================================================
