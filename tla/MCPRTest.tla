------------------------------ MODULE MCPRTest ------------------------------
(* Constants of PRTest for TLC: three guards, so that MAX_TEST_NUMBER is reached, *)
(* too, and runs that are shorter or longer than MAX_TEST_SIZE.                  *)
EXTENDS PRTest

CONSTANTS g1, g2, g3

MCGuards == {g1, g2, g3}
=============================================================================
