--------------------------- MODULE MCBreakpoints ---------------------------
(***************************************************************************)
(* A small instance of Breakpoints: one :line place, one watched           *)
(* expression on an object, two times in two files.                        *)
(***************************************************************************)
EXTENDS Breakpoints

CONSTANTS txt1, txt2, line, expr

TwoTexts == [e \in Exprs |-> [t \in Times |-> IF t = 1 THEN txt1 ELSE txt2]]
=============================================================================
