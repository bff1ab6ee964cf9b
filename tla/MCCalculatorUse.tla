--------------------------- MODULE MCCalculatorUse --------------------------
(***************************************************************************)
(* Every pair of operands of a small short, and inputs outside its range.  *)
(***************************************************************************)
EXTENDS CalculatorUse

MCInputs == -(2 * Half + 1) .. (2 * Half + 1)
=============================================================================
