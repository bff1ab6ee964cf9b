----------------------------- MODULE Calculator -----------------------------
(***************************************************************************)
(* The calculator a server offers: the integer widths of the IDL types,    *)
(* the command line's conversion of an operand, and ServerApp::calculate.  *)
(* Everything here is a pure operator; the modules of the applications use *)
(* them.                                                                   *)
(***************************************************************************)
EXTENDS Integers

CONSTANT Half   \* half the number of values of an IDL short; 2^15 in the code
ASSUME HalfAssumption == Half \in Nat \ {0}

\* An IDL short (the operands) and an IDL long (the result), which has twice
\* its bits: with Half = 2^15, -2^15 .. 2^15-1 and -2^31 .. 2^31-1.
Short == -Half .. (Half - 1)
Long  == -(2 * Half * Half) .. (2 * Half * Half - 1)

\* CalculatorOperationType.  The enumeration is APPENDABLE, so a request of
\* a newer client may carry an operation this server has no case for.
OperationKinds == {"ADDITION", "SUBTRACTION", "MULTIPLICATION", "DIVISION"}
UnknownOperation == "UNKNOWN"

Abs(n) == IF n < 0 THEN -n ELSE n

\* Bug: the quotient rounds down, as an arithmetic shift would.
FloorQuotient(x, y) == IF y > 0 THEN x \div y ELSE (-x) \div (-y)

\* The "/" of C++ truncates toward zero; the "\div" of TLA+ rounds down.
Quotient(x, y) ==
    IF (x < 0) = (y < 0) THEN Abs(x) \div Abs(y) ELSE -(Abs(x) \div Abs(y))

\* Bug: the range check uses the limits of the next wider type.
WideArgument(input) == input \in Long

\* CLIParser::consume_int16_argument on the int that std::stoi returns: an
\* input outside the range ends the program, any other one is the operand.
AcceptedArgument(input) == ~(input < -Half \/ input > Half - 1)

\* What "return success" says: FALSE for the requests the server calls
\* malformed.
CanCalculate(request) ==
    /\ request.operation \in OperationKinds
    /\ request.operation = "DIVISION" => request.y # 0

\* The value of "result" when the calculation succeeds.  The operands are
\* promoted to int, so the arithmetic itself wraps nowhere; the value is then
\* stored in a long.
Calculate(request) ==
    CASE request.operation = "ADDITION"       -> request.x + request.y
      [] request.operation = "SUBTRACTION"    -> request.x - request.y
      [] request.operation = "MULTIPLICATION" -> request.x * request.y
      [] request.operation = "DIVISION"       -> Quotient(request.x, request.y)
=============================================================================
