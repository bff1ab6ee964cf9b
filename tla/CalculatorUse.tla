--------------------------- MODULE CalculatorUse ----------------------------
(***************************************************************************)
(* One use of the calculator after another: a client parses two arguments, *)
(* asks for an operation, and a server calculates or finds the request     *)
(* malformed.                                                              *)
(***************************************************************************)
EXTENDS Calculator

CONSTANT Inputs   \* the integers typed on the clients' command lines
ASSUME InputsAssumption == Inputs \subseteq Int

VARIABLES request,   \* the last request calculated
          result     \* std::int32_t result, of the last successful calculation
vars == <<request, result>>

Init == /\ request = [operation |-> UnknownOperation, x |-> 0, y |-> 0]
        /\ result = 0

\* CLIParser::consume_client_arguments, then ServerApp::calculate.
Ask(operation, x, y) ==
    /\ AcceptedArgument(x)
    /\ AcceptedArgument(y)
    /\ request' = [operation |-> operation, x |-> x, y |-> y]
    /\ result' = IF CanCalculate(request') THEN Calculate(request') ELSE result

Next == \E operation \in OperationKinds \cup {UnknownOperation},
           x, y \in Inputs : Ask(operation, x, y)

Spec == Init /\ [][Next]_vars

\* The operands of a request are 16-bit integers and its operation is one of
\* the enumeration's or one the server does not know.
TypeOK ==
    /\ request \in [operation : OperationKinds \cup {UnknownOperation},
                    x : Short, y : Short]
    /\ result \in Int

\* No calculation leaves the range of the reply's 32-bit result, whatever
\* operands the command line lets through: not -2^15 * -2^15, and not
\* -2^15 / -1, which is no 16-bit integer (the assignments to "result" in
\* calculate, with the range check of consume_int16_argument).
ResultFits == result \in Long

\* The quotient the server replies with is the one C++ defines: multiplied
\* back it misses the dividend by less than the divisor, and what is left
\* never has the sign opposite to the dividend's (calculate, case DIVISION).
DivisionTruncates ==
    request.operation = "DIVISION" /\ CanCalculate(request) =>
        LET remainder == request.x - result * request.y
        IN  /\ Abs(remainder) < Abs(request.y)
            /\ remainder # 0 => (remainder < 0) = (request.x < 0)
=============================================================================
