----------------------------- MODULE MCServerApp -----------------------------
(***************************************************************************)
(* Two clients.  The operands of the second make its division malformed.   *)
(***************************************************************************)
EXTENDS ServerApp, TLC

CONSTANTS c1, c2

TwoClients == {c1, c2}
OneClient == {c1}
Operand == c1 :> [x |-> 3, y |-> 2] @@ c2 :> [x |-> 1, y |-> 0]
MCOperands == [c \in Clients |-> Operand[c]]

OneOperation == <<"DIVISION">>
TwoOperations == <<"ADDITION", "DIVISION">>
=============================================================================
