----------------------------- MODULE MCClientApp -----------------------------
(***************************************************************************)
(* One or two redundant servers.                                           *)
(***************************************************************************)
EXTENDS ClientApp, TLC

CONSTANTS s1, s2

OneServer == {s1}
TwoServers == {s1, s2}
ServerSymmetry == Permutations({s1, s2})
=============================================================================
