--------------------------- MODULE MCGatewayLogins ---------------------------
(* A small instance of GatewayLogins for TLC: one email, which signs up      *)
(* again when its account cannot come back, and two requests under way.      *)
EXTENDS GatewayLogins, TLC

CONSTANTS e1, r1, r2

OneEmail == {e1}
TwoRequests == {r1, r2}
LoginSymmetry == Permutations(Request)
=============================================================================
