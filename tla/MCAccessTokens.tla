---------------------------- MODULE MCAccessTokens ----------------------------
(* Instances of AccessTokens for TLC. *)
EXTENDS AccessTokens

CONSTANTS p1, p2
=============================================================================
