------------------------------ MODULE MCRoleNames ------------------------------
(***************************************************************************)
(* Two zones, each with a gdeliveryd and a gamedbd of its own, and the     *)
(* register they share.                                                    *)
(***************************************************************************)
EXTENDS RoleNames, TLC

CONSTANTS z1, z2, u1, u2, n1, n2, x1, x2, x3

Symmetry == Permutations({z1, z2}) \cup Permutations({n1, n2}) \cup Permutations({x1, x2, x3})
================================================================================
