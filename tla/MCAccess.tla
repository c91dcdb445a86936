------------------------------- MODULE MCAccess -------------------------------
(* Instance of Access for TLC: a caller, another identity and two          *)
(* organizations, one of them with a group. *)
EXTENDS Access, TLC

CONSTANTS i1, i2, o1, o2, g1

MCOrgOf == (g1 :> o1)
Symmetry == Permutations(People)
===============================================================================
