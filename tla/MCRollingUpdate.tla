---------------------------- MODULE MCRollingUpdate ----------------------------
(* Instance of RollingUpdate for TLC. *)
EXTENDS RollingUpdate

CONSTANTS g1, i1, i2, o1, c1, s1

MCOrgOf == [g \in Groups |-> o1]
MCCreatorOf == [g \in Groups |-> i1]
MCOnePage == {TupleKeys}
================================================================================
