--------------------------- MODULE MCGroupsSystem ---------------------------
(* Instance of GroupsSystem for TLC. *)
EXTENDS GroupsSystem, TLC

CONSTANTS g1, g2, i1, i2, o1, c1, c2, c3, s1, s2

MCOrgOf == [g \in Groups |-> o1]
MCCreatorOf == [g \in Groups |-> i1]

(* All the tuples in one page, or the groups' own tuples in a page before  *)
(* the one of the member tuples.                                           *)
MCOnePage == {TupleKeys}
MCTwoPages ==
  LET own == UNION {GroupKeys(g) : g \in Groups} IN {own, TupleKeys \ own}

Symmetry == Permutations(Calls)
=============================================================================
