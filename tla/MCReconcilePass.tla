--------------------------- MODULE MCReconcilePass ---------------------------
(* Instance of ReconcilePass for TLC. *)
EXTENDS ReconcilePass, TLC

CONSTANTS g1, g2, i1, i2, o1, c1, c2, s1, s2

MCOrgOf == [g \in Groups |-> o1]
MCCreatorOf == [g \in Groups |-> i1]

Symmetry == Permutations(Calls)

MCOnePage == {TupleKeys}
(* The groups' own tuples in a page before the one of the member tuples. *)
MCTwoPages ==
  LET own == UNION {GroupKeys(g) : g \in Groups} IN {own, TupleKeys \ own}
==============================================================================
