-------------------------- MODULE MCAcknowledgements --------------------------
(* Instance of Acknowledgements for TLC. *)
EXTENDS Acknowledgements, TLC

CONSTANTS g1, i1, o1, c1, c2, c3, s1

MCOrgOf == [g \in Groups |-> o1]
MCCreatorOf == [g \in Groups |-> i1]

Symmetry == Permutations(Calls)
===============================================================================
