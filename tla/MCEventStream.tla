---------------------------- MODULE MCEventStream ----------------------------
(* Instance of EventStream for TLC. *)
EXTENDS EventStream

CONSTANTS g1, i1, o1, c1, c2, s1

MCOrgOf == [g \in Groups |-> o1]
MCCreatorOf == [g \in Groups |-> i1]
MCOnePage == {TupleKeys}

(* Nothing tells c1 from c2 but their requests, and these never change.    *)
(* So every behaviour is one of those below with the two renamed.  (TLC's  *)
(* own symmetry reduction is unsound for liveness.)                        *)
Rank == [add |-> 1, remove |-> 2, create |-> 3, delete |-> 4]
RequestsInOrder == Rank[req[c1].op] <= Rank[req[c2].op]
==============================================================================
