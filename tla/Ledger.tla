-------------------------------- MODULE Ledger --------------------------------
(***************************************************************************)
(* What the groups service promises to everyone who looks at the database, *)
(* the authorization service and the event stream together: the life of a  *)
(* group and of a membership row, and how access and events follow it.     *)
(* There are no requests, no reconciler, no failures and no crashes here.  *)
(* Each step changes one of the stores, or publishes one event, for no two *)
(* of them are ever changed in one transaction.                            *)
(***************************************************************************)
CONSTANTS Groups, Identities, RowIds

VARIABLES live,        \* groups that exist
          rows,        \* membership rows that exist
          granted,     \* pairs the authorization service takes for members
          validated,   \* pairs whose identity was checked for the group
          drawn,       \* group ids in use or used up
          spent,       \* row ids in use or used up
          added, removed, deleted     \* what has been announced

vars == <<live, rows, granted, validated, drawn, spent, added, removed, deleted>>

Pair(r) == [relation |-> "member", group |-> r.group, user |-> r.member]

Init ==
  /\ live \subseteq drawn
  /\ \A r \in rows :
       /\ r.group \in live /\ r.id \in spent /\ Pair(r) \in validated
       /\ \A s \in rows : Pair(r) = Pair(s) => r = s
  /\ granted \subseteq validated
  /\ added = {} /\ removed = {} /\ deleted = {}

(* A group lives once. *)
Open(g) ==
  /\ g \notin drawn
  /\ drawn' = drawn \cup {g} /\ live' \in {live, live \cup {g}}
  /\ UNCHANGED <<rows, granted, validated, spent, added, removed, deleted>>

(* It goes together with the rows it has. *)
Close(g) ==
  /\ live' = live \ {g}
  /\ rows' = {r \in rows : r.group # g}
  /\ UNCHANGED <<granted, validated, drawn, spent, added, removed, deleted>>

Validate(k) ==
  /\ validated' = validated \cup {k}
  /\ UNCHANGED <<live, rows, granted, drawn, spent, added, removed, deleted>>

(* A row is inserted once, for a validated pair of a live group that has   *)
(* no row. *)
Insert(r) ==
  /\ r.id \notin spent /\ r.group \in live /\ Pair(r) \in validated
  /\ \A s \in rows : Pair(s) # Pair(r)
  /\ rows' = rows \cup {r} /\ spent' = spent \cup {r.id}
  /\ UNCHANGED <<live, granted, validated, drawn, added, removed, deleted>>

(* Ids of requests that ended before they inserted their row. *)
Spend ==
  /\ spent \subseteq spent'
  /\ UNCHANGED <<live, rows, granted, validated, drawn, added, removed, deleted>>

Remove ==
  /\ rows' \subseteq rows
  /\ UNCHANGED <<live, granted, validated, drawn, spent, added, removed, deleted>>

(* Access is granted for validated pairs only, and may be revoked. *)
Grant ==
  /\ granted' \subseteq granted \cup validated
  /\ UNCHANGED <<live, rows, validated, drawn, spent, added, removed, deleted>>

(* An addition is announced for a validated pair and a row id used up, a   *)
(* removal for a row that is gone, and so is the end of a group. *)
AnnounceAdded(r) ==
  /\ r.id \in spent /\ Pair(r) \in validated
  /\ added' = added \cup {r}
  /\ UNCHANGED <<live, rows, granted, validated, drawn, spent, removed, deleted>>
AnnounceRemoved(r) ==
  /\ r.id \in spent /\ r \notin rows
  /\ removed' = removed \cup {r}
  /\ UNCHANGED <<live, rows, granted, validated, drawn, spent, added, deleted>>
AnnounceDeleted(g) ==
  /\ g \in drawn /\ g \notin live
  /\ deleted' = deleted \cup {g}
  /\ UNCHANGED <<live, rows, granted, validated, drawn, spent, added, removed>>

Row == [id : RowIds, group : Groups, member : Identities]

Next ==
  \/ \E g \in Groups : Open(g) \/ Close(g) \/ AnnounceDeleted(g)
  \/ \E g \in Groups, m \in Identities :
       Validate([relation |-> "member", group |-> g, user |-> m])
  \/ \E r \in Row : Insert(r) \/ AnnounceAdded(r) \/ AnnounceRemoved(r)
  \/ Spend \/ Remove \/ Grant

Spec == Init /\ [][Next]_vars
===============================================================================
