----------------------------- MODULE GroupStore -----------------------------
(***************************************************************************)
(* The PostgreSQL database behind internal/store: the tables groups and    *)
(* group_memberships of migrations/0001_init.sql.  A group is its primary  *)
(* key; a membership row keeps what the two constraints and the callers    *)
(* tell apart, its primary key, the group and the member.  Name, source,   *)
(* external id, member type and the timestamps are left out.               *)
(*                                                                         *)
(* A statement is atomic, so a module that uses the store gives the tables *)
(* their new value in one action; ForeignKey and UniqueMember are what the *)
(* schema enforces after every one of them.                                *)
(***************************************************************************)
CONSTANTS Groups,       \* group primary keys, live or not yet created
          Identities,   \* identity ids, the possible members
          RowIds        \* membership primary keys

VARIABLES groups,       \* rows of table groups
          memberships   \* rows of table group_memberships

storeVars == <<groups, memberships>>

Row == [id : RowIds, group : Groups, member : Identities]

StoreTypeOK ==
  /\ groups \subseteq Groups
  /\ memberships \subseteq Row

(* SELECT ... FROM group_memberships WHERE group_id = g [AND member_id = m] *)
RowsOf(g) == {r \in memberships : r.group = g}
RowsFor(g, m) == {r \in RowsOf(g) : r.member = m}

(* group_id REFERENCES groups(id) ON DELETE CASCADE *)
ForeignKey == \A r \in memberships : r.group \in groups

(* UNIQUE (group_id, member_id) *)
UniqueMember ==
  \A r, s \in memberships :
    r.group = s.group /\ r.member = s.member => r = s
=============================================================================
