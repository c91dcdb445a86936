--------------------------- MODULE LedgerRefinement ---------------------------
(***************************************************************************)
(* The process of GroupsSystem keeps the ledger: seen through its tables,  *)
(* the member tuples and its events, every step of a request or of a pass, *)
(* every failed call, panic and crash is a step of Ledger or no step.      *)
(***************************************************************************)
EXTENDS GroupsSystem

(* A row id is free as long as its AddMember may still insert it. *)
Free(c) == pc[c] \in {"add_validate", "add_insert"} \/ Starts(c, "add")
SpentIds == (RowIds \ Calls) \cup {c \in Calls : ~Free(c)}
MemberTuples == {k \in tuples : k.relation = "member"}

L == INSTANCE Ledger WITH
       live <- groups, rows <- memberships, granted <- MemberTuples,
       validated <- admitted, drawn <- issued, spent <- SpentIds,
       added <- added, removed <- removed, deleted <- deletedGroups

(* The requests and the reconciler implement Ledger: a row or a group that *)
(* is gone never comes back under its id, rows go with their group, access *)
(* and announcements follow validated rows only, and no step changes two   *)
(* of the stores (memberships.go, groups.go, reconciliation.go).           *)
KeepsLedger == L!Spec
===============================================================================
