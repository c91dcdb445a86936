------------------------------ MODULE Pagination ------------------------------
(***************************************************************************)
(* A list read page by page while its rows come and go: listEntities and   *)
(* buildListEntitiesQuery (query_helpers.go), NormalizePageSize            *)
(* (pagination.go) and the page tokens, as ListGroups, ListMembers,        *)
(* ListMemberGroups and the handlers that loop over them use them.         *)
(*                                                                         *)
(* The pages are ordered by id and a token holds the last id returned      *)
(* (keyset pagination).  Every page is one statement, hence one snapshot,  *)
(* and between two pages any row may be inserted or deleted; a group       *)
(* listed for a member may come back under the id it had.  Ids are         *)
(* numbers here, compared as PostgreSQL compares uuids, and 0, below all   *)
(* of them, is the absent cursor, which sets no condition.                 *)
(***************************************************************************)
EXTENDS Integers, FiniteSets

CONSTANTS Ids,                  \* the ids rows may have
          DefaultListPageSize, MaxListPageSize,
          PageSizes             \* values of a request's page_size

ASSUME PagingAssumption ==
  /\ Ids \subseteq Nat \ {0}
  /\ DefaultListPageSize \in 1..MaxListPageSize /\ MaxListPageSize \in Nat
  /\ PageSizes \subseteq Int

VARIABLES listing,   \* ids of the rows that match the filter now
          walker,    \* who reads: see Walkers
          cursor,    \* the token of the last answer
          got,       \* ids returned so far
          phase,     \* of the walk
          standing,  \* history: rows that were there all the while
          listed     \* history: rows that were there at some time

walkVars == <<cursor, got, phase>>
vars == <<listing, walker, walkVars, standing, listed>>

(* A client that follows the tokens and may ask for another size each      *)
(* time; listAllMembers of DeleteGroup, which asks for the largest; and an *)
(* entry of ListMemberGroupsBatch, which drops the token of its one page.  *)
Walkers == {"client", "handler", "batch"}

NormalizePageSize(size) ==
  IF size <= 0 THEN DefaultListPageSize
  ELSE IF size > MaxListPageSize THEN MaxListPageSize ELSE size

Sizes == IF walker = "handler" THEN {MaxListPageSize} ELSE PageSizes

(* mutant: the cursor's own row is read again *)
FromCursor == {id \in listing : id >= cursor}

(* WHERE ... AND id > $cursor *)
AfterCursor == {id \in listing : id > cursor}

(* ORDER BY id ASC LIMIT n *)
Least(S, n) == {x \in S : Cardinality({y \in S : y < x}) < n}

(* mutant: the row read beyond the page becomes the cursor *)
LastBeyond(rows, limit) ==
  {x \in Least(rows, limit + 1) : \A y \in Least(rows, limit + 1) : y <= x}

(* The id of the last row of a page *)
LastOf(rows, limit) ==
  {x \in Least(rows, limit) : \A y \in Least(rows, limit) : y <= x}

(* mutant: a page that is full is taken for one with more behind it *)
HasMoreAtLimit(rows, limit) == Cardinality(rows) >= limit

(* The statement reads limit + 1 rows: it finds one beyond the page when   *)
(* the page leaves one out. *)
HasMore(rows, limit) == \E x \in rows : x \notin Least(rows, limit)

Init ==
  /\ listing \in SUBSET Ids /\ IsFiniteSet(listing)
  /\ walker \in Walkers
  /\ cursor = 0 /\ got = {} /\ phase = "reading"
  /\ standing = listing /\ listed = listing

(* mutant: the token of the answer is not taken over *)
ReadPageSameToken(size) ==
  /\ phase = "reading"
  /\ LET limit == NormalizePageSize(size)
         rows == AfterCursor
     IN  /\ got' = got \cup Least(rows, limit)
         /\ phase' = IF HasMore(rows, limit) THEN "reading" ELSE "complete"
  /\ UNCHANGED <<listing, walker, cursor, standing, listed>>

ReadPage(size) ==
  /\ phase = "reading"
  /\ LET limit == NormalizePageSize(size)
         rows == AfterCursor
     IN  /\ got' = got \cup Least(rows, limit)
         /\ IF HasMore(rows, limit)
              THEN /\ cursor' \in LastOf(rows, limit)
                   /\ phase' = IF walker = "batch" THEN "cut" ELSE "reading"
              ELSE phase' = "complete" /\ UNCHANGED cursor
  /\ UNCHANGED <<listing, walker, standing, listed>>

(* An error of a page ends the handler's loop and the batch; a client may  *)
(* ask again with the token it has, which changes nothing. *)
PageFails ==
  /\ phase = "reading"
  /\ walker # "client"
  /\ phase' = "failed"
  /\ UNCHANGED <<listing, walker, cursor, got, standing, listed>>

Insert(id) ==
  /\ id \notin listing
  /\ listing' = listing \cup {id}
  /\ listed' = listed \cup {id}
  /\ UNCHANGED <<walker, walkVars, standing>>

Delete(id) ==
  /\ id \in listing
  /\ listing' = listing \ {id}
  /\ standing' = standing \ {id}
  /\ UNCHANGED <<walker, walkVars, listed>>

Walk == \E size \in Sizes : ReadPage(size)

Next ==
  \/ Walk
  \/ PageFails
  \/ phase = "reading" /\ \E id \in Ids : Insert(id) \/ Delete(id)

Spec == Init /\ [][Next]_vars

(* A reader that has a token asks for the next page. *)
FairSpec == Spec /\ WF_vars(Walk)

TypeOK ==
  /\ listing \subseteq Ids /\ IsFiniteSet(listing)
  /\ walker \in Walkers
  /\ cursor \in Ids \cup {0}
  /\ got \subseteq Ids
  /\ phase \in {"reading", "complete", "cut", "failed"}
  /\ standing \subseteq listing /\ listing \subseteq listed /\ listed \subseteq Ids

(* A walk that came to its end has returned every row that was there from  *)
(* the first page to the last, whatever sizes were asked for, and whatever *)
(* was inserted or deleted in between: before the cursor, behind it, or    *)
(* the cursor's own row.  listAllMembers relies on it (memberships.go:151) *)
(* and so does a client of an entry of a batch that was not cut.           *)
WalkIsComplete == phase = "complete" => standing \subseteq got

(* member_groups.go:30: an entry of a batch is cut, its token dropped,     *)
(* only if its list does not fit into the page: a list of exactly the size *)
(* of the page is whole.  What is cut is the tail: the entry has the first *)
(* rows of its list, and everything that it lacks lies behind them.        *)
CutIsThePrefix ==
  phase = "cut" =>
    /\ got # {} /\ got \subseteq listing /\ listing # got
    /\ \A x \in listing \ got : \A y \in got : y < x

(* Nothing is returned that was not in the list at some time of the walk.  *)
WalkIsTrue == got \subseteq listed

(* Every page lies beyond all the pages before it, so no row is returned   *)
(* twice, although rows come and go at, before and behind the cursor.      *)
NoRowAgain ==
  [][\A size \in Sizes : ReadPage(size) =>
       \A x \in Least(AfterCursor, NormalizePageSize(size)) :
         \A y \in got : x > y]_vars

(* The loop ends although rows keep coming: tokens only move forward.      *)
WalkEnds == <>(phase # "reading")

(* The inductive invariant: of the rows up to the cursor those that stayed *)
(* have been returned, and nothing beyond it has; a batch reads one page.  *)
WalkIInv ==
  /\ TypeOK
  /\ WalkIsTrue
  /\ WalkIsComplete
  /\ phase = "reading" => \A x \in standing : x <= cursor => x \in got
  /\ phase = "reading" => \A x \in got : x <= cursor
  /\ walker = "batch" /\ phase = "reading" => got = {} /\ cursor = 0
  /\ phase = "cut" => walker = "batch"
  /\ CutIsThePrefix
===============================================================================
