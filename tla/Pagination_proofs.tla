-------------------------- MODULE Pagination_proofs --------------------------
(***************************************************************************)
(* Proofs about Pagination: a walk misses no row that stays and repeats    *)
(* none, for any ids, page sizes and changes of the list.                  *)
(***************************************************************************)
EXTENDS Pagination, FiniteSetTheorems, TLAPS

-----------------------------------------------------------------------------
(* NormalizePageSize yields a size the store accepts. *)
LEMMA SizeTypes == \A size \in Int : NormalizePageSize(size) \in 1..MaxListPageSize
BY PagingAssumption DEF NormalizePageSize

LEMMA LimitTypes == \A size \in Sizes : NormalizePageSize(size) \in Nat
<1>1. Sizes \subseteq Int
  BY PagingAssumption DEF Sizes
<1> QED
  BY <1>1, SizeTypes, PagingAssumption

(* A page is closed downwards: with a row it has every row before it. *)
LEMMA PageIsClosed ==
  ASSUME NEW S \in SUBSET Int, IsFiniteSet(S), NEW n \in Nat,
         NEW x \in S, NEW y \in Least(S, n), x <= y
  PROVE  x \in Least(S, n)
<1> DEFINE below(z) == {w \in S : w < z}
<1>1. below(x) \subseteq below(y)
  <2> SUFFICES ASSUME NEW w \in S, w < x PROVE w < y
    OBVIOUS
  <2> QED
    BY DEF Least
<1>2. IsFiniteSet(below(y))
  BY FS_Subset
<1>3. Cardinality(below(x)) <= Cardinality(below(y))
  BY <1>1, <1>2, FS_Subset
<1>4. Cardinality(below(x)) \in Nat /\ Cardinality(below(y)) \in Nat
  BY <1>1, <1>2, FS_Subset, FS_CardinalityType
<1>5. Cardinality(below(y)) < n
  BY DEF Least
<1> QED
  BY <1>3, <1>4, <1>5 DEF Least

-----------------------------------------------------------------------------
(* What one page returns. *)
LEMMA PageRows ==
  ASSUME WalkIInv, phase = "reading", NEW size \in Sizes
  PROVE  /\ Least(AfterCursor, NormalizePageSize(size)) \subseteq listing
         /\ \A x \in Least(AfterCursor, NormalizePageSize(size)) : x > cursor
BY DEF Least, AfterCursor

LEMMA ReadKeeps == ASSUME WalkIInv, NEW size \in Sizes, ReadPage(size) PROVE WalkIInv'
<1> DEFINE limit == NormalizePageSize(size)
           page == Least(AfterCursor, limit)
<1>0. phase = "reading" /\ got' = got \cup page
  BY DEF ReadPage
<1>1. page \subseteq listing /\ page \subseteq AfterCursor /\ limit \in Nat
  BY LimitTypes DEF Least, AfterCursor
<1>2. AfterCursor \in SUBSET Int /\ IsFiniteSet(AfterCursor)
  <2>1. AfterCursor \subseteq listing
    BY DEF AfterCursor
  <2>2. listing \subseteq Int /\ IsFiniteSet(listing)
    BY PagingAssumption DEF WalkIInv, TypeOK
  <2> QED
    BY <2>1, <2>2, FS_Subset
<1>3. UNCHANGED <<listing, walker, standing, listed>>
  BY DEF ReadPage
<1>4. standing \subseteq listing /\ listing \subseteq Ids /\ Ids \subseteq Nat
      /\ cursor \in Ids \cup {0}
  BY PagingAssumption DEF WalkIInv, TypeOK
<1>5. \A x \in standing : x <= cursor => x \in got
  BY <1>0 DEF WalkIInv
<1>6. \A x \in standing : x > cursor => x \in AfterCursor
  BY <1>4 DEF AfterCursor
<1>7. WalkIsTrue'
  BY <1>0, <1>1, <1>3 DEF WalkIInv, WalkIsTrue, TypeOK
<1>8. CASE HasMore(AfterCursor, limit)
  <2>1. cursor' \in page /\ \A y \in page : y <= cursor'
    BY <1>8 DEF ReadPage, LastOf
  <2>2. phase' \in {"reading", "cut"}
    BY <1>8 DEF ReadPage
  <2>3. TypeOK'
    BY <1>0, <1>1, <1>3, <2>1, <2>2 DEF WalkIInv, TypeOK
  <2>4. \A x \in standing : x <= cursor' => x \in got'
    <3> SUFFICES ASSUME NEW x \in standing, x <= cursor' PROVE x \in got'
      OBVIOUS
    <3>1. CASE x <= cursor
      BY <3>1, <1>0, <1>5
    <3>2. CASE x > cursor
      <4>1. x \in AfterCursor
        BY <3>2, <1>6
      <4>2. x \in page
        BY <4>1, <1>1, <1>2, <2>1, PageIsClosed
      <4> QED
        BY <4>2, <1>0
    <3> QED
      BY <3>1, <3>2, <1>4
  <2>5. \A x \in got' : x <= cursor'
    <3>1. \A x \in got : x <= cursor
      BY <1>0 DEF WalkIInv
    <3>2. got \subseteq Ids /\ cursor' > cursor
      BY <2>1, <1>1 DEF WalkIInv, TypeOK, AfterCursor
    <3>3. cursor' \in Int /\ cursor \in Int /\ got \subseteq Int
      <4>1. cursor' \in Ids
        BY <2>1, <1>1, <1>4
      <4>2. \A id \in Ids \cup {0} : id \in Int
        BY <1>4
      <4> HIDE DEF page
      <4> QED
        BY <4>1, <4>2, <3>2, <1>4
    <3>4. \A x \in got : x <= cursor'
      BY <3>1, <3>2, <3>3
    <3> QED
      BY <3>4, <1>0, <2>1
  <2>6. WalkIsComplete'
    BY <2>2 DEF WalkIsComplete
  <2>7. phase' = IF walker = "batch" THEN "cut" ELSE "reading"
    BY <1>8 DEF ReadPage
  <2>8. CutIsThePrefix'
    <3> SUFFICES ASSUME walker = "batch"
                 PROVE  /\ got' # {} /\ got' \subseteq listing /\ listing # got'
                        /\ \A x \in listing \ got' : \A y \in got' : y < x
      BY <1>3, <2>7 DEF CutIsThePrefix
    <3>1. got = {} /\ cursor = 0
      BY <1>0 DEF WalkIInv
    <3>2. AfterCursor = listing
      <4>1. \A x \in listing : x > 0
        BY <1>4, PagingAssumption
      <4> QED
        BY <3>1, <4>1 DEF AfterCursor
    <3>3. got' = page /\ listing # page
      BY <1>0, <1>8, <3>1, <3>2 DEF HasMore
    <3>4. ASSUME NEW x \in listing \ page, NEW y \in page PROVE y < x
      <4>1. x \in Int /\ y \in Int
        <5>1. \A z \in listing : z \in Int
          BY <1>4
        <5> HIDE DEF page
        <5> QED
          BY <1>1, <5>1
      <4>2. ~(x <= y)
        BY <1>1, <1>2, <3>2, PageIsClosed
      <4> HIDE DEF page
      <4> QED
        BY <4>1, <4>2
    <3> QED
      BY <1>1, <2>1, <3>3, <3>4
  <2>9. /\ walker' = "batch" /\ phase' = "reading" => got' = {} /\ cursor' = 0
        /\ phase' = "cut" => walker' = "batch"
    BY <1>3, <2>7
  <2> QED
    BY <1>3, <1>7, <2>3, <2>4, <2>5, <2>6, <2>8, <2>9 DEF WalkIInv
<1>9. CASE ~HasMore(AfterCursor, limit)
  <2>1. phase' = "complete" /\ cursor' = cursor
    BY <1>9 DEF ReadPage
  <2>2. TypeOK'
    BY <1>0, <1>1, <1>3, <2>1 DEF WalkIInv, TypeOK
  <2>3. AfterCursor \subseteq page
    BY <1>9 DEF HasMore
  <2>4. standing \subseteq got'
    BY <1>0, <1>4, <1>5, <1>6, <2>3
  <2> QED
    BY <1>3, <1>7, <2>1, <2>2, <2>4 DEF WalkIInv, WalkIsComplete, CutIsThePrefix
<1> QED
  BY <1>8, <1>9

-----------------------------------------------------------------------------
LEMMA WalkInit == Init => WalkIInv
BY PagingAssumption DEF Init, WalkIInv, TypeOK, WalkIsTrue, WalkIsComplete, CutIsThePrefix

LEMMA WalkStep == WalkIInv /\ [Next]_vars => WalkIInv'
<1> SUFFICES ASSUME WalkIInv, [Next]_vars PROVE WalkIInv'
  OBVIOUS
<1>1. ASSUME NEW size \in Sizes, ReadPage(size) PROVE WalkIInv'
  BY <1>1, ReadKeeps
<1>2. CASE PageFails
  BY <1>2 DEF PageFails, WalkIInv, TypeOK, WalkIsTrue, WalkIsComplete, CutIsThePrefix
<1>3. ASSUME NEW id \in Ids, phase = "reading", Insert(id) PROVE WalkIInv'
  <2>1. IsFiniteSet(listing')
    BY <1>3, FS_AddElement DEF WalkIInv, TypeOK, Insert
  <2> QED
    BY <1>3, <2>1 DEF Insert, walkVars, WalkIInv, TypeOK, WalkIsTrue, WalkIsComplete,
                      CutIsThePrefix
<1>4. ASSUME NEW id \in Ids, phase = "reading", Delete(id) PROVE WalkIInv'
  <2>1. IsFiniteSet(listing')
    BY <1>4, FS_RemoveElement DEF WalkIInv, TypeOK, Delete
  <2> QED
    BY <1>4, <2>1 DEF Delete, walkVars, WalkIInv, TypeOK, WalkIsTrue, WalkIsComplete,
                      CutIsThePrefix
<1>5. CASE UNCHANGED vars
  BY <1>5 DEF vars, walkVars, WalkIInv, TypeOK, WalkIsTrue, WalkIsComplete, CutIsThePrefix
<1> QED
  BY <1>1, <1>2, <1>3, <1>4, <1>5 DEF Next, Walk

(* The invariant of a walk holds, for any ids and page sizes. *)
THEOREM WalkInvariance == Spec => []WalkIInv
BY WalkInit, WalkStep, PTL DEF Spec

(* A walk that came to its end has every row that stayed throughout, for   *)
(* any list, any sizes asked for and any inserts and deletes (listEntities *)
(* of query_helpers.go and the loop of listAllMembers). *)
THEOREM WalkCompleteness == Spec => []WalkIsComplete
<1>1. WalkIInv => WalkIsComplete
  BY DEF WalkIInv
<1> QED
  BY <1>1, WalkInvariance, PTL

(* An entry of a batch that is cut has the first rows of a list that is    *)
(* longer than its page (ListMemberGroupsBatch of member_groups.go).       *)
THEOREM BatchPageIsPrefix == Spec => []CutIsThePrefix
<1>1. WalkIInv => CutIsThePrefix
  BY DEF WalkIInv
<1> QED
  BY <1>1, WalkInvariance, PTL

(* Pages never overlap and come in ascending order. *)
THEOREM WalkNeverRepeats == Spec => NoRowAgain
<1> DEFINE Ascends ==
      \A size \in Sizes : ReadPage(size) =>
        \A x \in Least(AfterCursor, NormalizePageSize(size)) :
          \A y \in got : x > y
<1>1. WalkIInv => Ascends
  <2> SUFFICES ASSUME WalkIInv, NEW size \in Sizes, ReadPage(size),
                      NEW x \in Least(AfterCursor, NormalizePageSize(size)),
                      NEW y \in got
               PROVE  x > y
    OBVIOUS
  <2>1. phase = "reading" /\ y <= cursor /\ y \in Ids /\ cursor \in Ids \cup {0}
    BY DEF ReadPage, WalkIInv, TypeOK
  <2>2. x \in listing /\ x > cursor
    BY <2>1, PageRows
  <2>3. x \in Nat /\ y \in Nat /\ cursor \in Nat
    BY <2>1, <2>2, PagingAssumption DEF WalkIInv, TypeOK
  <2> QED
    BY <2>1, <2>2, <2>3
<1> QED
  BY <1>1, WalkInvariance, PTL DEF NoRowAgain
===============================================================================
