-------------------------- MODULE GroupCatalog_proofs --------------------------
(***************************************************************************)
(* Proofs about GroupCatalog: for any number of requests and failures an   *)
(* acknowledged change stands until a later or concurrent request gives    *)
(* the same field, a deleted group stays deleted, and a subscriber that    *)
(* reads again what it hears of is up to date.                             *)
(*                                                                         *)
(* CallStep says what all steps of a request have in common; each action   *)
(* is shown to be one, and a CallStep to keep the invariant.               *)
(***************************************************************************)
EXTENDS GroupCatalog, TLAPS

Texts == {"name", "description"}

(* Request c goes on to label l: it touches its own group only, and in it  *)
(* the fields it gives only; its room is told unless a fault ends it. *)
CallStep(c, l) ==
  /\ c \in Calls /\ l \in Labels \ {"start"} /\ pc[c] \notin Done
  /\ pc' = [pc EXCEPT ![c] = l] /\ UNCHANGED <<req, view>>
  /\ IF pc[c] = "start"
     THEN earlier' = [earlier EXCEPT ![c] = {d \in Calls : pc[d] \in Done}]
     ELSE UNCHANGED earlier
  /\ told \subseteq told' /\ silenced \subseteq silenced'
  /\ \A r \in rows' :
       /\ IsGroup(r)
       /\ \/ r.id = c /\ pc[c] = "start" /\ req[c].op = "create"
          \/ \E old \in rows : old.id = r.id /\ \A field \in Texts :
               \/ old[field] = r[field]
               \/ r.id = Target(c) /\ Gives(c, field) /\ r[field] = req[c][field]
  /\ \A r, s \in rows' : r.id = s.id => r = s
  /\ \A g : g # Target(c) => RowAt(g)' = RowAt(g)
  /\ l \in {"cr_tuples", "cr_rollback"} => req[c].op = "create"
  /\ l = "up_row" => req[c].op = "update"
  /\ l \in {"del_select", "del_commit"} => req[c].op = "delete"
  /\ l = "cr_rollback" => c \in silenced'
  /\ pc[c] = "start" /\ l # "failed" => Target(c) = c \/ RowAt(Target(c)) # {}
  /\ \/ Target(c) \in told' \cup silenced'
     \/ l \in {"cr_tuples", "notify"}
     \/ UNCHANGED rows /\ pc[c] \notin {"cr_tuples", "notify"}
  /\ l \in {"cr_tuples", "notify", "ok"} =>
       \/ UNCHANGED rows /\ pc[c] \in {"cr_tuples", "notify"}
       \/ /\ l # "ok"
          /\ \A field \in Texts : Gives(c, field) =>
               \A r \in RowAt(Target(c))' : r[field] = req[c][field]
          /\ req[c].op = "delete" => RowAt(Target(c))' = {}

LEMMA CatalogInvInit == CatalogInit => CatalogIInv
<1> SUFFICES ASSUME CatalogInit PROVE CatalogIInv
  OBVIOUS
<1>1. CatalogShape
  BY CatalogAssumption DEF CatalogInit, CatalogShape, Labels
<1>2. SubscribersCatchUp
  BY DEF CatalogInit, SubscribersCatchUp, RowAt
<1> QED
  BY <1>1, <1>2 DEF CatalogInit, CatalogIInv, Stands, Gone

LEMMA CallKeepsShape ==
  ASSUME CatalogIInv, NEW c, NEW l, CallStep(c, l)
  PROVE  CatalogShape'
<1>1. CatalogShape
  BY DEF CatalogIInv
<1>2. /\ pc'[c] = l /\ c \in Calls /\ l # "start" /\ pc[c] \notin Done
      /\ \A d \in Calls \ {c} : pc'[d] = pc[d]
  BY <1>1 DEF CatalogShape, CallStep
<1>3. pc' \in [Calls -> Labels] /\ earlier' \in [Calls -> SUBSET Calls]
  BY <1>1 DEF CatalogShape, CallStep
<1>4. \A r \in rows' : IsGroup(r) /\ (r.id \in Calls => pc'[r.id] # "start")
  BY <1>1, <1>2 DEF CatalogShape, CallStep
<1>5. \A d \in Calls : \A e \in earlier'[d] : pc'[e] \in Done
  <2> SUFFICES ASSUME NEW d \in Calls, NEW e \in earlier'[d] PROVE pc'[e] \in Done
    OBVIOUS
  <2>1. e \in Calls /\ pc[e] \in Done
    BY <1>1 DEF CatalogShape, CallStep
  <2> QED
    BY <1>2, <2>1
<1>6. ASSUME NEW d \in Calls
      PROVE  /\ pc'[d] \in {"cr_tuples", "cr_rollback"} => req[d].op = "create"
             /\ pc'[d] = "up_row" => req[d].op = "update"
             /\ pc'[d] \in {"del_select", "del_commit"} => req[d].op = "delete"
             /\ pc'[d] = "cr_rollback" => d \in silenced'
  BY <1>1, <1>2 DEF CatalogShape, CallStep
<1>7. ASSUME NEW d \in Calls, pc'[d] \notin {"start", "failed"}, Target(d) \in Calls
      PROVE  pc'[Target(d)] # "start"
  <2>1. CASE pc[d] \notin {"start", "failed"}
    BY <1>1, <1>2, <1>7, <2>1 DEF CatalogShape
  <2>2. CASE pc[d] \in {"start", "failed"}
    <3>1. d = c /\ pc[c] = "start"
      BY <1>2, <1>7, <2>2 DEF Done
    <3>2. Target(c) = c \/ pc[Target(c)] # "start"
      BY <1>1, <1>2, <1>7, <3>1 DEF CallStep, CatalogShape, RowAt
    <3> QED
      BY <1>2, <1>7, <3>1, <3>2
  <2> QED
    BY <2>1, <2>2
<1> QED
  BY <1>3, <1>4, <1>5, <1>6, <1>7 DEF CatalogShape, CallStep, Target

LEMMA CallKeepsSubscribers ==
  ASSUME CatalogIInv, NEW c, NEW l, CallStep(c, l)
  PROVE  SubscribersCatchUp'
<1> SUFFICES ASSUME NEW g \in Ids \ (told' \cup silenced'),
                    \A d \in Calls : Target(d) = g => pc'[d] \notin {"cr_tuples", "notify"}
             PROVE  {r \in view' : r.id = g} = RowAt(g)'
  BY DEF SubscribersCatchUp, CallStep, Target
<1>1. /\ pc'[c] = l /\ c \in Calls
      /\ \A d \in Calls \ {c} : pc'[d] = pc[d]
      /\ view' = view /\ g \notin told \cup silenced
  BY DEF CatalogIInv, CatalogShape, CallStep
<1>2. RowAt(g)' = RowAt(g) /\ \A d \in Calls : Target(d) = g => pc[d] \notin {"cr_tuples", "notify"}
  <2>1. CASE g = Target(c)
    BY <1>1, <2>1 DEF CallStep, RowAt
  <2>2. CASE g # Target(c)
    BY <1>1, <2>2 DEF CallStep
  <2> QED
    BY <2>1, <2>2
<1> QED
  BY <1>1, <1>2 DEF CatalogIInv, SubscribersCatchUp

LEMMA CallKeepsStands ==
  ASSUME CatalogIInv, NEW c, NEW l, CallStep(c, l), NEW d \in Calls
  PROVE  Stands(d)'
<1> SUFFICES ASSUME pc'[d] \in {"cr_tuples", "notify", "ok"},
                    NEW field \in Texts, Gives(d, field), NEW r \in RowAt(Target(d))'
             PROVE  \/ r[field] = req[d][field]
                    \/ \E e \in Calls : Opposes(e, d, field)' /\ r[field] = req[e][field]
  BY DEF Stands, CallStep, Target, Gives, Texts
<1>1. /\ pc'[c] = l /\ c \in Calls /\ l # "start" /\ pc[c] \notin Done /\ CatalogShape
      /\ \A e \in Calls \ {c} : pc'[e] = pc[e]
      /\ r \in rows' /\ r.id = Target(d)
  BY DEF CatalogIInv, CatalogShape, CallStep, RowAt, Target
<1>2. \A e \in Calls : Opposes(e, d, field) /\ (d = c => pc[c] # "start")
        => Opposes(e, d, field)'
  BY <1>1 DEF CallStep, CatalogShape, Opposes, Target, Gives
<1>3. ASSUME NEW old \in rows, old.id = r.id, old[field] = r[field],
             pc[d] \in {"cr_tuples", "notify", "ok"}
      PROVE  \/ r[field] = req[d][field]
             \/ \E e \in Calls : Opposes(e, d, field)' /\ r[field] = req[e][field]
  <2>1. \/ old[field] = req[d][field]
        \/ \E e \in Calls : Opposes(e, d, field) /\ old[field] = req[e][field]
    BY <1>1, <1>3 DEF CatalogIInv, Stands, RowAt, Texts
  <2> QED
    BY <1>2, <1>3, <2>1
<1>4. CASE d # c
  <2>1. pc[d] \in {"cr_tuples", "notify", "ok"} /\ earlier'[d] = earlier[d]
    BY <1>1, <1>4 DEF CallStep, CatalogShape
  <2>2. ~(r.id = c /\ pc[c] = "start")
    BY <1>1, <2>1 DEF CatalogShape
  <2>3. CASE Target(c) = Target(d) /\ Gives(c, field) /\ r[field] = req[c][field]
    <3>1. c \notin earlier[d]
      BY <1>1 DEF CatalogShape
    <3>2. Opposes(c, d, field)'
      BY <1>1, <1>4, <2>1, <2>3, <3>1 DEF Opposes, CallStep, Target, Gives
    <3> QED
      BY <1>1, <2>3, <3>2
  <2> QED
    BY <1>1, <1>3, <2>1, <2>2, <2>3 DEF CallStep
<1>5. CASE d = c
  <2>1. CASE UNCHANGED rows /\ pc[c] \in {"cr_tuples", "notify"}
    BY <1>1, <1>3, <1>5, <2>1
  <2>2. CASE ~(UNCHANGED rows /\ pc[c] \in {"cr_tuples", "notify"})
    BY <1>1, <1>5, <2>2 DEF CallStep
  <2> QED
    BY <2>1, <2>2
<1> QED
  BY <1>4, <1>5

LEMMA CallKeepsGone ==
  ASSUME CatalogIInv, NEW c, NEW l, CallStep(c, l), NEW d \in Calls
  PROVE  Gone(d)'
<1> SUFFICES ASSUME pc'[d] \in {"notify", "ok"}, req[d].op = "delete"
             PROVE  RowAt(Target(d))' = {}
  BY DEF Gone, CallStep, Target
<1>1. /\ pc'[c] = l /\ c \in Calls /\ CatalogShape
      /\ \A e \in Calls \ {c} : pc'[e] = pc[e]
  BY DEF CatalogIInv, CatalogShape, CallStep
<1>2. ASSUME pc[d] \in {"notify", "ok"} PROVE RowAt(Target(d))' = {}
  <2>1. RowAt(Target(d)) = {} /\ (Target(d) \in Calls => pc[Target(d)] # "start")
    BY <1>1, <1>2 DEF CatalogIInv, Gone, CatalogShape
  <2> QED
    BY <1>1, <2>1 DEF CallStep, RowAt, Target
<1>3. CASE d = c /\ pc[c] \notin {"notify", "ok"}
  BY <1>1, <1>3 DEF CallStep, CatalogShape
<1> QED
  BY <1>1, <1>2, <1>3

LEMMA CallKeeps ==
  ASSUME CatalogIInv, NEW c, NEW l, CallStep(c, l)
  PROVE  CatalogIInv'
BY CallKeepsShape, CallKeepsSubscribers, CallKeepsStands, CallKeepsGone DEF CatalogIInv

-----------------------------------------------------------------------------
(* What a table that changes at most one group may look like.              *)
RowsOK(c) ==
  /\ \A r \in rows' :
       /\ IsGroup(r)
       /\ \/ r.id = c /\ pc[c] = "start" /\ req[c].op = "create"
          \/ \E old \in rows : old.id = r.id /\ \A field \in Texts :
               \/ old[field] = r[field]
               \/ r.id = Target(c) /\ Gives(c, field) /\ r[field] = req[c][field]
  /\ \A r, s \in rows' : r.id = s.id => r = s
  /\ \A g : g # Target(c) => RowAt(g)' = RowAt(g)

LEMMA FewerRows ==
  ASSUME CatalogIInv, NEW c, rows' \in {rows, rows \ RowAt(Target(c))}
  PROVE  RowsOK(c)
BY DEF CatalogIInv, CatalogShape, RowsOK, RowAt, Texts

LEMMA NewGroupFields ==
  ASSUME NEW c
  PROVE  /\ IsGroup(NewGroup(c)) /\ NewGroup(c).id = c
         /\ \A field \in Texts : NewGroup(c)[field] = req[c][field]
BY DEF NewGroup, IsGroup, Texts

LEMMA UpdatedFields ==
  ASSUME NEW c, NEW r, IsGroup(r), req[c].op = "update"
  PROVE  /\ IsGroup(Updated(c, r)) /\ Updated(c, r).id = r.id
         /\ \A field \in Texts :
              Updated(c, r)[field] = IF Gives(c, field) THEN req[c][field] ELSE r[field]
<1>1. DOMAIN r = {"id", "organization", "name", "description", "source", "external"}
  BY DEF IsGroup
<1>2. /\ Updated(c, r) = [field \in DOMAIN r |-> Updated(c, r)[field]]
      /\ \A field \in DOMAIN r \ Texts : Updated(c, r)[field] = r[field]
      /\ \A field \in Texts :
           Updated(c, r)[field] = IF Gives(c, field) THEN req[c][field] ELSE r[field]
  BY <1>1 DEF Updated, Gives, Texts
<1>3. IsGroup(Updated(c, r))
  BY <1>1, <1>2 DEF IsGroup
<1> QED
  BY <1>1, <1>2, <1>3 DEF Texts

LEMMA CreateRowIsStep ==
  ASSUME CatalogIInv, NEW c \in Calls, CreateRow(c)
  PROVE  \E l : CallStep(c, l)
<1>1. /\ pc[c] = "start" /\ req[c].op = "create" /\ Target(c) = c
      /\ UNCHANGED <<req, view, told>> /\ silenced \subseteq silenced'
      /\ earlier' = [earlier EXCEPT ![c] = {d \in Calls : pc[d] \in Done}]
  BY DEF CreateRow, Begin, Target, Write, Takes, Silence, NoFault, Fault
<1>2. RowAt(c) = {}
  BY <1>1 DEF CatalogIInv, CatalogShape, RowAt
<1>3. CASE Goto(c, "cr_tuples") /\ rows' = (rows \ RowAt(c)) \cup {NewGroup(c)}
  <2>1. RowAt(Target(c))' = {NewGroup(c)}
    BY <1>1, <1>2, <1>3, NewGroupFields DEF RowAt, Target
  <2>2. RowsOK(c)
    <3>1. \A r \in rows' : r \in rows \/ r = NewGroup(c)
      BY <1>3
    <3>2. \A r \in rows : r.id # c
      BY <1>2 DEF RowAt
    <3>3. \A r, s \in rows' : r.id = s.id => r = s
      BY <3>1, <3>2, NewGroupFields DEF CatalogIInv, CatalogShape
    <3>4. \A g : g # Target(c) => RowAt(g)' = RowAt(g)
      BY <1>1, <1>2, <1>3, NewGroupFields DEF RowAt
    <3> QED
      BY <1>1, <3>1, <3>3, <3>4, NewGroupFields DEF RowsOK, CatalogIInv, CatalogShape
  <2>3. CallStep(c, "cr_tuples")
    BY <1>1, <1>3, <2>1, <2>2, NewGroupFields DEF CallStep, RowsOK, Goto, Labels, Done
  <2> QED
    BY <2>3
<1>4. CASE \E l \in {"exists", "failed"} :
             /\ Goto(c, l) /\ UNCHANGED rows
  <2>1. RowsOK(c)
    BY <1>4, FewerRows
  <2>2. PICK l \in {"exists", "failed"} : Goto(c, l) /\ UNCHANGED rows
    BY <1>4
  <2>3. CallStep(c, l)
    BY <1>1, <1>2, <2>1, <2>2 DEF CallStep, RowsOK, Goto, Labels, Done
  <2> QED
    BY <2>3
<1>5. CASE /\ Goto(c, "failed") /\ silenced' = silenced \cup {c}
           /\ rows' = (rows \ RowAt(c)) \cup {NewGroup(c)}
  <2>1. \A r \in rows' : r \in rows \/ r = NewGroup(c)
    BY <1>5
  <2>2. \A r \in rows : r.id # c
    BY <1>2 DEF RowAt
  <2>3. \A r, s \in rows' : r.id = s.id => r = s
    BY <2>1, <2>2, NewGroupFields DEF CatalogIInv, CatalogShape
  <2>4. \A g : g # Target(c) => RowAt(g)' = RowAt(g)
    BY <1>1, <1>2, <1>5, NewGroupFields DEF RowAt
  <2>5. RowsOK(c)
    BY <1>1, <2>1, <2>3, <2>4, NewGroupFields DEF RowsOK, CatalogIInv, CatalogShape
  <2>6. CallStep(c, "failed")
    BY <1>1, <1>5, <2>5 DEF CallStep, RowsOK, Goto, Labels, Done
  <2> QED
    BY <2>6
<1>6. NewGroup(c).id = c
  BY NewGroupFields
<1> QED
  BY <1>1, <1>3, <1>4, <1>5, <1>6 DEF CreateRow, Write, Takes, Silence

LEMMA UpdateRowIsStep ==
  ASSUME CatalogIInv, NEW c \in Calls, UpdateRow(c)
  PROVE  \E l : CallStep(c, l)
<1>1. /\ pc[c] = "up_row" /\ req[c].op = "update"
      /\ UNCHANGED <<req, view, told, earlier>> /\ silenced \subseteq silenced'
  BY DEF UpdateRow, CatalogIInv, CatalogShape, Write, Takes, Silence, NoFault, Fault
<1>2. ASSUME NEW r \in RowAt(Target(c)),
             rows' = (rows \ RowAt(Target(c))) \cup {Updated(c, r)}
      PROVE  RowsOK(c) /\ RowAt(Target(c))' = {Updated(c, r)}
  <2>1. IsGroup(r) /\ r \in rows /\ r.id = Target(c)
    BY DEF RowAt, CatalogIInv, CatalogShape
  <2>2. \A s \in rows' : (s \in rows /\ s.id # Target(c)) \/ s = Updated(c, r)
    BY <1>2 DEF RowAt
  <2>3. \A s \in rows' : IsGroup(s)
    BY <1>1, <2>1, <2>2, UpdatedFields DEF CatalogIInv, CatalogShape
  <2>4. \A s \in rows' : \E old \in rows : old.id = s.id /\ \A field \in Texts :
             \/ old[field] = s[field]
             \/ s.id = Target(c) /\ Gives(c, field) /\ s[field] = req[c][field]
    BY <1>1, <2>1, <2>2, UpdatedFields
  <2>5. \A s, u \in rows' : s.id = u.id => s = u
    BY <1>1, <2>1, <2>2, UpdatedFields DEF CatalogIInv, CatalogShape
  <2>6. \A g : g # Target(c) => RowAt(g)' = RowAt(g)
    BY <1>1, <1>2, <2>1, UpdatedFields DEF RowAt
  <2>7. RowAt(Target(c))' = {Updated(c, r)}
    BY <1>1, <1>2, <2>1, UpdatedFields DEF RowAt, Target
  <2> QED
    BY <2>3, <2>4, <2>5, <2>6, <2>7 DEF RowsOK
<1>3. ASSUME NEW r \in RowAt(Target(c)), Write(c, Updated(c, r), "notify")
      PROVE  \E l : CallStep(c, l)
  <2>1. IsGroup(r) /\ Updated(c, r).id = Target(c)
    BY <1>1, UpdatedFields DEF RowAt, CatalogIInv, CatalogShape
  <2>2. CASE /\ Goto(c, "notify")
             /\ rows' = (rows \ RowAt(Target(c))) \cup {Updated(c, r)}
    <3>1. RowsOK(c) /\ RowAt(Target(c))' = {Updated(c, r)}
      BY <1>2, <2>2
    <3>2. CallStep(c, "notify")
      BY <1>1, <2>1, <2>2, <3>1, UpdatedFields DEF CallStep, RowsOK, Goto, Labels, Done
    <3> QED
      BY <3>2
  <2>3. CASE /\ Goto(c, "failed") /\ silenced' = silenced \cup {Target(c)}
             /\ rows' \in {rows, (rows \ RowAt(Target(c))) \cup {Updated(c, r)}}
    <3>1. RowsOK(c)
      BY <1>2, <2>3, FewerRows
    <3>2. CallStep(c, "failed")
      BY <1>1, <2>3, <3>1 DEF CallStep, RowsOK, Goto, Labels, Done
    <3> QED
      BY <3>2
  <2>4. CASE Goto(c, "exists") /\ UNCHANGED rows
    <3>1. RowsOK(c)
      BY <2>4, FewerRows
    <3>2. CallStep(c, "exists")
      BY <1>1, <2>4, <3>1 DEF CallStep, RowsOK, Goto, Labels, Done
    <3> QED
      BY <3>2
  <2> QED
    BY <1>3, <2>1, <2>2, <2>3, <2>4 DEF Write, Takes, Silence
<1>4. CASE Goto(c, "failed") /\ UNCHANGED rows
  <2>1. RowsOK(c)
    BY <1>4, FewerRows
  <2>2. CallStep(c, "failed")
    BY <1>1, <1>4, <2>1 DEF CallStep, RowsOK, Goto, Labels, Done
  <2> QED
    BY <2>2
<1> QED
  BY <1>3, <1>4 DEF UpdateRow

(* The first reads, and the steps on the tuples, change no group.          *)
LEMMA ReadIsStep ==
  ASSUME CatalogIInv, NEW c \in Calls,
         CreateTuples(c) \/ UpdateGetGroup(c) \/ DeleteGetGroup(c) \/ DeleteSelect(c)
  PROVE  \E l : CallStep(c, l)
<1>1. UNCHANGED <<rows, req, view, told>> /\ RowsOK(c)
  BY FewerRows DEF CreateTuples, UpdateGetGroup, DeleteGetGroup, GetGroup, DeleteSelect
<1>2. CASE CreateTuples(c)
  BY <1>1, <1>2 DEF CatalogIInv, CatalogShape, CreateTuples, Goto, Silence, NoFault, Fault,
                    CallStep, RowsOK, Labels, Done, Target
<1>3. CASE UpdateGetGroup(c) \/ DeleteGetGroup(c)
  <2>1. PICK l \in {"up_row", "del_select", "failed"} :
          /\ Goto(c, l) /\ pc[c] = "start"
          /\ l = "up_row" => req[c].op = "update"
          /\ l = "del_select" => req[c].op = "delete"
          /\ l # "failed" => RowAt(Target(c)) # {}
    BY <1>3 DEF UpdateGetGroup, DeleteGetGroup, Begin, GetGroup
  <2>2. /\ earlier' = [earlier EXCEPT ![c] = {d \in Calls : pc[d] \in Done}]
        /\ UNCHANGED silenced
    BY <1>3 DEF UpdateGetGroup, DeleteGetGroup, Begin, GetGroup
  <2> QED
    BY <1>1, <2>1, <2>2 DEF Goto, CallStep, RowsOK, Labels, Done
<1>4. CASE DeleteSelect(c)
  BY <1>1, <1>4 DEF CatalogIInv, CatalogShape, DeleteSelect, Goto,
                    CallStep, RowsOK, Labels, Done
<1> QED
  BY <1>2, <1>3, <1>4

LEMMA DeleteIsStep ==
  ASSUME CatalogIInv, NEW c \in Calls, CreateRollback(c) \/ DeleteCommit(c)
  PROVE  \E l : CallStep(c, l)
<1>1. rows' \in {rows, rows \ RowAt(Target(c))} /\ RowsOK(c)
  BY FewerRows DEF CatalogIInv, CatalogShape, CreateRollback, DeleteCommit, Takes, Target
<1>2. CASE CreateRollback(c)
  BY <1>1, <1>2 DEF CatalogIInv, CatalogShape, CreateRollback, Takes, Goto, Silence, NoFault,
                    Fault, CallStep, RowsOK, Labels, Done, Target
<1>3. CASE DeleteCommit(c)
  <2>1. /\ pc[c] = "del_commit" /\ req[c].op = "delete"
        /\ UNCHANGED <<req, view, told, earlier>> /\ silenced \subseteq silenced'
    BY <1>3 DEF CatalogIInv, CatalogShape, DeleteCommit, Takes, Silence, NoFault, Fault
  <2>2. CASE Goto(c, "notify") /\ rows' = rows \ RowAt(Target(c))
    <3>1. RowAt(Target(c))' = {}
      BY <2>1, <2>2 DEF RowAt, Target
    <3>2. CallStep(c, "notify")
      BY <1>1, <2>1, <2>2, <3>1 DEF CallStep, RowsOK, Goto, Labels, Done, Gives
    <3> QED
      BY <3>2
  <2>3. CASE Goto(c, "failed") /\ silenced' = silenced \cup {Target(c)}
    <3>1. CallStep(c, "failed")
      BY <1>1, <2>1, <2>3 DEF CallStep, RowsOK, Goto, Labels, Done
    <3> QED
      BY <3>1
  <2> QED
    BY <1>3, <2>2, <2>3 DEF DeleteCommit, Takes, Silence
<1> QED
  BY <1>2, <1>3

LEMMA NotifyIsStep ==
  ASSUME CatalogIInv, NEW c \in Calls, Notify(c)
  PROVE  \E l : CallStep(c, l)
<1>1. RowsOK(c)
  BY FewerRows DEF Notify
<1>2. CallStep(c, "ok")
  BY <1>1 DEF Notify, Goto, Silence, NoFault, Fault, CallStep, RowsOK, Labels, Done
<1> QED
  BY <1>2

-----------------------------------------------------------------------------
LEMMA ReadAgainKeeps ==
  ASSUME CatalogIInv, NEW g, ReadAgain(g)
  PROVE  CatalogIInv'
<1>1. CatalogShape' /\ \A c \in Calls : Stands(c)' /\ Gone(c)'
  BY DEF CatalogIInv, CatalogShape, ReadAgain, Stands, Gone, Gives, Opposes, Target, RowAt
<1>2. SubscribersCatchUp'
  <2> SUFFICES ASSUME NEW h \in Ids \ (told' \cup silenced),
                      \A c \in Calls : Target(c) = h => pc[c] \notin {"cr_tuples", "notify"}
               PROVE  {r \in view' : r.id = h} = RowAt(h)
    BY DEF ReadAgain, SubscribersCatchUp, Target, RowAt
  <2>1. CASE h = g
    BY <2>1 DEF ReadAgain, RowAt
  <2>2. CASE h # g
    <3>1. {r \in view : r.id = h} = RowAt(h)
      BY <2>2 DEF ReadAgain, CatalogIInv, SubscribersCatchUp
    <3> QED
      BY <2>2, <3>1 DEF ReadAgain, RowAt
  <2> QED
    BY <2>1, <2>2
<1> QED
  BY <1>1, <1>2 DEF CatalogIInv

LEMMA CrashKeeps ==
  ASSUME CatalogIInv, Crash
  PROVE  CatalogIInv'
<1>1. /\ UNCHANGED <<rows, req, told, view, earlier>> /\ CatalogShape
      /\ pc' = [c \in Calls |-> IF Busy(c) THEN "failed" ELSE pc[c]]
      /\ silenced \subseteq silenced'
      /\ \A c \in Calls : Busy(c) => Target(c) \in silenced'
  BY DEF CatalogIInv, Crash, Silence
<1>2. CatalogShape'
  BY <1>1 DEF CatalogShape, Busy, Labels, Done, Target
<1>3. \A c \in Calls : Stands(c)' /\ Gone(c)'
  BY <1>1 DEF CatalogIInv, Stands, Gone, Gives, Opposes, Target, RowAt, Busy, Done
<1>4. SubscribersCatchUp'
  BY <1>1 DEF CatalogIInv, SubscribersCatchUp, Target, RowAt, Busy, Done
<1> QED
  BY <1>2, <1>3, <1>4 DEF CatalogIInv

LEMMA CatalogInvStep == CatalogIInv /\ [CatalogNext]_catalogVars => CatalogIInv'
<1> SUFFICES ASSUME CatalogIInv, [CatalogNext]_catalogVars PROVE CatalogIInv'
  OBVIOUS
<1>1. ASSUME NEW c \in Calls, CatalogCall(c) PROVE CatalogIInv'
  <2>1. \E l : CallStep(c, l)
    BY <1>1, CreateRowIsStep, UpdateRowIsStep, ReadIsStep, DeleteIsStep, NotifyIsStep
       DEF CatalogCall
  <2> QED
    BY <2>1, CallKeeps
<1>2. CASE UNCHANGED catalogVars
  BY <1>2 DEF catalogVars, CatalogIInv, CatalogShape, SubscribersCatchUp, Stands, Gone,
              Gives, Opposes, Target, RowAt
<1> QED
  BY <1>1, <1>2, ReadAgainKeeps, CrashKeeps DEF CatalogNext

(* The invariant on labels, ids and what each statement makes true.        *)
THEOREM CatalogInvariance == CatalogSpec => []CatalogIInv
<1> QED
  BY CatalogInvInit, CatalogInvStep, PTL DEF CatalogSpec

(* No update of one field brings back another as it was (store.UpdateGroup *)
(* and its updateBuilder). *)
THEOREM ChangesStand == CatalogSpec => []AcknowledgedChangesStand
<1>1. CatalogIInv => AcknowledgedChangesStand
  BY DEF CatalogIInv, Stands, AcknowledgedChangesStand
<1> QED
  BY <1>1, CatalogInvariance, PTL

(* An acknowledged deletion is for good, whatever updates it races.        *)
THEOREM DeletionIsFinal == CatalogSpec => []DeletedStaysDeleted
<1>1. CatalogIInv => DeletedStaysDeleted
  BY DEF CatalogIInv, Gone, DeletedStaysDeleted
<1> QED
  BY <1>1, CatalogInvariance, PTL

(* Notifications come late enough (notifyGroupUpdated, after the commit).  *)
THEOREM SubscribersAreRight == CatalogSpec => []SubscribersCatchUp
<1>1. CatalogIInv => SubscribersCatchUp
  BY DEF CatalogIInv
<1> QED
  BY <1>1, CatalogInvariance, PTL

-----------------------------------------------------------------------------
(***************************************************************************)
(* The table holds only what the handlers let in.                          *)
(***************************************************************************)
LEMMA TypeStep ==
  ASSUME CatalogTypeOK, CatalogShape, CatalogShape', UNCHANGED req,
         NEW c \in Calls, NEW l, Goto(c, l),
         l \notin {"start", "failed"} => Target(c) \in Ids,
         l = "up_row" => req[c].name \in ValidNames \cup {Absent},
         \A r \in rows' : r \in rows \/ (Proper(r) /\ r.id \in Ids),
         told' \cup silenced' \subseteq told \cup silenced \cup Ids,
         faults' = faults \/ Fault
  PROVE  CatalogTypeOK'
<1>1. pc'[c] = l /\ \A d \in Calls \ {c} : pc'[d] = pc[d]
  BY DEF CatalogShape, Goto
<1>2. \A d \in Calls : Target(d)' = Target(d)
  BY DEF Target
<1>3. faults' \in 0..MaxFaults
  BY CatalogAssumption DEF CatalogTypeOK, Fault
<1>4. \A r \in rows' : Proper(r) /\ r.id \in Ids
  BY DEF CatalogTypeOK
<1> QED
  BY <1>1, <1>2, <1>3, <1>4 DEF CatalogTypeOK, CatalogShape

LEMMA CreateRowTypes ==
  ASSUME CatalogTypeOK, CatalogShape, CatalogShape', NEW c \in Calls, CreateRow(c)
  PROVE  CatalogTypeOK'
<1>1. /\ UNCHANGED <<req, told>> /\ Target(c) \in Ids /\ Target(c) = c
      /\ told' \cup silenced' \subseteq told \cup silenced \cup Ids
      /\ faults' = faults \/ Fault
  BY DEF CreateRow, Begin, Target, Write, Takes, Silence, NoFault, Ids, NewGroup
<1>2. PICK l \in {"cr_tuples", "failed", "exists"} : Goto(c, l)
  BY DEF CreateRow, Write, Takes
<1>3. \A r \in rows' : r \in rows \/ (r = NewGroup(c) /\ ValidCreate(req[c]))
  BY DEF CreateRow, Write, Takes
<1>4. ValidCreate(req[c]) => Proper(NewGroup(c)) /\ NewGroup(c).id \in Ids
  BY DEF ValidCreate, Proper, NewGroup, Ids
<1> QED
  BY <1>1, <1>2, <1>3, <1>4, TypeStep

LEMMA UpdateRowTypes ==
  ASSUME CatalogTypeOK, CatalogShape, CatalogShape', NEW c \in Calls, UpdateRow(c)
  PROVE  CatalogTypeOK'
<1>1. /\ UNCHANGED <<req, told>> /\ Target(c) \in Ids /\ req[c].op = "update"
      /\ req[c].name \in ValidNames \cup {Absent}
  BY DEF UpdateRow, CatalogTypeOK, CatalogShape
<1>2. PICK l \in {"notify", "failed", "exists"} : Goto(c, l)
  BY DEF UpdateRow, Write, Takes
<1>3. \A r \in RowAt(Target(c)) : /\ Proper(Updated(c, r)) /\ Updated(c, r).id = Target(c)
                                  /\ r.id = Target(c)
  <2> SUFFICES ASSUME NEW r \in RowAt(Target(c))
               PROVE  Proper(Updated(c, r)) /\ Updated(c, r).id = r.id
    BY DEF RowAt
  <2>1. /\ r \in rows /\ Proper(r)
        /\ DOMAIN r = {"id", "organization", "name", "description", "source", "external"}
    BY DEF RowAt, CatalogTypeOK, CatalogShape, IsGroup
  <2>2. /\ Updated(c, r).id = r.id /\ Updated(c, r).source = r.source
        /\ Updated(c, r).external = r.external
        /\ \/ Updated(c, r).name = r.name
           \/ Updated(c, r).name = req[c].name /\ req[c].name # Absent
    BY <2>1 DEF Updated
  <2> QED
    BY <1>1, <2>1, <2>2 DEF Proper
<1>4. /\ \A r \in rows' : r \in rows \/ (Proper(r) /\ r.id \in Ids)
      /\ told' \cup silenced' \subseteq told \cup silenced \cup Ids
      /\ faults' = faults \/ Fault
  BY <1>1, <1>3 DEF UpdateRow, Write, Takes, Silence, NoFault
<1> QED
  BY <1>1, <1>2, <1>4, TypeStep

(* The other steps of a request add no row. *)
LEMMA CallTypes ==
  ASSUME CatalogTypeOK, CatalogShape, CatalogShape', NEW c \in Calls, CatalogCall(c)
  PROVE  CatalogTypeOK'
<1>1. CASE CreateRow(c)
  BY <1>1, CreateRowTypes
<1>2. CASE UpdateRow(c)
  BY <1>2, UpdateRowTypes
<1>3. CASE ~CreateRow(c) /\ ~UpdateRow(c)
  <2>1. /\ UNCHANGED req /\ rows' \subseteq rows
        /\ \E l : Goto(c, l) /\ (l = "up_row" => req[c].name \in ValidNames \cup {Absent})
    BY <1>3 DEF CatalogCall, CreateTuples, CreateRollback, UpdateGetGroup, DeleteGetGroup,
                GetGroup, DeleteSelect, DeleteCommit, Notify, Takes, RowAt
  <2>2. pc'[c] \notin {"start", "failed"} => Target(c) \in Ids
    <3>1. CASE UpdateGetGroup(c) \/ DeleteGetGroup(c)
      <4>1. RowAt(Target(c)) # {} => Target(c) \in Ids
        BY DEF RowAt, CatalogTypeOK
      <4>2. RowAt(Target(c)) = {} => pc'[c] = "failed"
        BY <3>1 DEF UpdateGetGroup, DeleteGetGroup, GetGroup, Goto, CatalogShape
      <4> QED
        BY <4>1, <4>2
    <3>2. CASE pc[c] \notin {"start", "failed"}
      BY <3>2 DEF CatalogTypeOK
    <3> QED
      BY <1>3, <3>1, <3>2
         DEF CatalogCall, CreateTuples, CreateRollback, DeleteSelect, DeleteCommit, Notify
  <2>3. pc[c] \notin {"start", "failed"} => Target(c) \in Ids
    BY DEF CatalogTypeOK
  <2>4. /\ told' \cup silenced' \subseteq told \cup silenced \cup Ids
        /\ faults' = faults \/ Fault
    BY <1>3, <2>3
       DEF CatalogCall, CreateTuples, CreateRollback, UpdateGetGroup, DeleteGetGroup, GetGroup,
           DeleteSelect, DeleteCommit, Notify, Takes, Silence, NoFault, Ids
  <2>5. \A l : Goto(c, l) => pc'[c] = l
    BY DEF Goto, CatalogShape
  <2> QED
    BY <2>1, <2>2, <2>4, <2>5, TypeStep
<1> QED
  BY <1>1, <1>2, <1>3

LEMMA TypesKeep ==
  ASSUME CatalogTypeOK, CatalogIInv, CatalogIInv', [CatalogNext]_catalogVars
  PROVE  CatalogTypeOK'
<1>0. CatalogShape /\ CatalogShape'
  BY DEF CatalogIInv
<1>1. CASE \E c \in Calls : CatalogCall(c)
  BY <1>0, <1>1, CallTypes
<1>2. CASE \E g \in Ids : ReadAgain(g)
  BY <1>2 DEF ReadAgain, CatalogTypeOK, Target
<1>3. CASE Crash
  <2>1. \A c \in Calls : Busy(c) => Target(c) \in Ids
    BY DEF CatalogTypeOK, Busy, Done
  <2>2. silenced' \subseteq Ids /\ faults' \in 0..MaxFaults
    BY <1>3, <2>1, CatalogAssumption DEF Crash, Silence, Fault, CatalogTypeOK
  <2> QED
    BY <1>3, <2>2 DEF Crash, CatalogTypeOK, Target, Busy, Done
<1>4. CASE UNCHANGED catalogVars
  BY <1>4 DEF catalogVars, CatalogTypeOK, Target
<1> QED
  BY <1>1, <1>2, <1>3, <1>4 DEF CatalogNext

(* Whatever UpdateGroup and CreateGroup write, the names are valid and the *)
(* external ids belong to synchronised groups; a notification is about a   *)
(* group that there was or is. *)
THEOREM CatalogTypeCorrect == CatalogSpec => []CatalogTypeOK
<1>1. CatalogInit => CatalogTypeOK
  BY CatalogAssumption DEF CatalogInit, CatalogTypeOK, Ids
<1> QED
  BY <1>1, CatalogInvariance, TypesKeep, PTL DEF CatalogSpec
===============================================================================
