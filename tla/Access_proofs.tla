---------------------------- MODULE Access_proofs ----------------------------
(***************************************************************************)
(* Proofs about Access: for any identities, organizations, groups, batch   *)
(* length and number of changes, what is served was permitted and what is  *)
(* denied was not.                                                         *)
(***************************************************************************)
EXTENDS Access, TLAPS

(* What the later lemmas know of a request. *)
LEMMA RequestFacts ==
  ASSUME req \in Request
  PROVE  /\ req.op \in LookupOps =>
              req.entries \in Seq(Entry) /\ DOMAIN req.entries = 1..Len(req.entries)
         /\ req.op = "lookup" => DOMAIN req.entries = {1}
<1>0. ASSUME NEW n \in Nat, NEW f \in [1..n -> Entry]
      PROVE  f \in Seq(Entry) /\ DOMAIN f = 1..Len(f)
  OBVIOUS
<1>1. CASE req \in [op : {"lookup"}, meta : Metadata, entries : [1..1 -> Entry]]
  <2>1. req.entries \in [1..1 -> Entry]
    BY <1>1
  <2>2. DOMAIN req.entries = {1}
    BY <2>1
  <2> QED
    BY <1>0, <2>1, <2>2
<1>2. CASE req \in [op : {"batch"}, meta : Metadata,
                    entries : UNION {[1..n -> Entry] : n \in 0..MaxEntries}]
  <2>1. PICK n \in 0..MaxEntries : req.entries \in [1..n -> Entry]
    BY <1>2
  <2>2. n \in Nat
    BY AccessAssumption
  <2> QED
    BY <1>2, <2>1, <2>2
<1> QED
  BY <1>1, <1>2 DEF Request, LookupOps

LEMMA EntryFacts ==
  ASSUME req \in Request, req.op \in LookupOps, at \in DOMAIN req.entries
  PROVE  req.entries[at] \in Entry
BY RequestFacts

(* A look-up of oneself needs a caller that is one of the people. *)
LEMMA OwnEntry ==
  ASSUME req \in Request, req.op \in LookupOps, at \in DOMAIN req.entries,
         req.entries[at].member = Sender
  PROVE  HasCaller
BY EntryFacts DEF Entry, HasCaller

(* An answer that has as many entries as were asked for is whole. *)
LEMMA WholeAnswer ==
  ASSUME AccessTypeOK, AnswerIsPrefix, req.op \in LookupOps, at = Len(req.entries) + 1
  PROVE  answer = req.entries
<1>1. answer \in Seq(Entry) /\ req.entries \in Seq(Entry)
  BY RequestFacts DEF AccessTypeOK
<1>2. Len(answer) = Len(req.entries)
  BY <1>1 DEF AnswerIsPrefix
<1>3. \A i \in 1..Len(answer) : answer[i] = req.entries[i]
  BY DEF AnswerIsPrefix
<1> QED
  BY <1>1, <1>2, <1>3

-----------------------------------------------------------------------------
LEMMA AccessInvInit == AccessInit => AccessIInv
<1> SUFFICES ASSUME AccessInit PROVE AccessIInv
  OBVIOUS
<1>1. AccessTypeOK
  BY DEF AccessInit, AccessTypeOK
<1>2. req.op \in LookupOps => Len(req.entries) \in Nat
  BY <1>1, RequestFacts DEF AccessTypeOK
<1>3. AnswerIsPrefix
  BY <1>2 DEF AccessInit, AnswerIsPrefix
<1> QED
  BY <1>1, <1>3
     DEF AccessInit, AccessIInv, LoopIsSound, GateIsSound, ServeIsSound,
         ServedWasPermitted, DenialsAreJustified, BatchIsWhole, Range

(* The steps that leave the relations and the answer alone: it is enough   *)
(* that the label they go to is sound. *)
LEMMA StepKeeps ==
  ASSUME AccessIInv, UNCHANGED <<facts, kind, changes, req, held, kept, at, answer>>,
         pc' \in Ended \cup {"start", "entry", "platform", "check", "identity", "belongs",
                             "serve"},
         LoopIsSound', GateIsSound', ServeIsSound', ServedWasPermitted',
         DenialsAreJustified', pc' # "ok" \/ BatchIsWhole'
  PROVE  AccessIInv'
BY DEF AccessIInv, AccessTypeOK, AnswerIsPrefix, BatchIsWhole, MayLookUp, MayRead, Sender

LEMMA StartKeeps ==
  ASSUME AccessIInv, Start \/ BatchEntry
  PROVE  AccessIInv'
<1>0. /\ UNCHANGED <<facts, kind, changes, req, held, kept, at, answer>>
      /\ req \in Request /\ at \in Nat \ {0}
      /\ pc = "start" => at = 1
      /\ pc = "entry" => req.op = "batch" /\ HasCaller
      /\ \A e \in Range(answer) : MayLookUp(e, held)
  BY DEF Start, BatchEntry, Stays, AccessIInv, AccessTypeOK, LoopIsSound
<1>1. CASE pc' \in {"failed", "entry"}
  BY <1>0, <1>1, StepKeeps
     DEF Start, BatchEntry, Goto, NextEntry, Gate, Ended, LoopIsSound, GateIsSound,
         ServeIsSound, ServedWasPermitted, DenialsAreJustified, HasCaller, Sender,
         LookupOps, PlatformOps
<1>2. CASE pc' = "ok"
  <2>1. req.op = "batch" /\ HasCaller /\ at > Len(req.entries)
    BY <1>0, <1>2 DEF Start, BatchEntry, Goto, NextEntry, Gate
  <2>2. BatchIsWhole'
    <3>1. AccessTypeOK /\ AnswerIsPrefix /\ req.op \in LookupOps
      BY <2>1 DEF AccessIInv, LookupOps
    <3>2. at = Len(req.entries) + 1
      BY <2>1, <3>1, RequestFacts DEF AccessTypeOK, AnswerIsPrefix
    <3> QED
      BY <1>0, <3>1, <3>2, WholeAnswer DEF BatchIsWhole
  <2> QED
    BY <1>0, <1>2, <2>1, <2>2, StepKeeps
       DEF Ended, LoopIsSound, GateIsSound, ServeIsSound, ServedWasPermitted,
           DenialsAreJustified, HasCaller, Sender, MayLookUp, MayRead, PlatformOps, LookupOps
<1>3. CASE pc' \in {"platform", "check", "serve"}
  <2>1. req.op \in LookupOps => at \in DOMAIN req.entries
    <3>1. CASE pc = "start"
      BY <1>0, <1>3, <3>1, RequestFacts DEF Start, BatchEntry, Goto, LookupOps
    <3>2. CASE pc = "entry"
      BY <1>0, <1>3, <3>2, RequestFacts DEF Start, BatchEntry, Goto, LookupOps
    <3> QED
      BY <3>1, <3>2 DEF Start, BatchEntry
  <2>2. CASE pc' = "serve"
    <3>1. req.op \in LookupOps /\ req.entries[at].member = Sender
      BY <1>0, <2>2 DEF Start, BatchEntry, Goto, NextEntry, Gate, LookupOps
    <3>2. HasCaller
      BY <1>0, <2>1, <3>1, OwnEntry
    <3> QED
      BY <1>0, <2>1, <2>2, <3>1, <3>2, StepKeeps
         DEF Ended, LoopIsSound, GateIsSound, ServeIsSound, ServedWasPermitted,
             DenialsAreJustified, HasCaller, Sender, MayLookUp, PlatformOps, LookupOps
  <2>3. CASE pc' \in {"platform", "check"}
    <3>1. /\ pc' = Gate
          /\ req.op \in LookupOps => req.entries[at].member # Sender
      BY <1>0, <2>3 DEF Start, BatchEntry, Goto, NextEntry, Gate, LookupOps
    <3> QED
      BY <1>0, <2>1, <2>3, <3>1, StepKeeps
         DEF Gate, Ended, LoopIsSound, GateIsSound, ServeIsSound, ServedWasPermitted,
             DenialsAreJustified, Sender
  <2> QED
    BY <1>3, <2>2, <2>3
<1> QED
  BY <1>0, <1>1, <1>2, <1>3 DEF Start, BatchEntry, Goto, NextEntry, Gate

LEMMA PlatformKeeps ==
  ASSUME AccessIInv, Platform
  PROVE  AccessIInv'
<1>0. /\ UNCHANGED <<facts, kind, changes, req, held, kept, at, answer>>
      /\ kept \subseteq facts /\ facts \subseteq held
      /\ req.op \in LookupOps => at \in DOMAIN req.entries
      /\ req.op \in LookupOps => req.entries[at].member # Sender
      /\ req.op \in PlatformOps /\ req.meta.platform
  BY DEF Platform, Stays, AccessIInv, LoopIsSound, GateIsSound
<1>1. CASE pc' = "failed"
  BY <1>0, <1>1, StepKeeps
     DEF Ended, LoopIsSound, GateIsSound, ServeIsSound, ServedWasPermitted,
         DenialsAreJustified
<1>2. CASE pc' = "check" /\ Fact(Sender, "admin", Cluster) \notin facts
  BY <1>0, <1>2, StepKeeps
     DEF Ended, LoopIsSound, GateIsSound, ServeIsSound, ServedWasPermitted,
         DenialsAreJustified, Sender
<1>3. CASE pc' = "serve" /\ HasCaller /\ Fact(Sender, "admin", Cluster) \in facts
  <2>1. \A o : MayRead(o, held)
    BY <1>0, <1>3 DEF MayRead
  <2>2. ServeIsSound'
    BY <1>0, <1>3, <2>1
       DEF ServeIsSound, MayLookUp, MayRead, HasCaller, Sender, PlatformOps, LookupOps, Org
  <2> QED
    BY <1>0, <1>3, <2>2, StepKeeps
       DEF Ended, LoopIsSound, GateIsSound, ServedWasPermitted, DenialsAreJustified
<1> QED
  BY <1>1, <1>2, <1>3 DEF Platform, Goto

LEMMA CheckKeeps ==
  ASSUME AccessIInv, Check
  PROVE  AccessIInv'
<1>0. /\ UNCHANGED <<facts, kind, changes, req, held, kept, at, answer>>
      /\ kept \subseteq facts /\ facts \subseteq held
      /\ req.op \in LookupOps => at \in DOMAIN req.entries
      /\ req.op \in LookupOps => req.entries[at].member # Sender
      /\ ~(req.op \in PlatformOps /\ req.meta.platform
           /\ Fact(Sender, "admin", Cluster) \in kept)
  BY DEF Check, Stays, AccessIInv, LoopIsSound, GateIsSound
<1>1. req.op \in PlatformOps => Required = Fact(Sender, "member", Org)
  BY DEF PlatformOps, LookupOps, Required
<1>2. req.op \in LookupOps => Org = req.entries[at].org
  BY DEF Org, LookupOps
<1>3. Required' = Required /\ Org' = Org
  BY <1>0 DEF Required, Org, Sender
<1>4. CASE pc' = "failed"
  BY <1>0, <1>4, StepKeeps
     DEF Ended, LoopIsSound, GateIsSound, ServeIsSound, ServedWasPermitted,
         DenialsAreJustified
<1>5. CASE pc' = "denied" /\ Required \notin facts
  <2>1. DenialsAreJustified'
    BY <1>0, <1>1, <1>2, <1>3, <1>5
       DEF DenialsAreJustified, MayRead, MayLookUp, Sender, PlatformOps, LookupOps
  <2> QED
    BY <1>0, <1>5, <2>1, StepKeeps
       DEF Ended, LoopIsSound, GateIsSound, ServeIsSound, ServedWasPermitted
<1>6. CASE pc' = "identity" /\ HasCaller /\ req.op = "add" /\ Required \in facts
  BY <1>0, <1>3, <1>6, StepKeeps
     DEF Ended, LoopIsSound, GateIsSound, ServeIsSound, ServedWasPermitted,
         DenialsAreJustified, HasCaller, Sender
<1>7. CASE pc' = "serve" /\ HasCaller /\ req.op # "add" /\ Required \in facts
  <2>1. ServeIsSound'
    BY <1>0, <1>1, <1>2, <1>3, <1>7
       DEF ServeIsSound, MayRead, MayLookUp, HasCaller, Sender, PlatformOps, LookupOps
  <2> QED
    BY <1>0, <1>7, <2>1, StepKeeps
       DEF Ended, LoopIsSound, GateIsSound, ServedWasPermitted, DenialsAreJustified
<1> QED
  BY <1>4, <1>5, <1>6, <1>7 DEF Check, Goto

LEMMA AddChecksKeep ==
  ASSUME AccessIInv, Identity \/ Belongs
  PROVE  AccessIInv'
<1>0. /\ UNCHANGED <<facts, kind, changes, req, held, kept, at, answer>>
      /\ facts \subseteq held
      /\ req.op = "add" /\ HasCaller /\ Required \in held
      /\ pc = "belongs" => kind = req.type
  BY DEF Identity, Belongs, Stays, AccessIInv, GateIsSound
<1>1. /\ Required' = Required /\ Org' = Org /\ (HasCaller <=> HasCaller')
      /\ req.op \notin PlatformOps
  BY <1>0 DEF Required, Org, Sender, HasCaller, PlatformOps, LookupOps
<1>2. CASE pc' = "failed"
  BY <1>0, <1>2, StepKeeps
     DEF Ended, LoopIsSound, GateIsSound, ServeIsSound, ServedWasPermitted,
         DenialsAreJustified
<1>3. CASE pc' = "belongs" /\ kind = req.type
  BY <1>0, <1>1, <1>3, StepKeeps
     DEF Ended, LoopIsSound, GateIsSound, ServeIsSound, ServedWasPermitted,
         DenialsAreJustified
<1>4. CASE pc = "belongs" /\ pc' = "serve" /\ Fact(req.member, "member", Org) \in facts
  <2>1. ServeIsSound'
    BY <1>0, <1>1, <1>4 DEF ServeIsSound, PlatformOps, LookupOps
  <2>2. LoopIsSound'
    BY <1>0, <1>4 DEF LoopIsSound, LookupOps
  <2> QED
    BY <1>0, <1>4, <2>1, <2>2, StepKeeps
       DEF Ended, GateIsSound, ServedWasPermitted, DenialsAreJustified
<1> QED
  BY <1>2, <1>3, <1>4 DEF Identity, Belongs, Goto

LEMMA ServeKeeps ==
  ASSUME AccessIInv, Serve
  PROVE  AccessIInv'
<1>0. /\ UNCHANGED <<facts, kind, changes, req, held, kept>>
      /\ AccessTypeOK /\ pc = "serve" /\ HasCaller
      /\ \A e \in Range(answer) : MayLookUp(e, held)
  BY DEF Serve, Stays, AccessIInv, ServeIsSound
<1>1. CASE pc' = "failed" /\ UNCHANGED <<at, answer>>
  BY <1>0, <1>1, StepKeeps
     DEF Ended, LoopIsSound, GateIsSound, ServeIsSound, ServedWasPermitted,
         DenialsAreJustified
<1>2. CASE req.op \notin LookupOps /\ pc' = "ok" /\ UNCHANGED <<at, answer>>
  <2>1. Required' = Required /\ Org' = Org
    BY <1>0, <1>2 DEF Required, Org, Sender
  <2>2. ServedWasPermitted'
    BY <1>0, <1>2, <2>1
       DEF AccessIInv, ServeIsSound, ServedWasPermitted, MayRead, MayLookUp, Sender, HasCaller
  <2>3. BatchIsWhole'
    BY <1>0, <1>2 DEF BatchIsWhole
  <2> QED
    BY <1>0, <1>2, <2>2, <2>3, StepKeeps
       DEF Ended, LoopIsSound, GateIsSound, ServeIsSound, DenialsAreJustified
<1>3. CASE /\ req.op \in LookupOps
           /\ answer' = Append(answer, req.entries[at]) /\ at' = at + 1
           /\ pc' = IF req.op = "lookup" THEN "ok" ELSE "entry"
  <2>1. /\ at \in DOMAIN req.entries /\ MayLookUp(req.entries[at], held)
    BY <1>0, <1>3 DEF AccessIInv, LoopIsSound, ServeIsSound
  <2>2. req.entries[at] \in Entry
    BY <1>0, <1>3, <2>1, EntryFacts DEF AccessTypeOK
  <2>3. AccessTypeOK'
    BY <1>0, <1>3, <2>2 DEF AccessTypeOK, Ended, LookupOps
  <2>4. \A e \in Range(answer)' : MayLookUp(e, held)'
    <3>1. Range(answer') \subseteq Range(answer) \cup {req.entries[at]}
      BY <1>0, <1>3, <2>2 DEF AccessTypeOK, Range
    <3> QED
      BY <1>0, <2>1, <3>1 DEF MayLookUp, MayRead, Sender
  <2>5. LoopIsSound' /\ GateIsSound' /\ ServeIsSound' /\ DenialsAreJustified'
    BY <1>0, <1>3
       DEF LoopIsSound, GateIsSound, ServeIsSound, DenialsAreJustified, HasCaller, Sender,
           LookupOps
  <2>6. ServedWasPermitted'
    BY <1>0, <1>3, <2>4 DEF ServedWasPermitted, HasCaller, Sender, PlatformOps, LookupOps
  <2>7. AnswerIsPrefix'
    <3>1. /\ AnswerIsPrefix /\ answer \in Seq(Entry) /\ at \in 1..Len(req.entries)
          /\ Len(req.entries) \in Nat
      BY <1>0, <1>3, <2>1, RequestFacts DEF AccessIInv, AccessTypeOK
    <3>2. Len(answer') = at /\ at' - 1 = at /\ at' <= Len(req.entries) + 1
      BY <1>3, <2>2, <3>1 DEF AnswerIsPrefix
    <3>3. \A i \in 1..at : answer'[i] = req.entries[i]
      BY <1>3, <2>2, <3>1 DEF AnswerIsPrefix
    <3> QED
      BY <1>0, <3>2, <3>3 DEF AnswerIsPrefix
  <2>8. BatchIsWhole'
    <3> SUFFICES ASSUME req.op = "lookup" PROVE answer' = req.entries'
      BY <1>0, <1>3 DEF BatchIsWhole, LookupOps
    <3>1. at = 1 /\ req.entries \in Seq(Entry) /\ 1..Len(req.entries) = {1}
      BY <1>0, <2>1, RequestFacts DEF AccessTypeOK, LookupOps
    <3>2. Len(req.entries) = 1
      <4> DEFINE n == Len(req.entries)
      <4>1. n \in Nat /\ 1..n = {1}
        BY <3>1
      <4> HIDE DEF n
      <4>2. 1 \in 1..n
        BY <4>1
      <4>3. n \in 1..n
        BY <4>1, <4>2
      <4> QED
        BY <4>1, <4>3 DEF n
    <3>3. at' = Len(req.entries') + 1 /\ req'.op \in LookupOps
      BY <1>0, <1>3, <3>1, <3>2 DEF LookupOps
    <3>4. answer' \in Seq(Entry) /\ req.entries' \in Seq(Entry)
      BY <1>0, <2>3, <3>1 DEF AccessTypeOK
    <3> QED
      BY <2>7, <3>3, <3>4 DEF AnswerIsPrefix
  <2> QED
    BY <1>0, <2>3, <2>4, <2>5, <2>6, <2>7, <2>8 DEF AccessIInv
<1> QED
  BY <1>1, <1>2, <1>3 DEF Serve, Goto

LEMMA ChangeKeeps ==
  ASSUME AccessIInv, Change
  PROVE  AccessIInv'
<1>0. /\ UNCHANGED <<kind, pc, req, at, answer>> /\ pc \notin Ended
      /\ held \subseteq held' /\ kept' \subseteq kept
      /\ kept' \subseteq facts' /\ facts' \subseteq held'
  BY DEF Change, AccessIInv
<1>1. /\ Required' = Required /\ Org' = Org /\ (HasCaller <=> HasCaller') /\ Sender' = Sender
      /\ \A o : MayRead(o, held) => MayRead(o, held)'
      /\ \A e : MayLookUp(e, held) => MayLookUp(e, held)'
  BY <1>0 DEF Required, Org, Sender, HasCaller, MayRead, MayLookUp
<1>2. AccessTypeOK' /\ LoopIsSound'
  BY <1>0, <1>1 DEF AccessIInv, AccessTypeOK, LoopIsSound
<1>3. GateIsSound'
  BY <1>0, <1>1 DEF AccessIInv, GateIsSound
<1>4. ServeIsSound'
  BY <1>0, <1>1 DEF AccessIInv, ServeIsSound
<1>5. ServedWasPermitted' /\ DenialsAreJustified' /\ BatchIsWhole'
  BY <1>0 DEF ServedWasPermitted, DenialsAreJustified, BatchIsWhole, Ended
<1>6. AnswerIsPrefix'
  BY <1>0 DEF AccessIInv, AnswerIsPrefix
<1> QED
  BY <1>0, <1>1, <1>2, <1>3, <1>4, <1>5, <1>6 DEF AccessIInv

LEMMA AccessInvStep == AccessIInv /\ [AccessNext]_accessVars => AccessIInv'
<1> SUFFICES ASSUME AccessIInv, [AccessNext]_accessVars PROVE AccessIInv'
  OBVIOUS
<1>1. CASE UNCHANGED accessVars
  BY <1>1 DEF accessVars, AccessIInv, AccessTypeOK, LoopIsSound, GateIsSound, ServeIsSound,
              ServedWasPermitted, DenialsAreJustified, AnswerIsPrefix, BatchIsWhole, MayRead,
              MayLookUp, Sender, HasCaller, Required, Org
<1> QED
  BY <1>1, StartKeeps, PlatformKeeps, CheckKeeps, AddChecksKeep, ServeKeeps, ChangeKeeps
     DEF AccessNext

(* The gates of authz.go hold what they checked until the statement runs. *)
THEOREM AccessInvariance == AccessSpec => []AccessIInv
BY AccessInvInit, AccessInvStep, PTL DEF AccessSpec

(* Whatever is granted and revoked while a request runs, what it served    *)
(* was permitted to its caller at some moment of it.                       *)
THEOREM ServedCorrect == AccessSpec => []ServedWasPermitted
<1>1. AccessIInv => ServedWasPermitted
  BY DEF AccessIInv
<1> QED
  BY <1>1, AccessInvariance, PTL

(* A lookup answers all that it was asked for, or nothing: an entry that   *)
(* is refused or fails leaves no half of a batch (member_groups.go).       *)
THEOREM BatchAnswersAll == AccessSpec => []BatchIsWhole
<1>1. AccessIInv => BatchIsWhole
  BY DEF AccessIInv
<1> QED
  BY <1>1, AccessInvariance, PTL

(* No caller that was entitled throughout is denied. *)
THEOREM DenialsCorrect == AccessSpec => []DenialsAreJustified
<1>1. AccessIInv => DenialsAreJustified
  BY DEF AccessIInv
<1> QED
  BY <1>1, AccessInvariance, PTL
==============================================================================
