-------------------------------- MODULE Access --------------------------------
(***************************************************************************)
(* Who may call what (authz.go, and the first steps of every handler in    *)
(* groups.go, memberships.go and member_groups.go).  A request names its   *)
(* caller in its metadata; each handler asks the authorization service     *)
(* about relations of that caller, one Check after another, while others   *)
(* grant and revoke relations there.  Handlers do not meet here, so the    *)
(* model has one request; what it does to the stores is GroupsService.     *)
(*                                                                         *)
(* Any read or Check may fail; a failure ends the request.                 *)
(***************************************************************************)
EXTENDS Naturals, Sequences, SequencesExt

CONSTANTS People,         \* identity ids
          Organizations,
          Groups,
          OrgOf,          \* the organization of a group's row
          Absent, Blank,  \* a metadata key that is not sent, or is no uuid
          Cluster,        \* the object cluster:global
          MaxEntries,     \* members of a batch
          MaxChanges      \* bound: relations changed during the request

ASSUME AccessAssumption ==
  /\ OrgOf \in [Groups -> Organizations]
  /\ {Absent, Blank} \cap People = {}
  /\ MaxEntries \in Nat /\ MaxChanges \in Nat

VARIABLES facts,      \* the relations the authorization service would confirm
          kind,       \* the identity service's type of the member to add
          changes,
          pc, req,
          at,         \* the entry of a lookup the handler is at
          answer,     \* the entries answered so far
          held, kept  \* history: relations held at some, at every moment so far

accessVars == <<facts, kind, changes, pc, req, at, answer, held, kept>>

Fact(i, relation, object) == [user |-> i, relation |-> relation, object |-> object]
Facts ==
  {Fact(i, rel, o) : i \in People, rel \in {"owner", "member"}, o \in Organizations}
    \cup {Fact(i, rel, g) : i \in People, rel \in {"can_edit", "can_view"}, g \in Groups}
    \cup {Fact(i, "admin", Cluster) : i \in People}

Kinds == {"user", "agent", "app", "runner"}
MemberTypes == {"user", "agent", "app"}
Entry == [member : People, org : Organizations]

(* The requests: by organization, by group, and by member. *)
LookupOps == {"lookup", "batch"}
PlatformOps == {"get", "list"} \cup LookupOps
Metadata == [id : People \cup {Absent, Blank}, legacy : People \cup {Absent},
             platform : BOOLEAN]
Request ==
  [op : {"create", "list"}, meta : Metadata, org : Organizations]
    \cup [op : {"get", "members", "update", "delete", "remove"}, meta : Metadata,
          group : Groups]
    \cup [op : {"add"}, meta : Metadata, group : Groups, member : People, type : MemberTypes]
    \cup [op : {"lookup"}, meta : Metadata, entries : [1..1 -> Entry]]
    \cup [op : {"batch"}, meta : Metadata,
          entries : UNION {[1..n -> Entry] : n \in 0..MaxEntries}]

Ended == {"ok", "denied", "failed"}

(* The metadata keys: an identity id under the current name counts before  *)
(* one under the old name, even when it is no uuid. *)
Sender == IF req.meta.id = Absent THEN req.meta.legacy ELSE req.meta.id
HasCaller == Sender \in People

Org == IF req.op \in {"create", "list"} THEN req.org
       ELSE IF req.op \in LookupOps THEN req.entries[at].org
       ELSE OrgOf[req.group]

(* What can make a difference: the relations of the caller to what the     *)
(* request is about, and whether the member to add belongs. *)
Objects ==
  {Cluster} \cup (CASE req.op \in {"create", "list"} -> {req.org}
                    [] req.op \in LookupOps -> {e.org : e \in Range(req.entries)}
                    [] OTHER -> {req.group, OrgOf[req.group]})
Relevant ==
  {f \in Facts : /\ f.object \in Objects
                 /\ \/ f.user = Sender
                    \/ req.op = "add" /\ f.user = req.member /\ f.relation = "member"}

(* The relation a handler requires when the platform is not asked for. *)
Required ==
  CASE req.op \in {"create", "update", "delete"} -> Fact(Sender, "owner", Org)
    [] req.op \in {"add", "remove"} -> Fact(Sender, "can_edit", req.group)
    [] req.op = "members" -> Fact(Sender, "can_view", req.group)
    [] OTHER -> Fact(Sender, "member", Org)

Goto(label) == pc' = label
Stays == UNCHANGED <<facts, kind, changes, req, held, kept>>

(* requireOrganizationMember asks for the platform first. *)
Gate == IF req.op \in PlatformOps /\ req.meta.platform THEN "platform" ELSE "check"

(* mutant: only the first member of a batch is checked *)
NextEntryFirstChecked(l) ==
  Goto(IF at > 1 \/ req.entries[at].member = Sender THEN "serve" ELSE l)

(* isCaller: a lookup of the caller's own groups is not checked *)
NextEntry(l) == Goto(IF req.entries[at].member = Sender THEN "serve" ELSE l)

(* The handler starts: it reads the group's row if the request names one,  *)
(* and a batch requires an identity before anything else. *)
Start ==
  /\ pc = "start"
  /\ \/ req.op \notin LookupOps /\ Goto(Gate)
     \/ req.op = "lookup" /\ NextEntry(Gate)
     \/ req.op = "batch" /\ HasCaller /\ Goto("entry")
     \/ Goto("failed")
  /\ UNCHANGED <<at, answer>> /\ Stays

(* The loop of ListMemberGroupsBatch *)
BatchEntry ==
  /\ pc = "entry"
  /\ \/ at <= Len(req.entries) /\ NextEntry(Gate)
     \/ at > Len(req.entries) /\ Goto("ok")
  /\ UNCHANGED <<at, answer>> /\ Stays

(* mutant: a caller that claims to be the platform is not looked at otherwise *)
PlatformOrNothing ==
  /\ pc = "platform"
  /\ Goto(IF Fact(Sender, "admin", Cluster) \in facts THEN "serve" ELSE "denied")
  /\ UNCHANGED <<at, answer>> /\ Stays

(* platformAllowed *)
Platform ==
  /\ pc = "platform"
  /\ \/ /\ HasCaller
        /\ Goto(IF Fact(Sender, "admin", Cluster) \in facts THEN "serve" ELSE "check")
     \/ Goto("failed")
  /\ UNCHANGED <<at, answer>> /\ Stays

(* requireAllowed *)
Check ==
  /\ pc = "check"
  /\ \/ /\ HasCaller
        /\ Goto(IF Required \notin facts THEN "denied"
                ELSE IF req.op = "add" THEN "identity" ELSE "serve")
     \/ Goto("failed")
  /\ UNCHANGED <<at, answer>> /\ Stays

(* validateMemberIdentity: the identity's type, then its organization *)
Identity ==
  /\ pc = "identity"
  /\ \/ kind = req.type /\ Goto("belongs")
     \/ Goto("failed")
  /\ UNCHANGED <<at, answer>> /\ Stays
Belongs ==
  /\ pc = "belongs"
  /\ \/ Fact(req.member, "member", Org) \in facts /\ Goto("serve")
     \/ Goto("failed")
  /\ UNCHANGED <<at, answer>> /\ Stays

(* mutant: the batch goes on without an entry that fails *)
ServeOrSkip ==
  /\ pc = "serve"
  /\ \/ /\ req.op \in LookupOps
        /\ answer' \in {Append(answer, req.entries[at]), answer}
        /\ at' = at + 1
        /\ Goto(IF req.op = "lookup" THEN "ok" ELSE "entry")
     \/ /\ req.op \notin LookupOps /\ Goto("ok")
        /\ UNCHANGED <<at, answer>>
     \/ Goto("failed") /\ UNCHANGED <<at, answer>>
  /\ Stays

(* The statement that reads or writes.  A lookup appends its entry; the    *)
(* batch goes on, and an error drops the entries answered before. *)
Serve ==
  /\ pc = "serve"
  /\ \/ /\ req.op \in LookupOps
        /\ answer' = Append(answer, req.entries[at])
        /\ at' = at + 1
        /\ Goto(IF req.op = "lookup" THEN "ok" ELSE "entry")
     \/ /\ req.op \notin LookupOps /\ Goto("ok")
        /\ UNCHANGED <<at, answer>>
     \/ Goto("failed") /\ UNCHANGED <<at, answer>>
  /\ Stays

(* Others change the relations; the request goes on with what it has seen. *)
Change ==
  /\ pc \notin Ended
  /\ changes < MaxChanges /\ changes' = changes + 1
  /\ \E f \in Relevant : facts' \in {facts \cup {f}, facts \ {f}}
  /\ held' = held \cup facts' /\ kept' = kept \cap facts'
  /\ UNCHANGED <<kind, pc, req, at, answer>>

AccessInit ==
  /\ req \in Request
  /\ facts \in SUBSET Relevant /\ held = facts /\ kept = facts
  /\ IF req.op = "add" THEN kind \in Kinds ELSE kind = "user"
  /\ changes = 0 /\ pc = "start" /\ at = 1 /\ answer = <<>>

AccessNext ==
  Start \/ BatchEntry \/ Platform \/ Check \/ Identity \/ Belongs \/ Serve \/ Change

AccessSpec == AccessInit /\ [][AccessNext]_accessVars

(***************************************************************************)
(* Correctness                                                             *)
(***************************************************************************)
(* A caller may read what an organization has: as its member, or as the    *)
(* platform, which takes the claim and the cluster relation behind it; and *)
(* everyone may look up themselves. *)
MayRead(o, relations) ==
  \/ Fact(Sender, "member", o) \in relations
  \/ req.meta.platform /\ Fact(Sender, "admin", Cluster) \in relations
MayLookUp(e, relations) == e.member = Sender \/ MayRead(e.org, relations)

(* authz.go:64-87, "Claiming the type is not holding the relation"         *)
(* (server_test.go:1301): whatever was granted and revoked during the      *)
(* request, each thing it reads or writes was permitted to its caller at   *)
(* some moment of it; being the platform never permits a write; and a      *)
(* member that is added has the type stated and belonged to the            *)
(* organization.                                                           *)
ServedWasPermitted ==
  pc = "ok" =>
    /\ HasCaller
    /\ req.op \in {"get", "list"} => MayRead(Org, held)
    /\ \A e \in Range(answer) : MayLookUp(e, held)
    /\ req.op \notin PlatformOps => Required \in held
    /\ req.op = "add" => kind = req.type /\ Fact(req.member, "member", Org) \in held

(* A caller is refused only if no relation that would admit it held        *)
(* throughout the request: a member of the organization that comes with    *)
(* the platform's type and without the cluster relation is still let in,   *)
(* and a batch is refused only for an entry that its caller may not read.  *)
DenialsAreJustified ==
  pc = "denied" =>
    /\ req.op \in {"get", "list"} => ~MayRead(Org, kept)
    /\ req.op \in LookupOps => ~MayLookUp(req.entries[at], kept)
    /\ req.op \notin PlatformOps => Required \notin kept

(* member_groups.go:30: a lookup that is answered is answered for every    *)
(* member it asks for, in the order of the request, though each entry is   *)
(* checked and read at its own time; one entry that is denied or fails     *)
(* leaves nobody with a part of the answer.                                *)
BatchIsWhole == pc = "ok" /\ req.op \in LookupOps => answer = req.entries

(***************************************************************************)
(* The inductive invariant behind the three.                               *)
(***************************************************************************)
AccessTypeOK ==
  /\ req \in Request
  /\ at \in Nat \ {0} /\ answer \in Seq(Entry)
  /\ pc \in Ended \cup {"start", "entry", "platform", "check", "identity", "belongs",
                       "serve"}

(* What the handler has made sure of at each of its steps. *)
LoopIsSound ==
  /\ pc \in {"platform", "check", "serve", "denied"} =>
       (req.op \in LookupOps => at \in DOMAIN req.entries)
  /\ pc = "start" => at = 1
  /\ pc = "entry" => req.op = "batch" /\ HasCaller
GateIsSound ==
  /\ pc = "platform" => req.op \in PlatformOps /\ req.meta.platform
  /\ pc = "check" =>
       ~(/\ req.op \in PlatformOps /\ req.meta.platform
         /\ Fact(Sender, "admin", Cluster) \in kept)
  /\ pc \in {"platform", "check"} /\ req.op \in LookupOps => req.entries[at].member # Sender
  /\ pc \in {"identity", "belongs"} => req.op = "add" /\ HasCaller /\ Required \in held
  /\ pc = "belongs" => kind = req.type
ServeIsSound ==
  pc = "serve" =>
    /\ HasCaller
    /\ req.op \in {"get", "list"} => MayRead(Org, held)
    /\ req.op \in LookupOps => MayLookUp(req.entries[at], held)
    /\ req.op \notin PlatformOps => Required \in held
    /\ req.op = "add" => kind = req.type /\ Fact(req.member, "member", Org) \in held

(* The entries before the present one have been answered. *)
AnswerIsPrefix ==
  req.op \in LookupOps =>
    /\ Len(answer) = at - 1 /\ at <= Len(req.entries) + 1
    /\ \A i \in 1..Len(answer) : answer[i] = req.entries[i]

AccessIInv ==
  /\ AccessTypeOK
  /\ kept \subseteq facts /\ facts \subseteq held
  /\ LoopIsSound /\ GateIsSound /\ ServeIsSound
  /\ \A e \in Range(answer) : MayLookUp(e, held)
  /\ AnswerIsPrefix
  /\ ServedWasPermitted /\ DenialsAreJustified /\ BatchIsWhole
===============================================================================
