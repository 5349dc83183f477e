---------------------------- MODULE Distribution ----------------------------
(***************************************************************************)
(* Governed artifacts from the admin's edit to the developer's sync:        *)
(* handleCreateArtifact, handleUpdateArtifact and handleDeleteArtifact      *)
(* (internal/api/admin_artifacts.go) over internal/store/artifact.go and    *)
(* artifact_revision.go, and handleSyncArtifacts (internal/api/sync.go),    *)
(* which answers from two statements with nothing around them.              *)
(*                                                                          *)
(* An edit is a conversation: the admin's GET, and a PUT that scans the new *)
(* payload, which nobody else can change, and then runs the transaction,    *)
(* which holds the artifact row FOR UPDATE: one step. In this edition every *)
(* write approves itself (autoApprove) and pins are ignored (pinning), so a *)
(* sync serves the newest revision. One caller syncs; entitled is what her  *)
(* roles are granted. Names are left out: every artifact has its own.       *)
(***************************************************************************)
EXTENDS Naturals, FiniteSets, FiniteSetsExt

CONSTANTS
    Artifacts,    \* artifact ids
    Clean,        \* payloads the scanner lets through
    Blocked,      \* payloads with a blocking finding
    Admins,       \* concurrent editors
    RevisionKeep, \* revisions kept per artifact, 0 for all
    MaxRevision,  \* bound on how often one artifact is approved
    None          \* nothing

Payloads == Clean \cup Blocked
Revisions == 1..MaxRevision

(* What an admin writes: the columns a snapshot copies. *)
Bodies == [rule : BOOLEAN, org : BOOLEAN, payload : Payloads]

Rows == [live : Bodies, approved : Bodies \cup {None}, ver : Nat \ {0}]

ASSUME DistributionAssumption ==
    /\ IsFiniteSet(Artifacts) /\ IsFiniteSet(Admins)
    /\ Clean \cap Blocked = {}
    /\ RevisionKeep \in Nat /\ MaxRevision \in Nat \ {0}
    /\ None \notin Artifacts \cup Payloads \cup Bodies /\ None \notin Rows

VARIABLES
    row,       \* each artifact's row, None before and after
    revision,  \* artifact_revision: the payload of every kept number
    used,      \* ids that were given out
    entitled,  \* artifacts granted to a role of the caller
    admin,     \* each editor's conversation
    sync,      \* the caller's GET /v1/sync/artifacts
    named      \* history: what each revision number was served or stored as

vars == <<row, revision, used, entitled, admin, sync, named>>

(* One entry of an answer. *)
Items == [art : Artifacts, payload : Payloads, rev : Revisions]

Quiet == [art |-> None, ver |-> 0]
NoSync == [pc |-> "idle", items |-> {}, rules |-> {}, touched |-> {}]

TypeOK ==
    /\ row \in [Artifacts -> Rows \cup {None}]
    /\ revision \in [Artifacts -> [Revisions -> Payloads \cup {None}]]
    /\ used \in SUBSET Artifacts /\ \A a \in Artifacts : row[a] # None => a \in used
    /\ entitled \in SUBSET Artifacts /\ \A a \in entitled : row[a] # None
    /\ admin \in [Admins -> [art : Artifacts, ver : Nat \ {0}] \cup {Quiet}]
    /\ \A d \in Admins : admin[d] = Quiet \/ admin[d].art \in used
    /\ sync \in [pc : {"idle", "rules", "done"}, items : SUBSET Items,
                 rules : SUBSET Items, touched : SUBSET Artifacts]
    /\ named \in SUBSET (Artifacts \X Revisions \X Payloads)

-----------------------------------------------------------------------------

Kept(a) == {n \in Revisions : revision[a][n] # None}

(* MAX(revision_num), 0 without a row *)
Newest(a) == IF Kept(a) = {} THEN 0 ELSE Max(Kept(a))

(* Mutant: ORDER BY revision_num ASC, which keeps the oldest. *)
Pruned_Oldest(revs, top) ==
    [n \in Revisions |->
        IF RevisionKeep > 0 /\ n > RevisionKeep THEN None ELSE revs[n]]

(* The prune of insertRevision: the RevisionKeep newest stay. *)
Pruned(revs, top) ==
    [n \in Revisions |->
        IF RevisionKeep > 0 /\ n + RevisionKeep <= top THEN None ELSE revs[n]]

(* insertRevision: MAX + 1, then the prune. *)
WithRevision(a, payload) ==
    Pruned([revision[a] EXCEPT ![Newest(a) + 1] = payload], Newest(a) + 1)

Touch(a) == sync' = [sync EXCEPT !.touched = @ \cup {a}]

(* What the transaction of a create or an update leaves: the write, and     *)
(* maybeAutoApprove, which copies every column and adds a revision. Each is *)
(* an UPDATE for the version trigger.                                       *)
Save(a, body, ver) ==
    /\ Newest(a) < MaxRevision
    /\ row' = [row EXCEPT ![a] = [live |-> body, approved |-> body, ver |-> ver]]
    /\ revision' = [revision EXCEPT ![a] = WithRevision(a, body.payload)]
    /\ named' = named \cup {<<a, Newest(a) + 1, body.payload>>}
    /\ Touch(a)

-----------------------------------------------------------------------------
(* The editors *)

(* GET /v1/admin/artifacts/{id}: the body and its ETag. *)
GetArtifact(d, a) ==
    /\ row[a] # None
    /\ admin' = [admin EXCEPT ![d] = [art |-> a, ver |-> row[a].ver]]
    /\ UNCHANGED <<row, revision, used, entitled, sync, named>>

(* scanWriteOrReject: a blocking finding leaves a deny row and no write. *)
Scanned(body) == body.payload \in Clean

CreateArtifact(a, body) ==
    /\ a \notin used
    /\ Scanned(body)
    /\ used' = used \cup {a}
    /\ Save(a, body, 2)
    /\ UNCHANGED <<entitled, admin>>

(* PUT with If-Match, a full replace: the scan, then GetArtifactForUpdate,  *)
(* the comparison, UpdateArtifact and maybeAutoApprove. A refused PUT       *)
(* leaves a deny row and nothing else.                                      *)
UpdateArtifact(d, body) ==
    LET a == admin[d].art IN
    /\ a # None
    /\ Scanned(body)
    /\ row[a] # None
    /\ row[a].ver = admin[d].ver
    /\ Save(a, body, row[a].ver + 2)
    /\ admin' = [admin EXCEPT ![d] = Quiet]
    /\ UNCHANGED <<used, entitled>>

(* No If-Match. Grants and revisions go with the row. *)
DeleteArtifact(a) ==
    /\ row[a] # None
    /\ row' = [row EXCEPT ![a] = None]
    /\ revision' = [revision EXCEPT ![a] = [n \in Revisions |-> None]]
    /\ entitled' = entitled \ {a}
    /\ Touch(a)
    /\ UNCHANGED <<used, admin, named>>

CreateArtifactEntitlement(a) ==
    /\ row[a] # None /\ a \notin entitled
    /\ entitled' = entitled \cup {a}
    /\ Touch(a)
    /\ UNCHANGED <<row, revision, used, admin, named>>

DeleteArtifactEntitlement(a) ==
    /\ a \in entitled
    /\ entitled' = entitled \ {a}
    /\ Touch(a)
    /\ UNCHANGED <<row, revision, used, admin, named>>

-----------------------------------------------------------------------------
(* The caller's sync *)

(* approved_content IS NOT NULL *)
Distributed(a) == row[a] # None /\ row[a].approved # None

(* One row of either list. *)
Item(a) == [art |-> a, payload |-> row[a].approved.payload, rev |-> Newest(a)]

(* Mutant: the entitled list takes whatever is granted. *)
EntitledArtifacts_AnyVisibility ==
    {Item(a) : a \in {b \in entitled : Distributed(b)}}

EntitledArtifacts ==
    {Item(a) : a \in {b \in entitled : Distributed(b) /\ ~row[b].approved.org}}

ActiveOrgRules ==
    {Item(a) : a \in {b \in Artifacts : /\ Distributed(b)
                                        /\ row[b].approved.org
                                        /\ row[b].approved.rule}}

ListEntitledArtifacts ==
    /\ sync.pc = "idle"
    /\ sync' = [pc |-> "rules", items |-> EntitledArtifacts, rules |-> {},
                touched |-> {}]
    /\ UNCHANGED <<row, revision, used, entitled, admin, named>>

(* The second statement, and the answer: the lists are appended. *)
ListActiveOrgRules ==
    /\ sync.pc = "rules"
    /\ sync' = [sync EXCEPT !.pc = "done", !.rules = ActiveOrgRules]
    /\ UNCHANGED <<row, revision, used, entitled, admin, named>>

(* The response is written, or a statement failed. *)
EndSync ==
    /\ sync.pc # "idle"
    /\ sync' = NoSync
    /\ UNCHANGED <<row, revision, used, entitled, admin, named>>

-----------------------------------------------------------------------------

Init ==
    /\ row = [a \in Artifacts |-> None]
    /\ revision = [a \in Artifacts |-> [n \in Revisions |-> None]]
    /\ used = {} /\ entitled = {} /\ named = {}
    /\ admin = [d \in Admins |-> Quiet]
    /\ sync = NoSync

Next ==
    \/ \E d \in Admins :
          \/ \E a \in Artifacts : GetArtifact(d, a)
          \/ \E body \in Bodies : UpdateArtifact(d, body)
    \/ \E a \in Artifacts :
          \/ \E body \in Bodies : CreateArtifact(a, body)
          \/ DeleteArtifact(a)
          \/ CreateArtifactEntitlement(a) \/ DeleteArtifactEntitlement(a)
    \/ ListEntitledArtifacts \/ ListActiveOrgRules \/ EndSync

Spec == Init /\ [][Next]_vars

-----------------------------------------------------------------------------

(* Entries of the answer for one artifact. *)
Entries(a) ==
    Cardinality({i \in sync.items : i.art = a})
        + Cardinality({i \in sync.rules : i.art = a})

(* An artifact nobody touched while the sync was answered is in the answer  *)
(* exactly once if the caller is to have it on this channel, with what the  *)
(* admin last saved and the newest revision number, and not at all          *)
(* otherwise. (One that flips visibility between the two statements of      *)
(* handleSyncArtifacts may be there twice, or be missing.)                  *)
UntouchedServedOnce ==
    sync.pc = "done" =>
        \A a \in Artifacts \ sync.touched :
            LET due == row[a] # None /\ IF row[a].live.org THEN row[a].live.rule
                                        ELSE a \in entitled IN
            /\ Entries(a) = IF due THEN 1 ELSE 0
            /\ due => \E i \in sync.items \cup sync.rules :
                         /\ i.art = a
                         /\ i.payload = row[a].live.payload
                         /\ <<a, i.rev, i.payload>> \in named

(* A revision number of an artifact names one payload for good: pruning     *)
(* never lets insertRevision hand out a number again.                       *)
RevisionNamesOnePayload ==
    \A x, y \in named : x[1] = y[1] /\ x[2] = y[2] => x[3] = y[3]

=============================================================================
