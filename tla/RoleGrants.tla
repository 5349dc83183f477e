----------------------------- MODULE RoleGrants -----------------------------
(***************************************************************************)
(* Roles and what is granted to them: the admin handlers of                 *)
(* internal/api/admin_roles.go, admin_entitlements.go,                      *)
(* admin_artifact_entitlements.go and the artifact update's grant report    *)
(* (admin_artifacts.go), with the statements of internal/store/rbac.go and  *)
(* artifact_entitlement.go as the steps of READ COMMITTED transactions.     *)
(*                                                                          *)
(* A handler's transaction takes row locks statement by statement and       *)
(* keeps them until it ends. Its writes become visible when it commits,     *)
(* together with its audit row (auditedTx). A statement over several rows,  *)
(* a cascade or a locking read, takes them one by one in an order of        *)
(* Postgres's choosing. A unique index makes a statement wait for whoever   *)
(* has an uncommitted entry of the same key. Revoking a grant takes one row *)
(* and waits for nothing after it, so it is one action here.                *)
(*                                                                          *)
(* Ids are uuids, so a deleted role or target is never the same row again.  *)
(* Virtual keys, quotas and usage have no rows in this edition.             *)
(***************************************************************************)
EXTENDS Naturals, FiniteSets

CONSTANTS
    Roles,       \* role ids
    Servers,     \* mcp_server ids
    Artifacts,   \* artifact ids
    Names,       \* role names
    Txs,         \* concurrent admin requests
    RoleLimit,   \* editionLimits.Roles
    MaxVersion,  \* bound on how often one row is edited
    MaxGrants,   \* bound: with as many grants, no new one is inserted
    None         \* no name, no row, no request

Targets == Servers \cup Artifacts
Grants == Roles \X Targets

ASSUME GrantAssumption ==
    /\ IsFiniteSet(Roles) /\ IsFiniteSet(Targets) /\ IsFiniteSet(Txs)
    /\ Servers \cap Artifacts = {}
    /\ RoleLimit \in Nat \ {0} /\ MaxVersion \in Nat \ {0}
    /\ None \notin Names \cup Roles \cup Targets

VARIABLES
    role,     \* name and row_version of each role, name None without a row
    version,  \* row_version of each target, 0 once deleted
    grants,   \* entitlement and artifact_entitlement rows
    spent,    \* role ids that were used at some time
    tx        \* each request's position in its handler

vars == <<role, version, grants, spent, tx>>

Versions == 0..MaxVersion
NoRole == [name |-> None, ver |-> 0]

Exists(r) == role[r].name # None

(* Rows that can be locked. *)
RowOf(r) == <<"role", r>>
TargetRow(x) == <<"target", x>>
GrantRow(g) == <<"grant", g>>
Rows == {RowOf(r) : r \in Roles} \cup {TargetRow(x) : x \in Targets}
            \cup {GrantRow(g) : g \in Grants}

Idle == [op |-> "none", pc |-> "idle", role |-> None, target |-> None,
         name |-> None, ver |-> 0, from |-> None, report |-> {},
         gone |-> {}, share |-> {}, own |-> {}]

Request ==
    [op : {"none", "create", "grant", "delete", "rename", "update", "drop"},
     pc : {"idle", "name", "role", "target", "insert", "lock", "servers",
           "artifacts", "delete", "cascade", "read", "update", "grants",
           "write", "commit"},
     role : Roles \cup {None}, target : Targets \cup {None},
     name : Names \cup {None}, ver : Versions, from : Names \cup {None},
     report : SUBSET Grants, gone : SUBSET Grants,
     share : SUBSET Rows, own : SUBSET Rows]

TypeOK ==
    /\ role \in [Roles -> [name : Names \cup {None}, ver : Versions]]
    /\ version \in [Targets -> Versions]
    /\ grants \subseteq {g \in Grants : Exists(g[1]) /\ version[g[2]] > 0}
    /\ \A q, r \in Roles : Exists(q) /\ role[q].name = role[r].name => q = r
    /\ {r \in Roles : Exists(r)} \subseteq spent /\ spent \subseteq Roles
    /\ tx \in [Txs -> Request]
    /\ \A t, u \in Txs :
          t # u => tx[t].own \cap (tx[u].own \cup tx[u].share) = {}

-----------------------------------------------------------------------------
(* The lock manager of Postgres: FOR SHARE rows are shared, FOR UPDATE      *)
(* rows, and rows a statement updates or deletes, are not.                  *)

FreeToShare(t, rows) == \A u \in Txs \ {t} : tx[u].own \cap rows = {}

FreeToOwn(t, rows) ==
    \A u \in Txs \ {t} : (tx[u].own \cup tx[u].share) \cap rows = {}

Unlocked(rows) == \A u \in Txs : (tx[u].own \cup tx[u].share) \cap rows = {}

At(t, op, pc) == tx[t].op = op /\ tx[t].pc = pc

GrantsOfRole(r) == {g \in grants : g[1] = r}
GrantsOf(x) == {g \in grants : g[2] = x}
GrantRows(gs) == {GrantRow(g) : g \in gs}

(* UNIQUE (tenant_id, name): uncommitted changes to the entries of a name.  *)
(* A created or renamed role has a new entry; the entry of a role that is   *)
(* being renamed or deleted stays in the way until its request ends.        *)
Renames(u) == tx[u].op = "rename" /\ tx[u].pc \in {"name", "commit"}
Deletes(u) == tx[u].op = "delete" /\ tx[u].pc \in {"cascade", "commit"}

NameHeld(u, n) ==
    \/ (At(u, "create", "commit") \/ At(u, "rename", "commit")) /\ tx[u].name = n
    \/ (Renames(u) \/ Deletes(u)) /\ role[tx[u].role].name = n

(* InTx: an error of any statement, a refusal, or a request that is         *)
(* cancelled rolls back and lets go of every lock.                          *)
Abort(t) ==
    /\ tx[t].pc # "idle"
    /\ tx' = [tx EXCEPT ![t] = Idle]
    /\ UNCHANGED <<role, version, grants, spent>>

-----------------------------------------------------------------------------
(* handleCreateRole *)

(* checkRoleCap counts the roles before the transaction begins. *)
CreateRole(t, r, n) ==
    /\ tx[t].pc = "idle"
    /\ r \notin spent
    /\ Cardinality({q \in Roles : Exists(q)}) < RoleLimit
    /\ spent' = spent \cup {r}
    /\ tx' = [tx EXCEPT ![t] = [Idle EXCEPT !.op = "create", !.pc = "name",
                                            !.role = r, !.name = n]]
    /\ UNCHANGED <<role, version, grants>>

Naming(t) == At(t, "create", "name") \/ At(t, "rename", "name")

(* The index entry of INSERT INTO role, or of UPDATE role SET name.         *)
TakeName(t) ==
    /\ Naming(t)
    /\ \A q \in Roles \ {tx[t].role} : role[q].name # tx[t].name
    /\ \A u \in Txs \ {t} : ~NameHeld(u, tx[t].name)
    /\ tx' = [tx EXCEPT ![t].pc = "commit"]
    /\ UNCHANGED <<role, version, grants, spent>>

CommitRole(t) ==
    /\ At(t, "create", "commit")
    /\ role' = [role EXCEPT ![tx[t].role] = [name |-> tx[t].name, ver |-> 1]]
    /\ tx' = [tx EXCEPT ![t] = Idle]
    /\ UNCHANGED <<version, grants, spent>>

-----------------------------------------------------------------------------
(* handleCreateEntitlement, handleCreateArtifactEntitlement *)

Grant(t, r, x) ==
    /\ tx[t].pc = "idle"
    /\ tx' = [tx EXCEPT ![t] = [Idle EXCEPT !.op = "grant", !.pc = "role",
                                            !.role = r, !.target = x]]
    /\ UNCHANGED <<role, version, grants, spent>>

RoleExistsInTenant(t) ==
    /\ At(t, "grant", "role")
    /\ FreeToShare(t, {RowOf(tx[t].role)})
    /\ Exists(tx[t].role)
    /\ tx' = [tx EXCEPT ![t].pc = "target",
                        ![t].share = @ \cup {RowOf(tx[t].role)}]
    /\ UNCHANGED <<role, version, grants, spent>>

(* ArtifactExistsInTenant, MCPServerExistsInTenant *)
TargetExistsInTenant(t) ==
    /\ At(t, "grant", "target")
    /\ FreeToShare(t, {TargetRow(tx[t].target)})
    /\ version[tx[t].target] > 0
    /\ tx' = [tx EXCEPT ![t].pc = "insert",
                        ![t].share = @ \cup {TargetRow(tx[t].target)}]
    /\ UNCHANGED <<role, version, grants, spent>>

(* The grant a request is about, and whether its row waits for a commit.    *)
Pair(t) == <<tx[t].role, tx[t].target>>
PairHeld(u, g) == At(u, "grant", "commit") /\ Pair(u) = g

(* CreateEntitlement, CreateArtifactEntitlement: unique per role and        *)
(* target. The parents of its foreign keys are locked already.              *)
InsertGrant(t) ==
    /\ At(t, "grant", "insert")
    /\ Pair(t) \notin grants
    /\ Cardinality(grants) < MaxGrants
    /\ \A u \in Txs \ {t} : ~PairHeld(u, Pair(t))
    /\ tx' = [tx EXCEPT ![t].pc = "commit"]
    /\ UNCHANGED <<role, version, grants, spent>>

CommitGrant(t) ==
    /\ At(t, "grant", "commit")
    /\ grants' = grants \cup {Pair(t)}
    /\ tx' = [tx EXCEPT ![t] = Idle]
    /\ UNCHANGED <<role, version, spent>>

(* handleDeleteEntitlement, handleDeleteArtifactEntitlement *)
Revoke(g) ==
    /\ g \in grants
    /\ Unlocked({GrantRow(g)})
    /\ grants' = grants \ {g}
    /\ UNCHANGED <<role, version, spent, tx>>

-----------------------------------------------------------------------------
(* handleDeleteServer, handleDeleteArtifact: one DELETE and its cascade *)

DeleteTarget(t, x) ==
    /\ tx[t].pc = "idle"
    /\ version[x] > 0
    /\ FreeToOwn(t, {TargetRow(x)})
    /\ tx' = [tx EXCEPT ![t] = [Idle EXCEPT !.op = "drop", !.pc = "cascade",
                                            !.target = x, !.own = {TargetRow(x)}]]
    /\ UNCHANGED <<role, version, grants, spent>>

(* The grants that go with the row a request deletes (ON DELETE CASCADE).   *)
Doomed(t) == IF tx[t].op = "delete" THEN GrantsOfRole(tx[t].role)
             ELSE GrantsOf(tx[t].target)

Cascading(t) == At(t, "delete", "cascade") \/ At(t, "drop", "cascade")

CascadeRow(t, g) ==
    /\ Cascading(t)
    /\ g \in Doomed(t)
    /\ GrantRow(g) \notin tx[t].own
    /\ FreeToOwn(t, {GrantRow(g)})
    /\ tx' = [tx EXCEPT ![t].own = @ \cup {GrantRow(g)}]
    /\ UNCHANGED <<role, version, grants, spent>>

CascadeEnds(t) ==
    /\ Cascading(t)
    /\ GrantRows(Doomed(t)) \subseteq tx[t].own
    /\ tx' = [tx EXCEPT ![t].pc = "commit", ![t].gone = Doomed(t)]
    /\ UNCHANGED <<role, version, grants, spent>>

CommitDrop(t) ==
    /\ At(t, "drop", "commit")
    /\ version' = [version EXCEPT ![tx[t].target] = 0]
    /\ grants' = grants \ tx[t].gone
    /\ tx' = [tx EXCEPT ![t] = Idle]
    /\ UNCHANGED <<role, spent>>

-----------------------------------------------------------------------------
(* handleDeleteRole *)

DeleteRole(t, r) ==
    /\ tx[t].pc = "idle"
    /\ tx' = [tx EXCEPT ![t] = [Idle EXCEPT !.op = "delete", !.pc = "lock",
                                            !.role = r]]
    /\ UNCHANGED <<role, version, grants, spent>>

(* Mutant: the role row is read, not locked, before the grants are. *)
LockRole_ReadOnly(t) ==
    /\ At(t, "delete", "lock")
    /\ Exists(tx[t].role)
    /\ tx' = [tx EXCEPT ![t].pc = "servers"]
    /\ UNCHANGED <<role, version, grants, spent>>

(* SELECT name FROM role ... FOR UPDATE *)
LockRole(t) ==
    /\ At(t, "delete", "lock")
    /\ FreeToOwn(t, {RowOf(tx[t].role)})
    /\ Exists(tx[t].role)
    /\ tx' = [tx EXCEPT ![t].pc = "servers",
                        ![t].own = @ \cup {RowOf(tx[t].role)}]
    /\ UNCHANGED <<role, version, grants, spent>>

(* readGrantNames, once over entitlement and once over                      *)
(* artifact_entitlement: two snapshots, no lock.                            *)
ReadServerGrants(t) ==
    /\ At(t, "delete", "servers")
    /\ tx' = [tx EXCEPT ![t].pc = "artifacts",
                        ![t].report = {g \in GrantsOfRole(tx[t].role) :
                                          g[2] \in Servers}]
    /\ UNCHANGED <<role, version, grants, spent>>

ReadArtifactGrants(t) ==
    /\ At(t, "delete", "artifacts")
    /\ tx' = [tx EXCEPT ![t].pc = "delete",
                        ![t].report = @ \cup {g \in GrantsOfRole(tx[t].role) :
                                                 g[2] \in Artifacts}]
    /\ UNCHANGED <<role, version, grants, spent>>

(* DELETE FROM role *)
DeleteRow(t) ==
    /\ At(t, "delete", "delete")
    /\ FreeToOwn(t, {RowOf(tx[t].role)})
    /\ Exists(tx[t].role)
    /\ tx' = [tx EXCEPT ![t].pc = "cascade",
                        ![t].own = @ \cup {RowOf(tx[t].role)}]
    /\ UNCHANGED <<role, version, grants, spent>>

(* The role and its grants are gone, and role.delete names the report. *)
CommitDelete(t) ==
    /\ At(t, "delete", "commit")
    /\ role' = [role EXCEPT ![tx[t].role] = NoRole]
    /\ grants' = grants \ tx[t].gone
    /\ tx' = [tx EXCEPT ![t] = Idle]
    /\ UNCHANGED <<version, spent>>

-----------------------------------------------------------------------------
(* handleUpdateRole: the client's ETag, the handler's own read of the name, *)
(* and then the guarded update.                                             *)

RenameRole(t, r, n) ==
    /\ tx[t].pc = "idle"
    /\ Exists(r)
    /\ tx' = [tx EXCEPT ![t] = [Idle EXCEPT !.op = "rename", !.pc = "read",
                                            !.role = r, !.name = n,
                                            !.ver = role[r].ver]]
    /\ UNCHANGED <<role, version, grants, spent>>

(* GetRole, then verifyIdpRename: the operator's assertion. *)
GetRole(t) ==
    /\ At(t, "rename", "read")
    /\ Exists(tx[t].role)
    /\ tx' = [tx EXCEPT ![t].pc = "update", ![t].from = role[tx[t].role].name]
    /\ UNCHANGED <<role, version, grants, spent>>

(* Mutant: WHERE id = $2, whatever the version. *)
UpdateRoleName_NoGuard(t) ==
    /\ At(t, "rename", "update")
    /\ FreeToOwn(t, {RowOf(tx[t].role)})
    /\ Exists(tx[t].role)
    /\ tx' = [tx EXCEPT ![t].pc = "name",
                        ![t].own = @ \cup {RowOf(tx[t].role)}]
    /\ UNCHANGED <<role, version, grants, spent>>

(* UPDATE role ... WHERE row_version = expected *)
UpdateRoleName(t) ==
    /\ At(t, "rename", "update")
    /\ FreeToOwn(t, {RowOf(tx[t].role)})
    /\ Exists(tx[t].role)
    /\ role[tx[t].role].ver = tx[t].ver
    /\ tx' = [tx EXCEPT ![t].pc = "name",
                        ![t].own = @ \cup {RowOf(tx[t].role)}]
    /\ UNCHANGED <<role, version, grants, spent>>

(* The trigger bumps row_version. *)
CommitRename(t) ==
    /\ At(t, "rename", "commit")
    /\ role[tx[t].role].ver < MaxVersion
    /\ role' = [role EXCEPT ![tx[t].role] = [name |-> tx[t].name, ver |-> @.ver + 1]]
    /\ tx' = [tx EXCEPT ![t] = Idle]
    /\ UNCHANGED <<version, grants, spent>>

-----------------------------------------------------------------------------
(* handleUpdateArtifact, as far as the grants are concerned *)

UpdateArtifact(t, x) ==
    /\ tx[t].pc = "idle"
    /\ version[x] > 0
    /\ tx' = [tx EXCEPT ![t] = [Idle EXCEPT !.op = "update", !.pc = "lock",
                                            !.target = x, !.ver = version[x]]]
    /\ UNCHANGED <<role, version, grants, spent>>

(* GetArtifactForUpdate, and the If-Match comparison *)
LockArtifact(t) ==
    /\ At(t, "update", "lock")
    /\ FreeToOwn(t, {TargetRow(tx[t].target)})
    /\ version[tx[t].target] = tx[t].ver
    /\ tx' = [tx EXCEPT ![t].pc = "grants",
                        ![t].own = @ \cup {TargetRow(tx[t].target)}]
    /\ UNCHANGED <<role, version, grants, spent>>

(* Mutant: ArtifactRoleGrants, the read without FOR UPDATE OF ae. *)
LockGrants_ReadOnly(t) ==
    /\ At(t, "update", "grants")
    /\ tx' = [tx EXCEPT ![t].pc = "write",
                        ![t].report = GrantsOf(tx[t].target)]
    /\ UNCHANGED <<role, version, grants, spent>>

(* Mutant: a bare FOR UPDATE locks the joined role rows too. *)
RowsOfGrantRead_Bare(x) ==
    GrantRows(GrantsOf(x)) \cup {RowOf(g[1]) : g \in GrantsOf(x)}

(* What the grant read locks: FOR UPDATE OF ae. *)
RowsOfGrantRead(x) == GrantRows(GrantsOf(x))

(* ArtifactRoleGrantsForUpdate: a row that is gone once its holder ends is  *)
(* passed by.                                                               *)
LockOneRow(t, row) ==
    /\ At(t, "update", "grants")
    /\ row \in RowsOfGrantRead(tx[t].target) \ tx[t].own
    /\ FreeToOwn(t, {row})
    /\ tx' = [tx EXCEPT ![t].own = @ \cup {row}]
    /\ UNCHANGED <<role, version, grants, spent>>

LockGrants(t) ==
    /\ At(t, "update", "grants")
    /\ RowsOfGrantRead(tx[t].target) \subseteq tx[t].own
    /\ tx' = [tx EXCEPT ![t].pc = "write",
                        ![t].report = GrantsOf(tx[t].target)]
    /\ UNCHANGED <<role, version, grants, spent>>

(* UpdateArtifact and maybeAutoApprove: the identity it writes, live and    *)
(* approved, may be one that another request has an entry of.               *)
WriteArtifact(t) ==
    /\ At(t, "update", "write")
    /\ tx' = [tx EXCEPT ![t].pc = "commit"]
    /\ UNCHANGED <<role, version, grants, spent>>

CommitUpdate(t) ==
    /\ At(t, "update", "commit")
    /\ version[tx[t].target] < MaxVersion
    /\ version' = [version EXCEPT ![tx[t].target] = @ + 1]
    /\ tx' = [tx EXCEPT ![t] = Idle]
    /\ UNCHANGED <<role, grants, spent>>

-----------------------------------------------------------------------------

Init ==
    /\ \E named \in [Roles -> Names \cup {None}] :
          /\ \A q, r \in Roles : named[q] # None /\ named[q] = named[r] => q = r
          /\ Cardinality({r \in Roles : named[r] # None}) <= RoleLimit
          /\ role = [r \in Roles |-> IF named[r] = None THEN NoRole
                                     ELSE [name |-> named[r], ver |-> 1]]
          /\ spent = {r \in Roles : named[r] # None}
    /\ version = [x \in Targets |-> 1]
    /\ grants = {}
    /\ tx = [t \in Txs |-> Idle]

Begin(t) ==
    \/ \E r \in Roles :
          \/ DeleteRole(t, r)
          \/ \E n \in Names : CreateRole(t, r, n) \/ RenameRole(t, r, n)
          \/ \E x \in Targets : Grant(t, r, x)
    \/ \E x \in Artifacts : UpdateArtifact(t, x)
    \/ \E x \in Targets : DeleteTarget(t, x)

Step(t) ==
    \/ CommitRole(t) \/ CommitGrant(t) \/ CommitDelete(t)
    \/ CommitRename(t) \/ CommitUpdate(t) \/ CommitDrop(t)
    \/ TakeName(t)
    \/ RoleExistsInTenant(t) \/ TargetExistsInTenant(t) \/ InsertGrant(t)
    \/ LockRole(t) \/ ReadServerGrants(t) \/ ReadArtifactGrants(t)
    \/ DeleteRow(t) \/ CascadeEnds(t) \/ \E g \in Grants : CascadeRow(t, g)
    \/ GetRole(t) \/ UpdateRoleName(t)
    \/ LockArtifact(t) \/ \E row \in Rows : LockOneRow(t, row)
    \/ LockGrants(t) \/ WriteArtifact(t)

Next ==
    \/ \E t \in Txs : Begin(t) \/ Step(t) \/ Abort(t)
    \/ \E g \in Grants : Revoke(g)

Spec == Init /\ [][Next]_vars

-----------------------------------------------------------------------------
(* The role.delete audit row leaves out nothing the cascade destroys: a     *)
(* grant made while the deletion was on its way is in the report, or waits  *)
(* for it (DeleteRole's FOR UPDATE before its reads, and                    *)
(* RoleExistsInTenant's FOR SHARE). The converse fails: a grant revoked     *)
(* between the read and the DELETE is in the report all the same.           *)
RevokedReportComplete ==
    \A t \in Txs : At(t, "delete", "commit") => tx[t].gone \subseteq tx[t].report

(* The roles an artifact.update audit row names are those that hold a       *)
(* grant at the moment it commits: none was added, revoked or cascaded away *)
(* since they were read (handleUpdateArtifact, ArtifactRoleGrantsForUpdate).*)
(* The comment there gives up on the cascade of a role's deletion; but that *)
(* too must delete the rows that the read has locked, and waits.            *)
UpdateReportExact ==
    \A t \in Txs :
        At(t, "update", "commit") => tx[t].report = GrantsOf(tx[t].target)

(* The "from" of a role.rename audit row is the name the rename replaces,   *)
(* although handleUpdateRole reads it outside the transaction.              *)
RenameReportTrue ==
    \A t \in Txs :
        At(t, "rename", "commit") => tx[t].from = role[tx[t].role].name

(* The rows a request's next statement takes. *)
WantsToOwn(t) ==
    CASE At(t, "delete", "lock") \/ At(t, "delete", "delete")
           \/ At(t, "rename", "update")  -> {RowOf(tx[t].role)}
      [] Cascading(t)                    -> GrantRows(Doomed(t))
      [] At(t, "update", "lock")         -> {TargetRow(tx[t].target)}
      [] At(t, "update", "grants")       -> RowsOfGrantRead(tx[t].target)
      [] OTHER                           -> {}

WantsToShare(t) ==
    CASE At(t, "grant", "role")   -> {RowOf(tx[t].role)}
      [] At(t, "grant", "target") -> {TargetRow(tx[t].target)}
      [] OTHER                    -> {}

Writing(t) == At(t, "update", "write")

(* The index entries of another artifact that is written or deleted. *)
IdentityHeld(u) ==
    Writing(u) \/ At(u, "update", "commit") \/ tx[u].op = "drop"

(* t may have to wait for u: for a row, or for an index entry. *)
WaitsFor(t, u) ==
    /\ t # u
    /\ \/ (tx[u].own \cup tx[u].share) \cap WantsToOwn(t) # {}
       \/ tx[u].own \cap WantsToShare(t) # {}
       \/ Naming(t) /\ NameHeld(u, tx[t].name)
       \/ At(t, "grant", "insert") /\ PairHeld(u, Pair(t))
       \/ Writing(t) /\ IdentityHeld(u)

(* No two admin requests wait for each other, whatever they do, but two     *)
(* that rename: roles or artifacts that swap names wait for each other's    *)
(* old index entry, and Postgres ends one of them. The grant read locks the *)
(* grant rows alone, because a request that held them and waited for a role *)
(* would close a cycle with DeleteRole (artifact_entitlement.go:280).       *)
NoMutualWait ==
    \A t, u \in Txs : WaitsFor(t, u) /\ WaitsFor(u, t) =>
        (Naming(t) /\ Naming(u)) \/ (Writing(t) /\ Writing(u))

=============================================================================
