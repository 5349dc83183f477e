-------------------------- MODULE RoleGrants_proofs --------------------------
(***************************************************************************)
(* What the audit rows of role deletions, artifact updates and renames say, *)
(* proved for any number of roles, targets and concurrent requests, and     *)
(* that no two requests wait for each other but two that swap names.        *)
(*                                                                          *)
(* None of the three reports is inductive: each holds at the commit because *)
(* of the rows its request has locked since, so the proof carries, for      *)
(* every handler, what it holds and what it has read (its frame). A step of *)
(* one request keeps the frame of another because two requests never own    *)
(* the same row (TypeOK). Waiting needs the converse too: no request holds  *)
(* more than its handler takes (Held).                                      *)
(***************************************************************************)
EXTENDS RoleGrants, TLAPS

(* handleCreateRole: the new id is nobody's yet. *)
CreateFrame(t) ==
    tx[t].op = "create" =>
        /\ tx[t].role \in Roles \cap spent /\ tx[t].name \in Names
        /\ ~Exists(tx[t].role)

(* handleCreateEntitlement: the parents are locked, and there. *)
GrantFrame(t) ==
    tx[t].op = "grant" =>
        /\ tx[t].role \in Roles /\ tx[t].target \in Targets
        /\ tx[t].pc \in {"target", "insert", "commit"} =>
              RowOf(tx[t].role) \in tx[t].share /\ Exists(tx[t].role)
        /\ tx[t].pc \in {"insert", "commit"} =>
              TargetRow(tx[t].target) \in tx[t].share /\ version[tx[t].target] > 0

(* handleDeleteRole: the role row is owned before the grants are read. *)
DeleteFrame(t) ==
    tx[t].op = "delete" =>
        /\ tx[t].role \in Roles
        /\ tx[t].pc # "lock" => RowOf(tx[t].role) \in tx[t].own
        /\ tx[t].pc = "artifacts" =>
              \A g \in GrantsOfRole(tx[t].role) : g[2] \in Servers => g \in tx[t].report
        /\ tx[t].pc \in {"delete", "cascade", "commit"} =>
              GrantsOfRole(tx[t].role) \subseteq tx[t].report
        /\ tx[t].pc = "commit" => /\ tx[t].gone = GrantsOfRole(tx[t].role)
                                  /\ \A g \in tx[t].gone : GrantRow(g) \in tx[t].own

(* handleUpdateRole: the name read is that of the version asked for, or of  *)
(* a later one, which the update refuses.                                   *)
RenameFrame(t) ==
    tx[t].op = "rename" =>
        /\ tx[t].role \in Roles \cap spent /\ tx[t].name \in Names
        /\ Exists(tx[t].role) => tx[t].ver <= role[tx[t].role].ver
        /\ (tx[t].pc \in {"update", "name", "commit"} /\ Exists(tx[t].role)
              /\ role[tx[t].role].ver = tx[t].ver)
              => role[tx[t].role].name = tx[t].from
        /\ tx[t].pc \in {"name", "commit"} => /\ RowOf(tx[t].role) \in tx[t].own
                                              /\ Exists(tx[t].role)
                                              /\ role[tx[t].role].ver = tx[t].ver

(* handleUpdateArtifact: the artifact row, then the grant rows, are owned. *)
UpdateFrame(t) ==
    tx[t].op = "update" =>
        /\ tx[t].target \in Targets
        /\ tx[t].pc # "lock" => TargetRow(tx[t].target) \in tx[t].own
        /\ tx[t].pc \in {"write", "commit"} =>
              /\ tx[t].report = GrantsOf(tx[t].target)
              /\ \A g \in tx[t].report : GrantRow(g) \in tx[t].own

(* handleDeleteArtifact: the row, then the grant rows, are owned. *)
DropFrame(t) ==
    tx[t].op = "drop" =>
        /\ tx[t].target \in Targets
        /\ TargetRow(tx[t].target) \in tx[t].own
        /\ tx[t].pc = "commit" => /\ tx[t].gone = GrantsOf(tx[t].target)
                                  /\ \A g \in tx[t].gone : GrantRow(g) \in tx[t].own

(* A request with an entry in the index of names has its name for itself.   *)
TakenBy(f) == f.op \in {"create", "rename"} /\ f.pc = "commit"

NameFrame(t) ==
    TakenBy(tx[t]) => \A q \in Roles \ {tx[t].role} : role[q].name # tx[t].name

Frame(t) ==
    /\ CreateFrame(t) /\ GrantFrame(t) /\ DeleteFrame(t)
    /\ RenameFrame(t) /\ UpdateFrame(t) /\ DropFrame(t) /\ NameFrame(t)

(* Nobody renames or creates a role whose id another request has just made. *)
FreshIds ==
    \A t, u \in Txs :
        t # u /\ tx[t].op = "create" /\ tx[u].op \in {"create", "rename"}
            => tx[t].role # tx[u].role

(* No two requests have an entry for the same name. *)
NamesApart ==
    \A t, u \in Txs :
        t # u /\ TakenBy(tx[t]) /\ TakenBy(tx[u]) => tx[t].name # tx[u].name

(* What the frames rest on and what they say, for every request. *)
IInv == TypeOK /\ FreshIds /\ NamesApart /\ \A t \in Txs : Frame(t)

-----------------------------------------------------------------------------

(* Rows of roles, targets and grants are rows. *)
LEMMA RowsAreRows ==
    /\ \A r \in Roles : RowOf(r) \in Rows
    /\ \A x \in Targets : TargetRow(x) \in Rows
    /\ \A g \in Grants : GrantRow(g) \in Rows
  BY DEF Rows

(* The empty frame is a request, and its frame says nothing. *)
LEMMA IdleType == Idle \in Request
  BY GrantAssumption DEF Idle, Request, Versions

(* Versions are naturals. *)
LEMMA VersionsNat == 0 \in Versions /\ 1 \in Versions /\ Versions \subseteq Nat
  BY GrantAssumption DEF Versions

(* A request that is not touched keeps its frame while the tables stand. *)
LEMMA QuietFrame ==
    ASSUME NEW u \in Txs, Frame(u), tx'[u] = tx[u],
           UNCHANGED <<role, version, grants>>, spent \subseteq spent'
    PROVE  Frame(u)'
  <1>1. CreateFrame(u)' BY DEF Frame, CreateFrame, Exists
  <1>2. GrantFrame(u)' BY DEF Frame, GrantFrame, Exists
  <1>3. DeleteFrame(u)' BY DEF Frame, DeleteFrame, GrantsOfRole
  <1>4. RenameFrame(u)' BY DEF Frame, RenameFrame, Exists
  <1>5. UpdateFrame(u)' BY DEF Frame, UpdateFrame, GrantsOf
  <1>6. DropFrame(u)' BY DEF Frame, DropFrame, GrantsOf
  <1>7. NameFrame(u)' BY DEF Frame, NameFrame
  <1> QED BY <1>1, <1>2, <1>3, <1>4, <1>5, <1>6, <1>7 DEF Frame

(* What a step of one request that writes no table has to show. *)
LEMMA QuietStep ==
    ASSUME IInv, NEW t \in Txs,
           UNCHANGED <<role, version, grants>>,
           spent \subseteq spent', spent' \subseteq Roles,
           tx' \in [Txs -> Request],
           \A u \in Txs \ {t} : tx'[u] = tx[u],
           \A u \in Txs \ {t} :
              /\ tx'[t].own \cap (tx[u].own \cup tx[u].share) = {}
              /\ tx'[t].share \cap tx[u].own = {},
           \A u \in Txs \ {t} :
              /\ tx'[t].op = "create" /\ tx[u].op \in {"create", "rename"}
                    => tx'[t].role # tx[u].role
              /\ tx[u].op = "create" /\ tx'[t].op \in {"create", "rename"}
                    => tx'[t].role # tx[u].role,
           \A u \in Txs \ {t} :
              TakenBy(tx'[t]) /\ TakenBy(tx[u]) => tx'[t].name # tx[u].name,
           Frame(t)'
    PROVE  IInv'
  <1>1. TypeOK'
    <2>1. \A v, u \in Txs : v # u => tx'[v].own \cap (tx'[u].own \cup tx'[u].share) = {}
      <3> SUFFICES ASSUME NEW v \in Txs, NEW u \in Txs, v # u
                   PROVE  tx'[v].own \cap (tx'[u].own \cup tx'[u].share) = {}
        OBVIOUS
      <3>1. CASE v = t BY <3>1
      <3>2. CASE u = t BY <3>2
      <3>3. CASE v # t /\ u # t BY <3>3 DEF IInv, TypeOK
      <3> QED BY <3>1, <3>2, <3>3
    <2> QED BY <2>1 DEF IInv, TypeOK, Exists
  <1>2. FreshIds'
    <2> SUFFICES ASSUME NEW v \in Txs, NEW u \in Txs, v # u, tx'[v].op = "create",
                        tx'[u].op \in {"create", "rename"}
                 PROVE  tx'[v].role # tx'[u].role
      BY DEF FreshIds
    <2>1. CASE v = t BY <2>1
    <2>2. CASE u = t BY <2>2
    <2>3. CASE v # t /\ u # t BY <2>3 DEF IInv, FreshIds
    <2> QED BY <2>1, <2>2, <2>3
  <1>3. NamesApart'
    <2> SUFFICES ASSUME NEW v \in Txs, NEW u \in Txs, v # u, TakenBy(tx'[v]), TakenBy(tx'[u])
                 PROVE  tx'[v].name # tx'[u].name
      BY DEF NamesApart, TakenBy
    <2>1. CASE v = t BY <2>1
    <2>2. CASE u = t BY <2>2
    <2>3. CASE v # t /\ u # t BY <2>3 DEF IInv, NamesApart
    <2> QED BY <2>1, <2>2, <2>3
  <1>4. \A u \in Txs : Frame(u)'
    BY QuietFrame DEF IInv
  <1> QED BY <1>1, <1>2, <1>3, <1>4 DEF IInv

(* A request begins, with no lock. *)
LEMMA BeginStep ==
    ASSUME IInv, NEW t \in Txs, NEW f \in Request,
           tx' = [tx EXCEPT ![t] = f], f.own = {}, f.share = {}, ~TakenBy(f),
           UNCHANGED <<role, version, grants>>,
           spent \subseteq spent', spent' \subseteq Roles,
           \A u \in Txs \ {t} :
              /\ f.op = "create" /\ tx[u].op \in {"create", "rename"}
                    => f.role # tx[u].role
              /\ tx[u].op = "create" /\ f.op \in {"create", "rename"}
                    => f.role # tx[u].role,
           Frame(t)'
    PROVE  IInv'
  <1>1. tx \in [Txs -> Request]
    BY DEF IInv, TypeOK
  <1>2. tx'[t] = f /\ tx' \in [Txs -> Request] /\ \A u \in Txs \ {t} : tx'[u] = tx[u]
    BY <1>1
  <1>3. \A u \in Txs \ {t} :
              /\ tx'[t].own \cap (tx[u].own \cup tx[u].share) = {}
              /\ tx'[t].share \cap tx[u].own = {}
    BY <1>2
  <1>4. \A u \in Txs \ {t} :
              /\ tx'[t].op = "create" /\ tx[u].op \in {"create", "rename"}
                    => tx'[t].role # tx[u].role
              /\ tx[u].op = "create" /\ tx'[t].op \in {"create", "rename"}
                    => tx'[t].role # tx[u].role
    BY <1>2
  <1>5. ~TakenBy(tx'[t])
    BY <1>2
  <1> QED BY <1>2, <1>3, <1>4, <1>5, QuietStep

(* A request goes on: it moves to a next statement, with locks nobody else  *)
(* holds against it.                                                        *)
LEMMA GoOnStep ==
    ASSUME IInv, NEW t \in Txs, NEW f \in Request,
           tx' = [tx EXCEPT ![t] = f],
           f.op = tx[t].op, f.role = tx[t].role,
           NEW rows \in SUBSET Rows, FreeToOwn(t, rows), f.own = tx[t].own \cup rows,
           NEW shared \in SUBSET Rows, FreeToShare(t, shared),
           f.share = tx[t].share \cup shared,
           \A u \in Txs \ {t} : TakenBy(f) /\ TakenBy(tx[u]) => f.name # tx[u].name,
           UNCHANGED <<role, version, grants, spent>>,
           Frame(t)'
    PROVE  IInv'
  <1>1. tx \in [Txs -> Request]
    BY DEF IInv, TypeOK
  <1>2. tx'[t] = f /\ tx' \in [Txs -> Request] /\ \A u \in Txs \ {t} : tx'[u] = tx[u]
    BY <1>1
  <1>3. ASSUME NEW u \in Txs \ {t}
        PROVE  /\ tx'[t].own \cap (tx[u].own \cup tx[u].share) = {}
               /\ tx'[t].share \cap tx[u].own = {}
    <2>1. tx[t].own \cap (tx[u].own \cup tx[u].share) = {} /\ tx[t].share \cap tx[u].own = {}
      BY DEF IInv, TypeOK
    <2>2. rows \cap (tx[u].own \cup tx[u].share) = {} /\ shared \cap tx[u].own = {}
      BY DEF FreeToOwn, FreeToShare
    <2> QED BY <1>2, <2>1, <2>2
  <1>4. \A u \in Txs \ {t} :
              /\ tx'[t].op = "create" /\ tx[u].op \in {"create", "rename"}
                    => tx'[t].role # tx[u].role
              /\ tx[u].op = "create" /\ tx'[t].op \in {"create", "rename"}
                    => tx'[t].role # tx[u].role
    BY <1>2 DEF IInv, FreshIds
  <1>5. spent' \subseteq Roles
    BY DEF IInv, TypeOK
  <1>6. \A u \in Txs \ {t} : TakenBy(tx'[t]) /\ TakenBy(tx[u]) => tx'[t].name # tx[u].name
    BY <1>2
  <1> QED BY <1>2, <1>3, <1>4, <1>5, <1>6, QuietStep

(* A request that is over has a frame that says nothing. *)
LEMMA IdleFrame ==
    ASSUME NEW t \in Txs, tx'[t] = Idle PROVE Frame(t)'
  BY DEF Frame, CreateFrame, GrantFrame, DeleteFrame, RenameFrame, UpdateFrame, DropFrame,
         NameFrame, TakenBy, Idle

(* Rolling back loses the locks and nothing else. *)
LEMMA AbortKeeps ==
    ASSUME IInv, NEW t \in Txs, Abort(t) PROVE IInv'
  <1>1. tx \in [Txs -> Request] /\ spent \subseteq Roles
    BY DEF IInv, TypeOK
  <1>2. tx' = [tx EXCEPT ![t] = Idle] /\ UNCHANGED <<role, version, grants, spent>>
    BY DEF Abort
  <1>3. Frame(t)'
    BY <1>1, <1>2, IdleFrame
  <1>4. Idle.own = {} /\ Idle.share = {} /\ Idle.op = "none" /\ ~TakenBy(Idle)
    BY DEF Idle, TakenBy
  <1> QED BY <1>1, <1>2, <1>3, <1>4, IdleType, BeginStep

(* The first step of each handler. *)
LEMMA BeginKeeps ==
    ASSUME IInv, NEW t \in Txs, Begin(t) PROVE IInv'
  <1> USE GrantAssumption, VersionsNat
  <1>1. /\ tx \in [Txs -> Request] /\ spent \subseteq Roles
        /\ \A u \in Txs : Frame(u)
        /\ role \in [Roles -> [name : Names \cup {None}, ver : Versions]]
        /\ version \in [Targets -> Versions]
        /\ \A r \in Roles : Exists(r) => r \in spent
    BY DEF IInv, TypeOK
  <1>2. ASSUME NEW r \in Roles, DeleteRole(t, r) PROVE IInv'
    <2> DEFINE f == [Idle EXCEPT !.op = "delete", !.pc = "lock", !.role = r]
    <2>1. /\ f \in Request /\ f.own = {} /\ f.share = {} /\ f.op = "delete"
          /\ f.pc = "lock" /\ f.role = r
          /\ ~TakenBy(f)
      BY IdleType DEF Idle, Request, TakenBy
    <2>2. tx' = [tx EXCEPT ![t] = f] /\ UNCHANGED <<role, version, grants, spent>>
      BY <1>2 DEF DeleteRole
    <2> HIDE DEF f
    <2>3. tx'[t] = f
      BY <1>1, <2>2
    <2>4. Frame(t)'
      BY <2>1, <2>3 DEF Frame, CreateFrame, GrantFrame, DeleteFrame, RenameFrame, UpdateFrame,
             DropFrame, NameFrame, TakenBy
    <2> QED BY <1>1, <2>1, <2>2, <2>4, BeginStep
  <1>3. ASSUME NEW r \in Roles, NEW n \in Names, CreateRole(t, r, n) PROVE IInv'
    <2> DEFINE f == [Idle EXCEPT !.op = "create", !.pc = "name", !.role = r, !.name = n]
    <2>1. /\ f \in Request /\ f.own = {} /\ f.share = {} /\ f.op = "create"
          /\ f.role = r /\ f.name = n
          /\ ~TakenBy(f)
      BY IdleType DEF Idle, Request, TakenBy
    <2>2. /\ tx' = [tx EXCEPT ![t] = f] /\ UNCHANGED <<role, version, grants>>
          /\ r \notin spent /\ spent' = spent \cup {r}
      BY <1>3 DEF CreateRole
    <2> HIDE DEF f
    <2>3. tx'[t] = f
      BY <1>1, <2>2
    <2>4. ~Exists(r)'
      BY <1>1, <2>2 DEF Exists
    <2>5. Frame(t)'
      BY <2>1, <2>2, <2>3, <2>4 DEF Frame, CreateFrame, GrantFrame, DeleteFrame, RenameFrame, UpdateFrame,
             DropFrame, NameFrame, TakenBy, Exists
    <2>6. \A u \in Txs : tx[u].op \in {"create", "rename"} => tx[u].role # r
      BY <1>1, <2>2 DEF Frame, CreateFrame, RenameFrame
    <2> QED BY <1>1, <2>1, <2>2, <2>5, <2>6, BeginStep
  <1>4. ASSUME NEW r \in Roles, NEW n \in Names, RenameRole(t, r, n) PROVE IInv'
    <2> DEFINE f == [Idle EXCEPT !.op = "rename", !.pc = "read", !.role = r, !.name = n,
                                 !.ver = role[r].ver]
    <2>1. role[r].ver \in Versions
      BY <1>1
    <2>2. /\ f \in Request /\ f.own = {} /\ f.share = {} /\ f.op = "rename" /\ f.pc = "read"
          /\ f.role = r /\ f.name = n /\ f.ver = role[r].ver
          /\ ~TakenBy(f)
      BY <2>1, IdleType DEF Idle, Request, TakenBy
    <2>3. /\ tx' = [tx EXCEPT ![t] = f] /\ UNCHANGED <<role, version, grants, spent>>
          /\ Exists(r)
      BY <1>4 DEF RenameRole
    <2> HIDE DEF f
    <2>4. tx'[t] = f
      BY <1>1, <2>3
    <2>5. r \in spent
      BY <1>1, <2>3
    <2>6. f.ver <= role[r].ver
      <3>1. role[r].ver \in Nat
        BY <2>1, VersionsNat
      <3> QED BY <2>2, <3>1
    <2>7. Frame(t)'
      BY <2>2, <2>3, <2>4, <2>5, <2>6 DEF Frame, CreateFrame, GrantFrame, DeleteFrame, RenameFrame, UpdateFrame,
             DropFrame, NameFrame, TakenBy
    <2>8. \A u \in Txs : tx[u].op = "create" => tx[u].role # r
      BY <1>1, <2>3 DEF Frame, CreateFrame
    <2>9. \A u \in Txs \ {t} :
              /\ f.op = "create" /\ tx[u].op \in {"create", "rename"}
                    => f.role # tx[u].role
              /\ tx[u].op = "create" /\ f.op \in {"create", "rename"}
                    => f.role # tx[u].role
      BY <2>2, <2>8
    <2>10. spent \subseteq spent' /\ spent' \subseteq Roles
      BY <1>1, <2>3
    <2> QED BY <2>2, <2>3, <2>7, <2>9, <2>10, BeginStep
  <1>5. ASSUME NEW r \in Roles, NEW x \in Targets, Grant(t, r, x) PROVE IInv'
    <2> DEFINE f == [Idle EXCEPT !.op = "grant", !.pc = "role", !.role = r, !.target = x]
    <2>1. /\ f \in Request /\ f.own = {} /\ f.share = {} /\ f.op = "grant" /\ f.pc = "role"
          /\ f.role = r /\ f.target = x
          /\ ~TakenBy(f)
      BY IdleType DEF Idle, Request, TakenBy
    <2>2. tx' = [tx EXCEPT ![t] = f] /\ UNCHANGED <<role, version, grants, spent>>
      BY <1>5 DEF Grant
    <2> HIDE DEF f
    <2>3. tx'[t] = f
      BY <1>1, <2>2
    <2>4. Frame(t)'
      BY <2>1, <2>3 DEF Frame, CreateFrame, GrantFrame, DeleteFrame, RenameFrame, UpdateFrame,
             DropFrame, NameFrame, TakenBy
    <2> QED BY <1>1, <2>1, <2>2, <2>4, BeginStep
  <1>6. ASSUME NEW x \in Artifacts, UpdateArtifact(t, x) PROVE IInv'
    <2> DEFINE f == [Idle EXCEPT !.op = "update", !.pc = "lock", !.target = x,
                                 !.ver = version[x]]
    <2>1. x \in Targets /\ version[x] \in Versions
      BY <1>1 DEF Targets
    <2>2. /\ f \in Request /\ f.own = {} /\ f.share = {} /\ f.op = "update"
          /\ f.pc = "lock" /\ f.target = x
          /\ ~TakenBy(f)
      BY <2>1, IdleType DEF Idle, Request, TakenBy
    <2>3. tx' = [tx EXCEPT ![t] = f] /\ UNCHANGED <<role, version, grants, spent>>
      BY <1>6 DEF UpdateArtifact
    <2> HIDE DEF f
    <2>4. tx'[t] = f
      BY <1>1, <2>3
    <2>5. Frame(t)'
      BY <2>1, <2>2, <2>4 DEF Frame, CreateFrame, GrantFrame, DeleteFrame, RenameFrame, UpdateFrame,
             DropFrame, NameFrame, TakenBy
    <2> QED BY <1>1, <2>2, <2>3, <2>5, BeginStep
  <1>7. ASSUME NEW x \in Targets, DeleteTarget(t, x) PROVE IInv'
    <2> DEFINE f == [Idle EXCEPT !.op = "drop", !.pc = "cascade", !.target = x,
                                 !.own = {TargetRow(x)}]
    <2>1. {TargetRow(x)} \in SUBSET Rows
      BY RowsAreRows
    <2>2. /\ f \in Request /\ f.own = {TargetRow(x)} /\ f.share = {} /\ f.op = "drop"
          /\ f.pc = "cascade" /\ f.target = x /\ ~TakenBy(f)
      BY <2>1, IdleType DEF Idle, Request, TakenBy
    <2>3. /\ tx' = [tx EXCEPT ![t] = f] /\ UNCHANGED <<role, version, grants, spent>>
          /\ FreeToOwn(t, {TargetRow(x)})
      BY <1>7 DEF DeleteTarget
    <2> HIDE DEF f
    <2>4. tx'[t] = f /\ tx' \in [Txs -> Request] /\ \A u \in Txs \ {t} : tx'[u] = tx[u]
      BY <1>1, <2>2, <2>3
    <2>5. Frame(t)'
      BY <2>2, <2>4 DEF Frame, CreateFrame, GrantFrame, DeleteFrame, RenameFrame, UpdateFrame,
             DropFrame, NameFrame, TakenBy
    <2>6. \A u \in Txs \ {t} :
              /\ tx'[t].own \cap (tx[u].own \cup tx[u].share) = {}
              /\ tx'[t].share \cap tx[u].own = {}
      BY <2>2, <2>3, <2>4 DEF FreeToOwn
    <2>7. tx'[t].op = "drop" /\ ~TakenBy(tx'[t])
      BY <2>2, <2>4
    <2> QED BY <1>1, <2>3, <2>4, <2>5, <2>6, <2>7, QuietStep
  <1> QED BY <1>2, <1>3, <1>4, <1>5, <1>6, <1>7 DEF Begin

(* Nobody stands in the way of no lock. *)
LEMMA FreeNothing == \A t \in Txs : FreeToOwn(t, {}) /\ FreeToShare(t, {})
  BY DEF FreeToOwn, FreeToShare

(* The statements of a grant: two shared rows, and the insert. *)
LEMMA GrantKeeps ==
    ASSUME IInv, NEW t \in Txs,
           RoleExistsInTenant(t) \/ TargetExistsInTenant(t) \/ InsertGrant(t)
    PROVE  IInv'
  <1>1. tx \in [Txs -> Request] /\ Frame(t) /\ tx[t] \in Request
    BY DEF IInv, TypeOK
  <1>2. tx[t].op = "grant" /\ UNCHANGED <<role, version, grants, spent>>
    BY DEF RoleExistsInTenant, TargetExistsInTenant, InsertGrant, At
  <1>3. tx[t].role \in Roles /\ tx[t].target \in Targets /\ GrantFrame(t)
    BY <1>1, <1>2 DEF Frame, GrantFrame
  <1>4. ASSUME NEW f \in Request, tx' = [tx EXCEPT ![t] = f],
               f.op = "grant", f.role = tx[t].role, f.target = tx[t].target,
               f.own = tx[t].own,
               NEW rows \in SUBSET Rows, FreeToShare(t, rows), f.share = tx[t].share \cup rows,
               f.pc # "role", RowOf(f.role) \in f.share, Exists(f.role),
               f.pc \in {"insert", "commit"} =>
                 TargetRow(f.target) \in f.share /\ version[f.target] > 0
        PROVE  IInv'
    <2>1. tx'[t] = f
      BY <1>1, <1>4
    <2>2. GrantFrame(t)'
      BY <1>2, <1>3, <1>4, <2>1 DEF GrantFrame, Exists
    <2>3. Frame(t)'
      BY <1>4, <2>1, <2>2 DEF Frame, CreateFrame, DeleteFrame, RenameFrame, UpdateFrame,
                              DropFrame, NameFrame, TakenBy
    <2>4. {} \in SUBSET Rows /\ FreeToOwn(t, {}) /\ f.own = tx[t].own \cup {} /\ ~TakenBy(f)
      BY <1>4, FreeNothing DEF TakenBy
    <2> QED BY <1>2, <1>4, <2>3, <2>4, GoOnStep
  <1>5. CASE RoleExistsInTenant(t)
    <2> DEFINE f == [tx[t] EXCEPT !.pc = "target", !.share = @ \cup {RowOf(tx[t].role)}]
    <2>1. /\ tx' = [tx EXCEPT ![t] = f] /\ FreeToShare(t, {RowOf(tx[t].role)})
          /\ Exists(tx[t].role)
      BY <1>1, <1>5 DEF RoleExistsInTenant, Request
    <2>2. {RowOf(tx[t].role)} \in SUBSET Rows
      BY <1>3, RowsAreRows
    <2>3. /\ f \in Request /\ f.op = "grant" /\ f.role = tx[t].role /\ f.target = tx[t].target
          /\ f.own = tx[t].own /\ f.share = tx[t].share \cup {RowOf(tx[t].role)}
          /\ f.pc = "target"
      BY <1>1, <1>2, <2>2 DEF Request
    <2> HIDE DEF f
    <2> QED BY <2>1, <2>2, <2>3, <1>4
  <1>6. CASE TargetExistsInTenant(t)
    <2> DEFINE f == [tx[t] EXCEPT !.pc = "insert", !.share = @ \cup {TargetRow(tx[t].target)}]
    <2>1. /\ tx' = [tx EXCEPT ![t] = f] /\ FreeToShare(t, {TargetRow(tx[t].target)})
          /\ version[tx[t].target] > 0 /\ tx[t].pc = "target"
      BY <1>1, <1>6 DEF TargetExistsInTenant, Request, At
    <2>2. {TargetRow(tx[t].target)} \in SUBSET Rows
      BY <1>3, RowsAreRows
    <2>3. /\ f \in Request /\ f.op = "grant" /\ f.role = tx[t].role /\ f.target = tx[t].target
          /\ f.own = tx[t].own /\ f.share = tx[t].share \cup {TargetRow(tx[t].target)}
          /\ f.pc = "insert"
      BY <1>1, <1>2, <2>2 DEF Request
    <2>4. RowOf(f.role) \in f.share /\ Exists(f.role)
      BY <1>2, <1>3, <2>1, <2>3 DEF GrantFrame
    <2> HIDE DEF f
    <2> QED BY <2>1, <2>2, <2>3, <2>4, <1>4
  <1>7. CASE InsertGrant(t)
    <2> DEFINE f == [tx[t] EXCEPT !.pc = "commit"]
    <2>1. tx' = [tx EXCEPT ![t] = f] /\ tx[t].pc = "insert"
      BY <1>1, <1>7 DEF InsertGrant, Request, At
    <2>2. /\ f \in Request /\ f.op = "grant" /\ f.role = tx[t].role /\ f.target = tx[t].target
          /\ f.own = tx[t].own /\ f.share = tx[t].share \cup {} /\ f.pc = "commit"
      BY <1>1, <1>2 DEF Request
    <2>3. /\ RowOf(f.role) \in f.share /\ Exists(f.role)
          /\ TargetRow(f.target) \in f.share /\ version[f.target] > 0
      BY <1>2, <1>3, <2>1, <2>2 DEF GrantFrame
    <2>4. {} \in SUBSET Rows /\ FreeToShare(t, {})
      BY FreeNothing
    <2> HIDE DEF f
    <2> QED BY <2>1, <2>2, <2>3, <2>4, <1>4
  <1> QED BY <1>5, <1>6, <1>7

(* The statements of a role's deletion. *)
LEMMA DeleteKeeps ==
    ASSUME IInv, NEW t \in Txs,
           \/ LockRole(t) \/ ReadServerGrants(t) \/ ReadArtifactGrants(t) \/ DeleteRow(t)
           \/ tx[t].op = "delete" /\ (CascadeEnds(t) \/ \E g \in Grants : CascadeRow(t, g))
    PROVE  IInv'
  <1>1. /\ tx \in [Txs -> Request] /\ Frame(t) /\ tx[t] \in Request
        /\ grants \subseteq Grants
    BY DEF IInv, TypeOK
  <1>2. tx[t].op = "delete" /\ UNCHANGED <<role, version, grants, spent>>
    BY DEF LockRole, ReadServerGrants, ReadArtifactGrants, DeleteRow, CascadeEnds, CascadeRow, At
  <1>3. tx[t].role \in Roles /\ DeleteFrame(t)
    BY <1>1, <1>2 DEF Frame, DeleteFrame
  <1> DEFINE r == tx[t].role
  <1>4. GrantsOfRole(r) \subseteq Grants
    BY <1>1 DEF GrantsOfRole
  <1>5. ASSUME NEW f \in Request, tx' = [tx EXCEPT ![t] = f],
               f.op = "delete", f.role = r, f.share = tx[t].share \cup {},
               NEW rows \in SUBSET Rows, FreeToOwn(t, rows), f.own = tx[t].own \cup rows,
               RowOf(r) \in f.own, f.pc # "lock",
               f.pc = "artifacts" => \A g \in GrantsOfRole(r) : g[2] \in Servers => g \in f.report,
               f.pc \in {"delete", "cascade", "commit"} => GrantsOfRole(r) \subseteq f.report,
               f.pc = "commit" => /\ f.gone = GrantsOfRole(r)
                                  /\ \A g \in f.gone : GrantRow(g) \in f.own
        PROVE  IInv'
    <2>1. tx'[t] = f
      BY <1>1, <1>5
    <2>2. DeleteFrame(t)'
      BY <1>2, <1>3, <1>5, <2>1 DEF DeleteFrame, GrantsOfRole
    <2>3. Frame(t)'
      BY <1>5, <2>1, <2>2 DEF Frame, CreateFrame, GrantFrame, RenameFrame, UpdateFrame,
                              DropFrame, NameFrame, TakenBy
    <2>4. FreeToShare(t, {}) /\ {} \in SUBSET Rows /\ ~TakenBy(f)
      BY <1>5, FreeNothing DEF TakenBy
    <2> QED BY <1>2, <1>5, <2>3, <2>4, GoOnStep
  <1>6. CASE LockRole(t)
    <2> DEFINE f == [tx[t] EXCEPT !.pc = "servers", !.own = @ \cup {RowOf(tx[t].role)}]
    <2>1. tx' = [tx EXCEPT ![t] = f] /\ FreeToOwn(t, {RowOf(r)})
      BY <1>1, <1>6 DEF LockRole, Request
    <2>2. {RowOf(r)} \in SUBSET Rows
      BY <1>3, RowsAreRows
    <2>3. /\ f \in Request /\ f.op = "delete" /\ f.role = r /\ f.share = tx[t].share \cup {}
          /\ f.own = tx[t].own \cup {RowOf(r)} /\ f.pc = "servers"
      BY <1>1, <1>2, <2>2 DEF Request
    <2> HIDE DEF f
    <2> QED BY <2>1, <2>2, <2>3, <1>5
  <1>7. CASE ReadServerGrants(t)
    <2> DEFINE R == {g \in GrantsOfRole(tx[t].role) : g[2] \in Servers}
               f == [tx[t] EXCEPT !.pc = "artifacts", !.report = R]
    <2>1. tx' = [tx EXCEPT ![t] = f] /\ tx[t].pc = "servers"
      BY <1>1, <1>7 DEF ReadServerGrants, Request, At
    <2>2. R \in SUBSET Grants
      BY <1>4
    <2>3. /\ f \in Request /\ f.op = "delete" /\ f.role = r /\ f.share = tx[t].share \cup {}
          /\ f.own = tx[t].own \cup {} /\ f.pc = "artifacts" /\ f.report = R
      BY <1>1, <1>2, <2>2 DEF Request
    <2>4. RowOf(r) \in f.own
      BY <1>2, <1>3, <2>1, <2>3 DEF DeleteFrame
    <2>5. \A g \in GrantsOfRole(r) : g[2] \in Servers => g \in f.report
      BY <2>3
    <2>6. {} \in SUBSET Rows /\ FreeToOwn(t, {})
      BY FreeNothing
    <2> HIDE DEF f
    <2> QED BY <2>1, <2>3, <2>4, <2>5, <2>6, <1>5
  <1>8. CASE ReadArtifactGrants(t)
    <2> DEFINE R == tx[t].report \cup {g \in GrantsOfRole(tx[t].role) : g[2] \in Artifacts}
               f == [tx[t] EXCEPT !.pc = "delete", !.report = R]
    <2>1. tx' = [tx EXCEPT ![t] = f] /\ tx[t].pc = "artifacts"
      BY <1>1, <1>8 DEF ReadArtifactGrants, Request, At
    <2>2. R \in SUBSET Grants
      BY <1>1, <1>4 DEF Request
    <2>3. /\ f \in Request /\ f.op = "delete" /\ f.role = r /\ f.share = tx[t].share \cup {}
          /\ f.own = tx[t].own \cup {} /\ f.pc = "delete" /\ f.report = R
      BY <1>1, <1>2, <2>2 DEF Request
    <2>4. RowOf(r) \in f.own
      BY <1>2, <1>3, <2>1, <2>3 DEF DeleteFrame
    <2>5. \A g \in GrantsOfRole(r) : g[2] \in Servers => g \in tx[t].report
      BY <1>2, <1>3, <2>1 DEF DeleteFrame
    <2>6. \A g \in GrantsOfRole(r) : g[2] \in Servers \cup Artifacts
      BY <1>4 DEF Grants, Targets
    <2>7. GrantsOfRole(r) \subseteq f.report
      BY <2>3, <2>5, <2>6
    <2>8. {} \in SUBSET Rows /\ FreeToOwn(t, {})
      BY FreeNothing
    <2> HIDE DEF f
    <2> QED BY <2>1, <2>3, <2>4, <2>7, <2>8, <1>5
  <1>9. CASE DeleteRow(t)
    <2> DEFINE f == [tx[t] EXCEPT !.pc = "cascade", !.own = @ \cup {RowOf(tx[t].role)}]
    <2>1. tx' = [tx EXCEPT ![t] = f] /\ tx[t].pc = "delete" /\ FreeToOwn(t, {RowOf(r)})
      BY <1>1, <1>9 DEF DeleteRow, Request, At
    <2>2. {RowOf(r)} \in SUBSET Rows
      BY <1>3, RowsAreRows
    <2>3. /\ f \in Request /\ f.op = "delete" /\ f.role = r /\ f.share = tx[t].share \cup {}
          /\ f.own = tx[t].own \cup {RowOf(r)} /\ f.pc = "cascade" /\ f.report = tx[t].report
      BY <1>1, <1>2, <2>2 DEF Request
    <2>4. GrantsOfRole(r) \subseteq f.report
      BY <1>2, <1>3, <2>1, <2>3 DEF DeleteFrame
    <2> HIDE DEF f
    <2> QED BY <2>1, <2>2, <2>3, <2>4, <1>5
  <1>10. ASSUME NEW g \in Grants, CascadeRow(t, g) PROVE IInv'
    <2> DEFINE f == [tx[t] EXCEPT !.own = @ \cup {GrantRow(g)}]
    <2>1. tx' = [tx EXCEPT ![t] = f] /\ tx[t].pc = "cascade" /\ FreeToOwn(t, {GrantRow(g)})
      BY <1>1, <1>2, <1>10 DEF CascadeRow, Cascading, Request, At
    <2>2. {GrantRow(g)} \in SUBSET Rows
      BY RowsAreRows
    <2>3. /\ f \in Request /\ f.op = "delete" /\ f.role = r /\ f.share = tx[t].share \cup {}
          /\ f.own = tx[t].own \cup {GrantRow(g)} /\ f.pc = "cascade" /\ f.report = tx[t].report
      BY <1>1, <1>2, <2>1, <2>2 DEF Request
    <2>4. GrantsOfRole(r) \subseteq f.report /\ RowOf(r) \in f.own
      BY <1>2, <1>3, <2>1, <2>3 DEF DeleteFrame
    <2> HIDE DEF f
    <2> QED BY <2>1, <2>2, <2>3, <2>4, <1>5
  <1>11. CASE tx[t].op = "delete" /\ CascadeEnds(t)
    <2> DEFINE gs == GrantsOfRole(tx[t].role)
               f == [tx[t] EXCEPT !.pc = "commit", !.gone = gs]
    <2>1. tx' = [tx EXCEPT ![t] = f] /\ tx[t].pc = "cascade" /\ GrantRows(gs) \subseteq tx[t].own
      BY <1>1, <1>11 DEF CascadeEnds, Cascading, Doomed, Request, At
    <2>2. gs \in SUBSET Grants
      BY <1>4
    <2>3. /\ f \in Request /\ f.op = "delete" /\ f.role = r /\ f.share = tx[t].share \cup {}
          /\ f.own = tx[t].own \cup {} /\ f.pc = "commit" /\ f.gone = gs
          /\ f.report = tx[t].report
      <3> HIDE DEF gs
      <3> QED BY <1>1, <1>2, <2>2 DEF Request
    <2>4. GrantsOfRole(r) \subseteq f.report /\ RowOf(r) \in f.own
      BY <1>2, <1>3, <2>1, <2>3 DEF DeleteFrame
    <2>5. \A g \in gs : GrantRow(g) \in f.own
      BY <2>1, <2>3 DEF GrantRows
    <2>6. {} \in SUBSET Rows /\ FreeToOwn(t, {})
      BY FreeNothing
    <2> HIDE DEF f
    <2> QED BY <2>1, <2>3, <2>4, <2>5, <2>6, <1>5
  <1> QED BY <1>6, <1>7, <1>8, <1>9, <1>10, <1>11

(* The cascade of a target's deletion. *)
LEMMA DropKeeps ==
    ASSUME IInv, NEW t \in Txs, tx[t].op = "drop",
           CascadeEnds(t) \/ \E g \in Grants : CascadeRow(t, g)
    PROVE  IInv'
  <1>1. /\ tx \in [Txs -> Request] /\ Frame(t) /\ tx[t] \in Request
        /\ grants \subseteq Grants
    BY DEF IInv, TypeOK
  <1>2. /\ DropFrame(t) /\ tx[t].target \in Targets /\ TargetRow(tx[t].target) \in tx[t].own
        /\ UNCHANGED <<role, version, grants, spent>>
    BY <1>1 DEF Frame, DropFrame, CascadeEnds, CascadeRow
  <1>3. ASSUME NEW f \in Request, tx' = [tx EXCEPT ![t] = f],
               f.op = "drop", f.role = tx[t].role, f.target = tx[t].target,
               f.share = tx[t].share \cup {},
               NEW rows \in SUBSET Rows, FreeToOwn(t, rows), f.own = tx[t].own \cup rows,
               f.pc = "commit" => /\ f.gone = GrantsOf(f.target)
                                  /\ \A g \in f.gone : GrantRow(g) \in f.own
        PROVE  IInv'
    <2>1. tx'[t] = f
      BY <1>1, <1>3
    <2>2. DropFrame(t)'
      BY <1>2, <1>3, <2>1 DEF DropFrame, GrantsOf
    <2>3. Frame(t)'
      BY <1>3, <2>1, <2>2 DEF Frame, CreateFrame, GrantFrame, DeleteFrame, RenameFrame,
                              UpdateFrame, NameFrame, TakenBy
    <2>4. FreeToShare(t, {}) /\ {} \in SUBSET Rows /\ ~TakenBy(f)
      BY <1>3, FreeNothing DEF TakenBy
    <2> QED BY <1>2, <1>3, <2>3, <2>4, GoOnStep
  <1>4. ASSUME NEW g \in Grants, CascadeRow(t, g) PROVE IInv'
    <2> DEFINE f == [tx[t] EXCEPT !.own = @ \cup {GrantRow(g)}]
    <2>1. tx' = [tx EXCEPT ![t] = f] /\ tx[t].pc = "cascade" /\ FreeToOwn(t, {GrantRow(g)})
      BY <1>1, <1>4 DEF CascadeRow, Cascading, Request, At
    <2>2. {GrantRow(g)} \in SUBSET Rows
      BY RowsAreRows
    <2>3. /\ f \in Request /\ f.op = "drop" /\ f.role = tx[t].role /\ f.target = tx[t].target
          /\ f.share = tx[t].share \cup {}
          /\ f.own = tx[t].own \cup {GrantRow(g)} /\ f.pc = "cascade"
      BY <1>1, <2>1, <2>2 DEF Request
    <2> HIDE DEF f
    <2> QED BY <2>1, <2>2, <2>3, <1>3
  <1>5. CASE CascadeEnds(t)
    <2> DEFINE gs == GrantsOf(tx[t].target)
               f == [tx[t] EXCEPT !.pc = "commit", !.gone = gs]
    <2>1. tx' = [tx EXCEPT ![t] = f] /\ GrantRows(gs) \subseteq tx[t].own
      BY <1>1, <1>5 DEF CascadeEnds, Doomed, Request
    <2>2. gs \in SUBSET Grants
      BY <1>1 DEF GrantsOf
    <2>3. /\ f \in Request /\ f.op = "drop" /\ f.role = tx[t].role /\ f.target = tx[t].target
          /\ f.share = tx[t].share \cup {}
          /\ f.own = tx[t].own \cup {} /\ f.pc = "commit" /\ f.gone = gs
      <3> HIDE DEF gs
      <3> QED BY <1>1, <2>2 DEF Request
    <2>4. \A g \in gs : GrantRow(g) \in f.own
      BY <2>1, <2>3 DEF GrantRows
    <2>5. {} \in SUBSET Rows /\ FreeToOwn(t, {})
      BY FreeNothing
    <2> HIDE DEF f
    <2> QED BY <2>1, <2>3, <2>4, <2>5, <1>3
  <1> QED BY <1>4, <1>5

(* The reads and the guarded update of a rename. *)
LEMMA RenameKeeps ==
    ASSUME IInv, NEW t \in Txs, GetRole(t) \/ UpdateRoleName(t)
    PROVE  IInv'
  <1>1. /\ tx \in [Txs -> Request] /\ Frame(t) /\ tx[t] \in Request
        /\ role \in [Roles -> [name : Names \cup {None}, ver : Versions]]
    BY DEF IInv, TypeOK
  <1>2. tx[t].op = "rename" /\ UNCHANGED <<role, version, grants, spent>>
    BY DEF GetRole, UpdateRoleName, At
  <1>3. RenameFrame(t) /\ tx[t].role \in Roles
    BY <1>1, <1>2 DEF Frame, RenameFrame
  <1>4. ASSUME NEW f \in Request, tx' = [tx EXCEPT ![t] = f],
               f.op = "rename", f.role = tx[t].role, f.name = tx[t].name, f.ver = tx[t].ver,
               f.share = tx[t].share \cup {},
               NEW rows \in SUBSET Rows, FreeToOwn(t, rows), f.own = tx[t].own \cup rows,
               role[f.role].ver = f.ver => role[f.role].name = f.from,
               f.pc = "name" => /\ RowOf(f.role) \in f.own /\ Exists(f.role)
                                /\ role[f.role].ver = f.ver,
               f.pc # "commit"
        PROVE  IInv'
    <2>1. tx'[t] = f
      BY <1>1, <1>4
    <2>2. RenameFrame(t)'
      BY <1>2, <1>3, <1>4, <2>1 DEF RenameFrame, Exists
    <2>3. Frame(t)'
      BY <1>4, <2>1, <2>2 DEF Frame, CreateFrame, GrantFrame, DeleteFrame, UpdateFrame,
                              DropFrame, NameFrame, TakenBy
    <2>4. FreeToShare(t, {}) /\ {} \in SUBSET Rows /\ ~TakenBy(f)
      BY <1>4, FreeNothing DEF TakenBy
    <2> QED BY <1>2, <1>4, <2>3, <2>4, GoOnStep
  <1>5. CASE GetRole(t)
    <2> DEFINE f == [tx[t] EXCEPT !.pc = "update", !.from = role[tx[t].role].name]
    <2>1. tx' = [tx EXCEPT ![t] = f]
      BY <1>1, <1>5 DEF GetRole, Request
    <2>2. role[tx[t].role].name \in Names \cup {None}
      BY <1>1, <1>3
    <2>3. /\ f \in Request /\ f.op = "rename" /\ f.role = tx[t].role /\ f.name = tx[t].name
          /\ f.ver = tx[t].ver /\ f.share = tx[t].share \cup {} /\ f.own = tx[t].own \cup {}
          /\ f.from = role[tx[t].role].name /\ f.pc = "update"
      BY <1>1, <1>2, <2>2 DEF Request
    <2>4. {} \in SUBSET Rows /\ FreeToOwn(t, {})
      BY FreeNothing
    <2> HIDE DEF f
    <2> QED BY <2>1, <2>3, <2>4, <1>4
  <1>6. CASE UpdateRoleName(t)
    <2> DEFINE f == [tx[t] EXCEPT !.pc = "name", !.own = @ \cup {RowOf(tx[t].role)}]
    <2>1. /\ tx' = [tx EXCEPT ![t] = f] /\ FreeToOwn(t, {RowOf(tx[t].role)})
          /\ tx[t].pc = "update" /\ Exists(tx[t].role) /\ role[tx[t].role].ver = tx[t].ver
      BY <1>1, <1>6 DEF UpdateRoleName, Request, At
    <2>2. {RowOf(tx[t].role)} \in SUBSET Rows
      BY <1>3, RowsAreRows
    <2>3. /\ f \in Request /\ f.op = "rename" /\ f.role = tx[t].role /\ f.name = tx[t].name
          /\ f.ver = tx[t].ver /\ f.share = tx[t].share \cup {}
          /\ f.own = tx[t].own \cup {RowOf(tx[t].role)}
          /\ f.from = tx[t].from /\ f.pc = "name"
      BY <1>1, <1>2, <2>2 DEF Request
    <2>4. role[f.role].name = f.from
      BY <1>2, <1>3, <2>1, <2>3 DEF RenameFrame
    <2> HIDE DEF f
    <2> QED BY <2>1, <2>2, <2>3, <2>4, <1>4
  <1> QED BY <1>5, <1>6

(* The entry in the index: the name is nobody else's, and stays so. *)
LEMMA NameKeeps ==
    ASSUME IInv, NEW t \in Txs, TakeName(t)
    PROVE  IInv'
  <1> DEFINE f == [tx[t] EXCEPT !.pc = "commit"]
  <1>1. tx \in [Txs -> Request] /\ Frame(t) /\ tx[t] \in Request
    BY DEF IInv, TypeOK
  <1>2. /\ tx' = [tx EXCEPT ![t] = f] /\ UNCHANGED <<role, version, grants, spent>>
        /\ tx[t].op \in {"create", "rename"} /\ tx[t].pc = "name"
        /\ \A q \in Roles \ {tx[t].role} : role[q].name # tx[t].name
        /\ \A u \in Txs \ {t} : ~NameHeld(u, tx[t].name)
    BY <1>1 DEF TakeName, Naming, At, Request
  <1>3. /\ f \in Request /\ f.op = tx[t].op /\ f.role = tx[t].role /\ f.name = tx[t].name
        /\ f.ver = tx[t].ver /\ f.from = tx[t].from /\ f.pc = "commit"
        /\ f.own = tx[t].own \cup {} /\ f.share = tx[t].share \cup {}
    BY <1>1, <1>2 DEF Request
  <1> HIDE DEF f
  <1>4. tx'[t] = f
    BY <1>1, <1>2, <1>3
  <1>5. CreateFrame(t)'
    BY <1>1, <1>2, <1>3, <1>4 DEF Frame, CreateFrame, Exists
  <1>6. RenameFrame(t)'
    BY <1>1, <1>2, <1>3, <1>4 DEF Frame, RenameFrame, Exists
  <1>7. NameFrame(t)'
    BY <1>2, <1>3, <1>4 DEF NameFrame
  <1>8. Frame(t)'
    BY <1>2, <1>3, <1>4, <1>5, <1>6, <1>7
       DEF Frame, GrantFrame, DeleteFrame, UpdateFrame, DropFrame
  <1>9. \A u \in Txs \ {t} : TakenBy(f) /\ TakenBy(tx[u]) => f.name # tx[u].name
    BY <1>2, <1>3 DEF TakenBy, NameHeld, At
  <1>10. {} \in SUBSET Rows /\ FreeToOwn(t, {}) /\ FreeToShare(t, {})
    BY FreeNothing
  <1> QED BY <1>2, <1>3, <1>8, <1>9, <1>10, GoOnStep

(* The locks of an artifact update. *)
LEMMA UpdateKeeps ==
    ASSUME IInv, NEW t \in Txs,
           \/ LockArtifact(t) \/ (\E row \in Rows : LockOneRow(t, row))
           \/ LockGrants(t) \/ WriteArtifact(t)
    PROVE  IInv'
  <1>1. /\ tx \in [Txs -> Request] /\ Frame(t) /\ tx[t] \in Request
        /\ grants \subseteq Grants
    BY DEF IInv, TypeOK
  <1>2. tx[t].op = "update" /\ UNCHANGED <<role, version, grants, spent>>
    BY DEF LockArtifact, LockOneRow, LockGrants, WriteArtifact, At
  <1>3. UpdateFrame(t) /\ tx[t].target \in Targets
    BY <1>1, <1>2 DEF Frame, UpdateFrame
  <1>4. ASSUME NEW f \in Request, tx' = [tx EXCEPT ![t] = f],
               f.op = "update", f.role = tx[t].role, f.target = tx[t].target,
               f.share = tx[t].share \cup {},
               NEW rows \in SUBSET Rows, FreeToOwn(t, rows), f.own = tx[t].own \cup rows,
               TargetRow(f.target) \in f.own,
               f.pc \in {"write", "commit"} =>
                  /\ f.report = GrantsOf(f.target)
                  /\ \A g \in f.report : GrantRow(g) \in f.own
        PROVE  IInv'
    <2>1. tx'[t] = f
      BY <1>1, <1>4
    <2>2. UpdateFrame(t)'
      BY <1>2, <1>3, <1>4, <2>1 DEF UpdateFrame, GrantsOf
    <2>3. Frame(t)'
      BY <1>4, <2>1, <2>2 DEF Frame, CreateFrame, GrantFrame, DeleteFrame, RenameFrame,
                              DropFrame, NameFrame, TakenBy
    <2>4. FreeToShare(t, {}) /\ {} \in SUBSET Rows /\ ~TakenBy(f)
      BY <1>4, FreeNothing DEF TakenBy
    <2> QED BY <1>2, <1>4, <2>3, <2>4, GoOnStep
  <1>5. CASE LockArtifact(t)
    <2> DEFINE f == [tx[t] EXCEPT !.pc = "grants", !.own = @ \cup {TargetRow(tx[t].target)}]
    <2>1. tx' = [tx EXCEPT ![t] = f] /\ FreeToOwn(t, {TargetRow(tx[t].target)})
      BY <1>1, <1>5 DEF LockArtifact, Request
    <2>2. {TargetRow(tx[t].target)} \in SUBSET Rows
      BY <1>3, RowsAreRows
    <2>3. /\ f \in Request /\ f.op = "update" /\ f.role = tx[t].role /\ f.target = tx[t].target
          /\ f.share = tx[t].share \cup {} /\ f.own = tx[t].own \cup {TargetRow(tx[t].target)}
          /\ f.pc = "grants"
      BY <1>1, <1>2, <2>2 DEF Request
    <2> HIDE DEF f
    <2> QED BY <2>1, <2>2, <2>3, <1>4
  <1>6. ASSUME NEW row \in Rows, LockOneRow(t, row) PROVE IInv'
    <2> DEFINE f == [tx[t] EXCEPT !.own = @ \cup {row}]
    <2>1. tx' = [tx EXCEPT ![t] = f] /\ FreeToOwn(t, {row}) /\ tx[t].pc = "grants"
      BY <1>1, <1>6 DEF LockOneRow, Request, At
    <2>2. {row} \in SUBSET Rows
      OBVIOUS
    <2>3. /\ f \in Request /\ f.op = "update" /\ f.role = tx[t].role /\ f.target = tx[t].target
          /\ f.share = tx[t].share \cup {} /\ f.own = tx[t].own \cup {row}
          /\ f.pc = "grants"
      BY <1>1, <1>2, <2>1, <2>2 DEF Request
    <2>4. TargetRow(f.target) \in f.own
      BY <1>2, <1>3, <2>1, <2>3 DEF UpdateFrame
    <2> HIDE DEF f
    <2> QED BY <2>1, <2>2, <2>3, <2>4, <1>4
  <1>7. CASE LockGrants(t)
    <2> DEFINE gs == GrantsOf(tx[t].target)
               f == [tx[t] EXCEPT !.pc = "write", !.report = gs]
    <2>1. /\ tx' = [tx EXCEPT ![t] = f] /\ GrantRows(gs) \subseteq tx[t].own
          /\ tx[t].pc = "grants"
      BY <1>1, <1>7 DEF LockGrants, RowsOfGrantRead, Request, At
    <2>2. gs \in SUBSET Grants
      BY <1>1 DEF GrantsOf
    <2>3. /\ f \in Request /\ f.op = "update" /\ f.role = tx[t].role /\ f.target = tx[t].target
          /\ f.share = tx[t].share \cup {} /\ f.own = tx[t].own \cup {}
          /\ f.pc = "write" /\ f.report = gs
      <3> HIDE DEF gs
      <3> QED BY <1>1, <1>2, <2>2 DEF Request
    <2>4. TargetRow(f.target) \in f.own
      BY <1>2, <1>3, <2>1, <2>3 DEF UpdateFrame
    <2>5. \A g \in f.report : GrantRow(g) \in f.own
      BY <2>1, <2>3 DEF GrantRows
    <2>6. {} \in SUBSET Rows /\ FreeToOwn(t, {})
      BY FreeNothing
    <2> HIDE DEF f
    <2> QED BY <2>1, <2>3, <2>4, <2>5, <2>6, <1>4
  <1>8. CASE WriteArtifact(t)
    <2> DEFINE f == [tx[t] EXCEPT !.pc = "commit"]
    <2>1. tx' = [tx EXCEPT ![t] = f] /\ tx[t].pc = "write"
      BY <1>1, <1>8 DEF WriteArtifact, Request, At
    <2>2. /\ f \in Request /\ f.op = "update" /\ f.role = tx[t].role /\ f.target = tx[t].target
          /\ f.share = tx[t].share \cup {} /\ f.own = tx[t].own \cup {}
          /\ f.pc = "commit" /\ f.report = tx[t].report
      BY <1>1, <1>2 DEF Request
    <2>3. /\ TargetRow(f.target) \in f.own /\ f.report = GrantsOf(f.target)
          /\ \A g \in f.report : GrantRow(g) \in f.own
      BY <1>2, <1>3, <2>1, <2>2 DEF UpdateFrame
    <2>4. {} \in SUBSET Rows /\ FreeToOwn(t, {})
      BY FreeNothing
    <2> HIDE DEF f
    <2> QED BY <2>1, <2>2, <2>3, <2>4, <1>4
  <1> QED BY <1>5, <1>6, <1>7, <1>8

-----------------------------------------------------------------------------
(* The commits: a table changes and the request is over. *)

(* TypeOK without the requests. *)
Tables ==
    /\ role \in [Roles -> [name : Names \cup {None}, ver : Versions]]
    /\ version \in [Targets -> Versions]
    /\ grants \subseteq {g \in Grants : Exists(g[1]) /\ version[g[2]] > 0}
    /\ \A q, r \in Roles : Exists(q) /\ role[q].name = role[r].name => q = r
    /\ {r \in Roles : Exists(r)} \subseteq spent /\ spent \subseteq Roles

(* A row that one request owns is in no other request's hands. *)
LEMMA OneOwner ==
    ASSUME IInv, NEW t \in Txs, NEW u \in Txs, t # u, NEW row, row \in tx[t].own
    PROVE  row \notin tx[u].own /\ row \notin tx[u].share
  BY DEF IInv, TypeOK

(* What a commit has to show. *)
LEMMA CommitStep ==
    ASSUME IInv, NEW t \in Txs, tx' = [tx EXCEPT ![t] = Idle], Tables',
           \A u \in Txs \ {t} : Frame(u)'
    PROVE  IInv'
  <1>1. tx \in [Txs -> Request]
    BY DEF IInv, TypeOK
  <1>2. tx'[t] = Idle /\ tx' \in [Txs -> Request] /\ \A u \in Txs \ {t} : tx'[u] = tx[u]
    BY <1>1, IdleType
  <1>3. Idle.own = {} /\ Idle.share = {} /\ Idle.op = "none" /\ ~TakenBy(Idle)
    BY DEF Idle, TakenBy
  <1>4. \A v, u \in Txs : v # u => tx'[v].own \cap (tx'[u].own \cup tx'[u].share) = {}
    <2> SUFFICES ASSUME NEW v \in Txs, NEW u \in Txs, v # u
                 PROVE  tx'[v].own \cap (tx'[u].own \cup tx'[u].share) = {}
      OBVIOUS
    <2>1. CASE v = t \/ u = t BY <1>2, <1>3, <2>1
    <2>2. CASE v # t /\ u # t BY <1>2, <2>2 DEF IInv, TypeOK
    <2> QED BY <2>1, <2>2
  <1>5. TypeOK'
    BY <1>2, <1>4 DEF Tables, TypeOK, Exists
  <1>6. FreshIds'
    <2> SUFFICES ASSUME NEW v \in Txs, NEW u \in Txs, v # u, tx'[v].op = "create",
                        tx'[u].op \in {"create", "rename"}
                 PROVE  tx'[v].role # tx'[u].role
      BY DEF FreshIds
    <2>1. v # t /\ u # t BY <1>2, <1>3
    <2> QED BY <1>2, <2>1 DEF IInv, FreshIds
  <1>7. Frame(t)'
    BY <1>2, IdleFrame
  <1>8. NamesApart'
    <2> SUFFICES ASSUME NEW v \in Txs, NEW u \in Txs, v # u, TakenBy(tx'[v]), TakenBy(tx'[u])
                 PROVE  tx'[v].name # tx'[u].name
      BY DEF NamesApart, TakenBy
    <2>1. v # t /\ u # t BY <1>2, <1>3
    <2> QED BY <1>2, <2>1 DEF IInv, NamesApart
  <1> QED BY <1>5, <1>6, <1>7, <1>8 DEF IInv

(* INSERT INTO role *)
LEMMA CommitRoleKeeps ==
    ASSUME IInv, NEW t \in Txs, CommitRole(t) PROVE IInv'
  <1> DEFINE c == tx[t].role
  <1>1. Tables /\ tx \in [Txs -> Request] /\ FreshIds /\ NamesApart
        /\ \A u \in Txs : Frame(u)
    BY DEF IInv, TypeOK, Tables
  <1>2. /\ tx[t].op = "create" /\ tx[t].pc = "commit"
        /\ role' = [role EXCEPT ![c] = [name |-> tx[t].name, ver |-> 1]]
        /\ tx' = [tx EXCEPT ![t] = Idle] /\ UNCHANGED <<version, grants, spent>>
    BY DEF CommitRole, At
  <1>3. /\ c \in Roles /\ c \in spent /\ tx[t].name \in Names /\ ~Exists(c) /\ tx[t].name # None
        /\ \A q \in Roles \ {c} : role[q].name # tx[t].name
    BY <1>1, <1>2, GrantAssumption DEF Frame, CreateFrame, NameFrame, TakenBy
  <1> HIDE DEF c
  <1>4. /\ role'[c] = [name |-> tx[t].name, ver |-> 1]
        /\ \A q \in Roles \ {c} : role'[q] = role[q]
        /\ role' \in [Roles -> [name : Names \cup {None}, ver : Versions]]
    BY <1>1, <1>2, <1>3, VersionsNat DEF Tables
  <1>5. Tables'
    <2>1. \A q, r \in Roles : role'[q].name # None /\ role'[q].name = role'[r].name => q = r
      <3> SUFFICES ASSUME NEW q \in Roles, NEW r \in Roles, role'[q].name # None,
                          role'[q].name = role'[r].name, q # r
                   PROVE  FALSE
        OBVIOUS
      <3>1. CASE q = c BY <1>3, <1>4, <3>1
      <3>2. CASE r = c BY <1>3, <1>4, <3>2
      <3>3. CASE q # c /\ r # c BY <1>1, <1>4, <3>3 DEF Tables, Exists
      <3> QED BY <3>1, <3>2, <3>3
    <2>2. \A g \in grants : role'[g[1]].name # None
      BY <1>1, <1>3, <1>4 DEF Tables, Exists, Grants
    <2>3. \A q \in Roles : role'[q].name # None => q \in spent
      BY <1>1, <1>3, <1>4 DEF Tables, Exists
    <2> QED BY <1>1, <1>2, <1>4, <2>1, <2>2, <2>3 DEF Tables, Exists
  <1>6. ASSUME NEW u \in Txs \ {t} PROVE Frame(u)'
    <2>1. tx'[u] = tx[u] /\ Frame(u) BY <1>1, <1>2
    <2>2. tx[u].op \in {"create", "rename"} => tx[u].role # c
      BY <1>1, <1>2 DEF FreshIds, c
    <2>3. CreateFrame(u)' BY <1>2, <1>4, <2>1, <2>2 DEF Frame, CreateFrame, Exists
    <2>4. GrantFrame(u)' BY <1>2, <1>3, <1>4, <2>1 DEF Frame, GrantFrame, Exists
    <2>5. DeleteFrame(u)' BY <1>2, <2>1 DEF Frame, DeleteFrame, GrantsOfRole
    <2>6. RenameFrame(u)' BY <1>2, <1>4, <2>1, <2>2 DEF Frame, RenameFrame, Exists
    <2>7. UpdateFrame(u)' BY <1>2, <2>1 DEF Frame, UpdateFrame, GrantsOf
    <2>8. DropFrame(u)' BY <1>2, <2>1 DEF Frame, DropFrame, GrantsOf
    <2>9. NameFrame(u)'
      <3>1. TakenBy(tx[t]) BY <1>2 DEF TakenBy
      <3>2. TakenBy(tx[u]) => tx[u].name # tx[t].name BY <1>1, <3>1 DEF NamesApart
      <3> QED BY <1>3, <1>4, <2>1, <3>2 DEF Frame, NameFrame
    <2> QED BY <2>3, <2>4, <2>5, <2>6, <2>7, <2>8, <2>9 DEF Frame
  <1> QED BY <1>2, <1>5, <1>6, CommitStep

(* INSERT INTO entitlement: the parents' rows are shared, so no deletion of *)
(* the role and no update of the artifact is past its first lock.           *)
LEMMA CommitGrantKeeps ==
    ASSUME IInv, NEW t \in Txs, CommitGrant(t) PROVE IInv'
  <1> DEFINE r == tx[t].role
             x == tx[t].target
             h == <<r, x>>
  <1>1. Tables /\ tx \in [Txs -> Request] /\ \A u \in Txs : Frame(u)
    BY DEF IInv, TypeOK, Tables
  <1>2. /\ tx[t].op = "grant" /\ tx[t].pc = "commit" /\ grants' = grants \cup {h}
        /\ tx' = [tx EXCEPT ![t] = Idle] /\ UNCHANGED <<role, version, spent>>
    BY DEF CommitGrant, Pair, At
  <1>3. /\ r \in Roles /\ x \in Targets /\ h \in Grants /\ h[1] = r /\ h[2] = x
        /\ Exists(r) /\ version[x] > 0
        /\ RowOf(r) \in tx[t].share /\ TargetRow(x) \in tx[t].share
    BY <1>1, <1>2 DEF Frame, GrantFrame, Grants
  <1> HIDE DEF r, x, h
  <1>4. Tables'
    BY <1>1, <1>2, <1>3 DEF Tables, Exists
  <1>5. ASSUME NEW u \in Txs \ {t} PROVE Frame(u)'
    <2>1. tx'[u] = tx[u] /\ Frame(u) BY <1>1, <1>2
    <2>2. RowOf(r) \notin tx[u].own /\ TargetRow(x) \notin tx[u].own
      BY <1>3 DEF IInv, TypeOK
    <2>3. CreateFrame(u)' BY <1>2, <2>1 DEF Frame, CreateFrame, Exists
    <2>4. GrantFrame(u)' BY <1>2, <2>1 DEF Frame, GrantFrame, Exists
    <2>5. DeleteFrame(u)'
      <3>1. CASE tx[u].op = "delete" /\ tx[u].role = r
        <4>1. tx[u].pc = "lock" BY <2>1, <2>2, <3>1 DEF Frame, DeleteFrame
        <4> QED BY <1>3, <2>1, <3>1, <4>1 DEF DeleteFrame
      <3>2. CASE tx[u].op = "delete" /\ tx[u].role # r
        <4>1. GrantsOfRole(tx[u].role)' = GrantsOfRole(tx[u].role)
          BY <1>2, <1>3, <2>1, <3>2 DEF GrantsOfRole
        <4> QED BY <2>1, <4>1 DEF Frame, DeleteFrame
      <3>3. CASE tx[u].op # "delete" BY <2>1, <3>3 DEF DeleteFrame
      <3> QED BY <3>1, <3>2, <3>3
    <2>6. RenameFrame(u)' BY <1>2, <2>1 DEF Frame, RenameFrame, Exists
    <2>7. UpdateFrame(u)'
      <3>1. CASE tx[u].op = "update" /\ tx[u].target = x
        <4>1. tx[u].pc = "lock" BY <2>1, <2>2, <3>1 DEF Frame, UpdateFrame
        <4> QED BY <1>3, <2>1, <3>1, <4>1 DEF UpdateFrame
      <3>2. CASE tx[u].op = "update" /\ tx[u].target # x
        <4>1. GrantsOf(tx[u].target)' = GrantsOf(tx[u].target)
          BY <1>2, <1>3, <2>1, <3>2 DEF GrantsOf
        <4> QED BY <2>1, <4>1 DEF Frame, UpdateFrame
      <3>3. CASE tx[u].op # "update" BY <2>1, <3>3 DEF UpdateFrame
      <3> QED BY <3>1, <3>2, <3>3
    <2>8. DropFrame(u)'
      <3>1. CASE tx[u].op = "drop"
        <4>1. tx[u].target # x BY <2>1, <2>2, <3>1 DEF Frame, DropFrame
        <4>2. GrantsOf(tx[u].target)' = GrantsOf(tx[u].target)
          BY <1>2, <1>3, <2>1, <4>1 DEF GrantsOf
        <4> QED BY <2>1, <4>2 DEF Frame, DropFrame
      <3>2. CASE tx[u].op # "drop" BY <2>1, <3>2 DEF DropFrame
      <3> QED BY <3>1, <3>2
    <2>9. NameFrame(u)' BY <1>2, <2>1 DEF Frame, NameFrame
    <2> QED BY <2>3, <2>4, <2>5, <2>6, <2>7, <2>8, <2>9 DEF Frame
  <1> QED BY <1>2, <1>4, <1>5, CommitStep

(* DELETE FROM role: whoever has read this role's grants, or owns its row,  *)
(* would own a row that the deletion owns.                                  *)
LEMMA CommitDeleteKeeps ==
    ASSUME IInv, NEW t \in Txs, CommitDelete(t) PROVE IInv'
  <1> DEFINE r == tx[t].role
  <1>1. Tables /\ tx \in [Txs -> Request] /\ \A u \in Txs : Frame(u)
    BY DEF IInv, TypeOK, Tables
  <1>2. /\ tx[t].op = "delete" /\ tx[t].pc = "commit"
        /\ role' = [role EXCEPT ![r] = NoRole] /\ grants' = grants \ tx[t].gone
        /\ tx' = [tx EXCEPT ![t] = Idle] /\ UNCHANGED <<version, spent>>
    BY DEF CommitDelete, At
  <1>3. /\ r \in Roles /\ RowOf(r) \in tx[t].own /\ tx[t].gone = GrantsOfRole(r)
        /\ \A g \in GrantsOfRole(r) : GrantRow(g) \in tx[t].own
    BY <1>1, <1>2 DEF Frame, DeleteFrame
  <1> HIDE DEF r
  <1>4. /\ role'[r] = NoRole
        /\ \A q \in Roles \ {r} : role'[q] = role[q]
        /\ role' \in [Roles -> [name : Names \cup {None}, ver : Versions]]
    <2>1. NoRole \in [name : Names \cup {None}, ver : Versions]
      BY VersionsNat DEF NoRole
    <2> QED BY <1>1, <1>2, <1>3, <2>1 DEF Tables
  <1>5. NoRole.name = None /\ role'[r].name = None
    BY <1>4 DEF NoRole
  <1>6. grants' = {g \in grants : g[1] # r}
    BY <1>2, <1>3 DEF GrantsOfRole
  <1>7. Tables'
    <2>1. \A q, s \in Roles : role'[q].name # None /\ role'[q].name = role'[s].name => q = s
      BY <1>1, <1>4, <1>5 DEF Tables, Exists
    <2>2. \A g \in grants' : g \in Grants /\ role'[g[1]].name # None /\ version'[g[2]] > 0
      BY <1>1, <1>2, <1>4, <1>6 DEF Tables, Exists, Grants
    <2>3. \A q \in Roles : role'[q].name # None => q \in spent
      BY <1>1, <1>4, <1>5 DEF Tables, Exists
    <2> QED BY <1>1, <1>2, <1>4, <2>1, <2>2, <2>3 DEF Tables, Exists
  <1>8. ASSUME NEW u \in Txs \ {t} PROVE Frame(u)'
    <2>1. tx'[u] = tx[u] /\ Frame(u) BY <1>1, <1>2
    <2>2. /\ RowOf(r) \notin tx[u].own /\ RowOf(r) \notin tx[u].share
          /\ \A g \in GrantsOfRole(r) : GrantRow(g) \notin tx[u].own
      BY <1>3, OneOwner
    <2>3. CreateFrame(u)' BY <1>2, <1>4, <1>5, <2>1 DEF Frame, CreateFrame, Exists
    <2>4. GrantFrame(u)'
      <3>1. CASE tx[u].op = "grant" /\ tx[u].role = r
        <4>1. tx[u].pc \notin {"target", "insert", "commit"}
          BY <2>1, <2>2, <3>1 DEF Frame, GrantFrame
        <4> QED BY <2>1, <3>1, <4>1 DEF Frame, GrantFrame
      <3>2. CASE tx[u].op = "grant" /\ tx[u].role # r
        <4>1. role'[tx[u].role] = role[tx[u].role]
          BY <1>4, <2>1, <3>2 DEF Frame, GrantFrame
        <4> QED BY <1>2, <2>1, <4>1 DEF Frame, GrantFrame, Exists
      <3>3. CASE tx[u].op # "grant" BY <2>1, <3>3 DEF GrantFrame
      <3> QED BY <3>1, <3>2, <3>3
    <2>5. DeleteFrame(u)'
      <3>1. CASE tx[u].op = "delete" /\ tx[u].role = r
        <4>1. tx[u].pc = "lock" BY <2>1, <2>2, <3>1 DEF Frame, DeleteFrame
        <4> QED BY <1>3, <2>1, <3>1, <4>1 DEF DeleteFrame
      <3>2. CASE tx[u].op = "delete" /\ tx[u].role # r
        <4>1. GrantsOfRole(tx[u].role)' = GrantsOfRole(tx[u].role)
          BY <1>6, <2>1, <3>2 DEF GrantsOfRole
        <4> QED BY <2>1, <4>1 DEF Frame, DeleteFrame
      <3>3. CASE tx[u].op # "delete" BY <2>1, <3>3 DEF DeleteFrame
      <3> QED BY <3>1, <3>2, <3>3
    <2>6. RenameFrame(u)'
      <3>1. CASE tx[u].op = "rename" /\ tx[u].role = r
        <4>1. tx[u].pc \notin {"name", "commit"} BY <2>1, <2>2, <3>1 DEF Frame, RenameFrame
        <4>2. ~Exists(tx[u].role)' BY <1>5, <2>1, <3>1 DEF Exists
        <4> QED BY <1>2, <2>1, <4>1, <4>2 DEF Frame, RenameFrame
      <3>2. CASE tx[u].op = "rename" /\ tx[u].role # r
        <4>1. role'[tx[u].role] = role[tx[u].role]
          BY <1>4, <2>1, <3>2 DEF Frame, RenameFrame
        <4> QED BY <1>2, <2>1, <4>1 DEF Frame, RenameFrame, Exists
      <3>3. CASE tx[u].op # "rename" BY <2>1, <3>3 DEF RenameFrame
      <3> QED BY <3>1, <3>2, <3>3
    <2>7. UpdateFrame(u)'
      <3>1. CASE tx[u].op = "update" /\ tx[u].pc \in {"write", "commit"}
        <4>1. \A g \in GrantsOf(tx[u].target) : g[1] # r
          BY <2>1, <2>2, <3>1 DEF Frame, UpdateFrame, GrantsOf, GrantsOfRole
        <4>2. GrantsOf(tx[u].target)' = GrantsOf(tx[u].target)
          BY <1>6, <2>1, <4>1 DEF GrantsOf
        <4> QED BY <2>1, <4>2 DEF Frame, UpdateFrame
      <3>2. CASE ~(tx[u].op = "update" /\ tx[u].pc \in {"write", "commit"})
        BY <2>1, <3>2 DEF Frame, UpdateFrame
      <3> QED BY <3>1, <3>2
    <2>8. DropFrame(u)'
      <3>1. CASE tx[u].op = "drop" /\ tx[u].pc = "commit"
        <4>1. \A g \in GrantsOf(tx[u].target) : g[1] # r
          BY <2>1, <2>2, <3>1 DEF Frame, DropFrame, GrantsOf, GrantsOfRole
        <4>2. GrantsOf(tx[u].target)' = GrantsOf(tx[u].target)
          BY <1>6, <2>1, <4>1 DEF GrantsOf
        <4> QED BY <2>1, <4>2 DEF Frame, DropFrame
      <3>2. CASE ~(tx[u].op = "drop" /\ tx[u].pc = "commit")
        BY <2>1, <3>2 DEF Frame, DropFrame
      <3> QED BY <3>1, <3>2
    <2>9. NameFrame(u)'
      <3>1. TakenBy(tx[u]) => tx[u].name # None
        BY <2>1, GrantAssumption DEF Frame, CreateFrame, RenameFrame, TakenBy
      <3> QED BY <1>3, <1>4, <1>5, <2>1, <3>1 DEF Frame, NameFrame
    <2> QED BY <2>3, <2>4, <2>5, <2>6, <2>7, <2>8, <2>9 DEF Frame
  <1> QED BY <1>2, <1>7, <1>8, CommitStep

(* UPDATE role: another rename of the same role is now behind its version. *)
LEMMA CommitRenameKeeps ==
    ASSUME IInv, NEW t \in Txs, CommitRename(t) PROVE IInv'
  <1> DEFINE r == tx[t].role
             n == tx[t].name
             v == role[r].ver + 1
  <1>1. Tables /\ tx \in [Txs -> Request] /\ FreshIds /\ NamesApart
        /\ \A u \in Txs : Frame(u)
    BY DEF IInv, TypeOK, Tables
  <1>2. /\ tx[t].op = "rename" /\ tx[t].pc = "commit"
        /\ role[r].ver < MaxVersion
        /\ role' = [role EXCEPT ![r] = [name |-> n, ver |-> v]]
        /\ tx' = [tx EXCEPT ![t] = Idle] /\ UNCHANGED <<version, grants, spent>>
    BY DEF CommitRename, At
  <1>3. /\ r \in Roles /\ r \in spent /\ n \in Names /\ n # None
        /\ RowOf(r) \in tx[t].own /\ Exists(r)
        /\ \A q \in Roles \ {r} : role[q].name # n
    BY <1>1, <1>2, GrantAssumption DEF Frame, RenameFrame, NameFrame, TakenBy
  <1>4. role[r].ver \in Nat /\ v \in Nat /\ v > role[r].ver /\ v \in Versions
    <2>1. role[r].ver \in Versions /\ MaxVersion \in Nat
      BY <1>1, <1>3, GrantAssumption DEF Tables
    <2> QED BY <1>2, <2>1 DEF Versions
  <1> HIDE DEF r, n, v
  <1>5. /\ role'[r] = [name |-> n, ver |-> v]
        /\ \A q \in Roles \ {r} : role'[q] = role[q]
        /\ role' \in [Roles -> [name : Names \cup {None}, ver : Versions]]
    BY <1>1, <1>2, <1>3, <1>4 DEF Tables
  <1>6. Tables'
    <2>1. \A q, s \in Roles : role'[q].name # None /\ role'[q].name = role'[s].name => q = s
      <3> SUFFICES ASSUME NEW q \in Roles, NEW s \in Roles, role'[q].name # None,
                          role'[q].name = role'[s].name, q # s
                   PROVE  FALSE
        OBVIOUS
      <3>1. CASE q = r BY <1>3, <1>5, <3>1
      <3>2. CASE s = r BY <1>3, <1>5, <3>2
      <3>3. CASE q # r /\ s # r BY <1>1, <1>5, <3>3 DEF Tables, Exists
      <3> QED BY <3>1, <3>2, <3>3
    <2>2. \A g \in grants : role'[g[1]].name # None
      BY <1>1, <1>3, <1>5 DEF Tables, Exists, Grants
    <2>3. \A q \in Roles : role'[q].name # None => q \in spent
      BY <1>1, <1>3, <1>5 DEF Tables, Exists
    <2> QED BY <1>1, <1>2, <1>5, <2>1, <2>2, <2>3 DEF Tables, Exists
  <1>7. ASSUME NEW u \in Txs \ {t} PROVE Frame(u)'
    <2>1. tx'[u] = tx[u] /\ Frame(u) /\ tx[u] \in Request BY <1>1, <1>2
    <2>2. RowOf(r) \notin tx[u].own
      BY <1>3, OneOwner
    <2>3. CreateFrame(u)'
      <3>1. tx[u].op = "create" => tx[u].role # r
        BY <1>1, <1>2 DEF FreshIds, r
      <3> QED BY <1>2, <1>5, <2>1, <3>1 DEF Frame, CreateFrame, Exists
    <2>4. GrantFrame(u)' BY <1>2, <1>3, <1>5, <2>1 DEF Frame, GrantFrame, Exists
    <2>5. DeleteFrame(u)' BY <1>2, <2>1 DEF Frame, DeleteFrame, GrantsOfRole
    <2>6. RenameFrame(u)'
      <3>1. CASE tx[u].op = "rename" /\ tx[u].role = r
        <4>1. tx[u].pc \notin {"name", "commit"} BY <2>1, <2>2, <3>1 DEF Frame, RenameFrame
        <4>2. tx[u].ver <= role[r].ver /\ tx[u].ver \in Nat
          BY <1>3, <2>1, <3>1, VersionsNat DEF Frame, RenameFrame, Request
        <4>3. tx[u].ver <= v /\ tx[u].ver # v
          BY <1>4, <4>2
        <4>4. role'[tx[u].role].ver = v BY <1>5, <3>1
        <4> QED BY <1>2, <2>1, <4>1, <4>3, <4>4 DEF Frame, RenameFrame
      <3>2. CASE tx[u].op = "rename" /\ tx[u].role # r
        <4>1. role'[tx[u].role] = role[tx[u].role]
          BY <1>5, <2>1, <3>2 DEF Frame, RenameFrame
        <4> QED BY <1>2, <2>1, <4>1 DEF Frame, RenameFrame, Exists
      <3>3. CASE tx[u].op # "rename" BY <2>1, <3>3 DEF RenameFrame
      <3> QED BY <3>1, <3>2, <3>3
    <2>7. UpdateFrame(u)' BY <1>2, <2>1 DEF Frame, UpdateFrame, GrantsOf
    <2>8. DropFrame(u)' BY <1>2, <2>1 DEF Frame, DropFrame, GrantsOf
    <2>9. NameFrame(u)'
      <3>1. TakenBy(tx[t]) BY <1>2 DEF TakenBy
      <3>2. TakenBy(tx[u]) => tx[u].name # n BY <1>1, <3>1 DEF NamesApart, n
      <3> QED BY <1>3, <1>5, <2>1, <3>2 DEF Frame, NameFrame
    <2> QED BY <2>3, <2>4, <2>5, <2>6, <2>7, <2>8, <2>9 DEF Frame
  <1> QED BY <1>2, <1>6, <1>7, CommitStep

(* UPDATE artifact: no frame minds that a target has a later version. *)
LEMMA CommitUpdateKeeps ==
    ASSUME IInv, NEW t \in Txs, CommitUpdate(t) PROVE IInv'
  <1> DEFINE x == tx[t].target
             v == version[x] + 1
  <1>1. Tables /\ tx \in [Txs -> Request] /\ \A u \in Txs : Frame(u)
    BY DEF IInv, TypeOK, Tables
  <1>2. /\ tx[t].op = "update" /\ version[x] < MaxVersion
        /\ version' = [version EXCEPT ![x] = v]
        /\ tx' = [tx EXCEPT ![t] = Idle] /\ UNCHANGED <<role, grants, spent>>
    BY DEF CommitUpdate, At
  <1>3. x \in Targets
    BY <1>1, <1>2 DEF Frame, UpdateFrame
  <1>4. v \in Versions /\ v > 0
    <2>1. version[x] \in Versions /\ MaxVersion \in Nat
      BY <1>1, <1>3, GrantAssumption DEF Tables
    <2> QED BY <1>2, <2>1 DEF Versions
  <1> HIDE DEF x, v
  <1>5. /\ version' \in [Targets -> Versions] /\ version'[x] = v
        /\ \A y \in Targets \ {x} : version'[y] = version[y]
    BY <1>1, <1>2, <1>3, <1>4 DEF Tables
  <1>6. \A g \in grants : g \in Grants /\ version'[g[2]] > 0
    BY <1>1, <1>4, <1>5 DEF Tables, Grants
  <1>7. Tables'
    BY <1>1, <1>2, <1>5, <1>6 DEF Tables, Exists
  <1>8. ASSUME NEW u \in Txs \ {t} PROVE Frame(u)'
    <2>1. tx'[u] = tx[u] /\ Frame(u) BY <1>1, <1>2
    <2>2. CreateFrame(u)' BY <1>2, <2>1 DEF Frame, CreateFrame, Exists
    <2>3. GrantFrame(u)' BY <1>2, <1>3, <1>4, <1>5, <2>1 DEF Frame, GrantFrame, Exists
    <2>4. DeleteFrame(u)' BY <1>2, <2>1 DEF Frame, DeleteFrame, GrantsOfRole
    <2>5. RenameFrame(u)' BY <1>2, <2>1 DEF Frame, RenameFrame, Exists
    <2>6. UpdateFrame(u)' BY <1>2, <2>1 DEF Frame, UpdateFrame, GrantsOf
    <2>7. DropFrame(u)' BY <1>2, <2>1 DEF Frame, DropFrame, GrantsOf
    <2>8. NameFrame(u)' BY <1>2, <2>1 DEF Frame, NameFrame
    <2> QED BY <2>2, <2>3, <2>4, <2>5, <2>6, <2>7, <2>8 DEF Frame
  <1> QED BY <1>2, <1>7, <1>8, CommitStep

(* DELETE FROM artifact or mcp_server: whoever has listed the grants of     *)
(* this target, or shares its row, would hold a row that the deletion owns. *)
LEMMA CommitDropKeeps ==
    ASSUME IInv, NEW t \in Txs, CommitDrop(t) PROVE IInv'
  <1> DEFINE x == tx[t].target
  <1>1. Tables /\ tx \in [Txs -> Request] /\ \A u \in Txs : Frame(u)
    BY DEF IInv, TypeOK, Tables
  <1>2. /\ tx[t].op = "drop" /\ tx[t].pc = "commit"
        /\ version' = [version EXCEPT ![x] = 0] /\ grants' = grants \ tx[t].gone
        /\ tx' = [tx EXCEPT ![t] = Idle] /\ UNCHANGED <<role, spent>>
    BY DEF CommitDrop, At
  <1>3. /\ x \in Targets /\ TargetRow(x) \in tx[t].own /\ tx[t].gone = GrantsOf(x)
        /\ \A g \in GrantsOf(x) : GrantRow(g) \in tx[t].own
    BY <1>1, <1>2 DEF Frame, DropFrame
  <1> HIDE DEF x
  <1>4. /\ version' \in [Targets -> Versions]
        /\ \A y \in Targets \ {x} : version'[y] = version[y]
    BY <1>1, <1>2, <1>3, VersionsNat DEF Tables
  <1>5. grants' = {g \in grants : g[2] # x}
    BY <1>2, <1>3 DEF GrantsOf
  <1>6. Tables'
    <2>1. \A g \in grants' : g \in Grants /\ Exists(g[1]) /\ version'[g[2]] > 0
      BY <1>1, <1>4, <1>5 DEF Tables, Grants
    <2> QED BY <1>1, <1>2, <1>4, <2>1 DEF Tables, Exists
  <1>7. ASSUME NEW u \in Txs \ {t} PROVE Frame(u)'
    <2>1. tx'[u] = tx[u] /\ Frame(u) BY <1>1, <1>2
    <2>2. /\ TargetRow(x) \notin tx[u].own /\ TargetRow(x) \notin tx[u].share
          /\ \A g \in GrantsOf(x) : GrantRow(g) \notin tx[u].own
      BY <1>3, OneOwner
    <2>3. CreateFrame(u)' BY <1>2, <2>1 DEF Frame, CreateFrame, Exists
    <2>4. GrantFrame(u)'
      <3>1. CASE tx[u].op = "grant" /\ tx[u].target = x
        <4>1. tx[u].pc \notin {"insert", "commit"}
          BY <2>1, <2>2, <3>1 DEF Frame, GrantFrame
        <4> QED BY <1>2, <2>1, <3>1, <4>1 DEF Frame, GrantFrame, Exists
      <3>2. CASE tx[u].op = "grant" /\ tx[u].target # x
        <4>1. version'[tx[u].target] = version[tx[u].target]
          BY <1>4, <2>1, <3>2 DEF Frame, GrantFrame
        <4> QED BY <1>2, <2>1, <4>1 DEF Frame, GrantFrame, Exists
      <3>3. CASE tx[u].op # "grant" BY <2>1, <3>3 DEF GrantFrame
      <3> QED BY <3>1, <3>2, <3>3
    <2>5. DeleteFrame(u)'
      <3>1. GrantsOfRole(tx[u].role)' \subseteq GrantsOfRole(tx[u].role)
        BY <1>5, <2>1 DEF GrantsOfRole
      <3>2. CASE tx[u].op = "delete" /\ tx[u].pc = "commit"
        <4>1. \A g \in GrantsOfRole(tx[u].role) : g[2] # x
          BY <2>1, <2>2, <3>2 DEF Frame, DeleteFrame, GrantsOf, GrantsOfRole
        <4>2. GrantsOfRole(tx[u].role)' = GrantsOfRole(tx[u].role)
          BY <1>5, <2>1, <4>1 DEF GrantsOfRole
        <4> QED BY <2>1, <4>2 DEF Frame, DeleteFrame
      <3>3. CASE ~(tx[u].op = "delete" /\ tx[u].pc = "commit")
        BY <2>1, <3>1, <3>3 DEF Frame, DeleteFrame
      <3> QED BY <3>2, <3>3
    <2>6. RenameFrame(u)' BY <1>2, <2>1 DEF Frame, RenameFrame, Exists
    <2>7. UpdateFrame(u)'
      <3>1. CASE tx[u].op = "update" /\ tx[u].target = x
        <4>1. tx[u].pc = "lock" BY <2>1, <2>2, <3>1 DEF Frame, UpdateFrame
        <4> QED BY <1>3, <2>1, <3>1, <4>1 DEF UpdateFrame
      <3>2. CASE tx[u].op = "update" /\ tx[u].target # x
        <4>1. GrantsOf(tx[u].target)' = GrantsOf(tx[u].target)
          BY <1>5, <2>1, <3>2 DEF GrantsOf
        <4> QED BY <2>1, <4>1 DEF Frame, UpdateFrame
      <3>3. CASE tx[u].op # "update" BY <2>1, <3>3 DEF UpdateFrame
      <3> QED BY <3>1, <3>2, <3>3
    <2>8. DropFrame(u)'
      <3>1. CASE tx[u].op = "drop"
        <4>1. tx[u].target # x BY <2>1, <2>2, <3>1 DEF Frame, DropFrame
        <4>2. GrantsOf(tx[u].target)' = GrantsOf(tx[u].target)
          BY <1>5, <2>1, <4>1 DEF GrantsOf
        <4> QED BY <2>1, <4>2 DEF Frame, DropFrame
      <3>2. CASE tx[u].op # "drop" BY <2>1, <3>2 DEF DropFrame
      <3> QED BY <3>1, <3>2
    <2>9. NameFrame(u)' BY <1>2, <2>1 DEF Frame, NameFrame
    <2> QED BY <2>3, <2>4, <2>5, <2>6, <2>7, <2>8, <2>9 DEF Frame
  <1> QED BY <1>2, <1>6, <1>7, CommitStep

-----------------------------------------------------------------------------
(* The handler of one statement. *)

(* A table changes and no request moves. *)
LEMMA TableStep ==
    ASSUME IInv, UNCHANGED tx, Tables', \A u \in Txs : Frame(u)'
    PROVE  IInv'
  <1>1. TypeOK'
    BY DEF IInv, TypeOK, Tables, Exists
  <1>2. FreshIds'
    BY DEF IInv, FreshIds
  <1>3. NamesApart'
    BY DEF IInv, NamesApart
  <1> QED BY <1>1, <1>2, <1>3 DEF IInv

(* Fewer grants: the frames that list grants own their rows. *)
LEMMA FewerGrants ==
    ASSUME IInv, UNCHANGED <<role, version, spent, tx>>, NEW u \in Txs,
           NEW gs, grants' = grants \ gs,
           \A g \in gs \cap grants : GrantRow(g) \notin tx[u].own
    PROVE  Frame(u)'
  <1>1. Frame(u) BY DEF IInv
  <1>2. CreateFrame(u)' BY <1>1 DEF Frame, CreateFrame, Exists
  <1>3. GrantFrame(u)' BY <1>1 DEF Frame, GrantFrame, Exists
  <1>4. DeleteFrame(u)'
    <2>1. GrantsOfRole(tx[u].role)' \subseteq GrantsOfRole(tx[u].role)
      BY DEF GrantsOfRole
    <2>2. CASE tx[u].op = "delete" /\ tx[u].pc = "commit"
      <3>1. \A g \in GrantsOfRole(tx[u].role) : g \notin gs
        BY <1>1, <2>2 DEF Frame, DeleteFrame, GrantsOfRole
      <3>2. GrantsOfRole(tx[u].role)' = GrantsOfRole(tx[u].role)
        BY <3>1 DEF GrantsOfRole
      <3> QED BY <1>1, <3>2 DEF Frame, DeleteFrame
    <2>3. CASE ~(tx[u].op = "delete" /\ tx[u].pc = "commit")
      BY <1>1, <2>1, <2>3 DEF Frame, DeleteFrame
    <2> QED BY <2>2, <2>3
  <1>5. RenameFrame(u)' BY <1>1 DEF Frame, RenameFrame, Exists
  <1>6. UpdateFrame(u)'
    <2>1. CASE tx[u].op = "update" /\ tx[u].pc \in {"write", "commit"}
      <3>1. \A g \in GrantsOf(tx[u].target) : g \notin gs
        BY <1>1, <2>1 DEF Frame, UpdateFrame, GrantsOf
      <3>2. GrantsOf(tx[u].target)' = GrantsOf(tx[u].target)
        BY <3>1 DEF GrantsOf
      <3> QED BY <1>1, <3>2 DEF Frame, UpdateFrame
    <2>2. CASE ~(tx[u].op = "update" /\ tx[u].pc \in {"write", "commit"})
      BY <1>1, <2>2 DEF Frame, UpdateFrame
    <2> QED BY <2>1, <2>2
  <1>7. DropFrame(u)'
    <2>1. CASE tx[u].op = "drop" /\ tx[u].pc = "commit"
      <3>1. \A g \in GrantsOf(tx[u].target) : g \notin gs
        BY <1>1, <2>1 DEF Frame, DropFrame, GrantsOf
      <3>2. GrantsOf(tx[u].target)' = GrantsOf(tx[u].target)
        BY <3>1 DEF GrantsOf
      <3> QED BY <1>1, <3>2 DEF Frame, DropFrame
    <2>2. CASE ~(tx[u].op = "drop" /\ tx[u].pc = "commit")
      BY <1>1, <2>2 DEF Frame, DropFrame
    <2> QED BY <2>1, <2>2
  <1>8. NameFrame(u)' BY <1>1 DEF Frame, NameFrame
  <1> QED BY <1>2, <1>3, <1>4, <1>5, <1>6, <1>7, <1>8 DEF Frame

(* DELETE FROM entitlement *)
LEMMA RevokeKeeps ==
    ASSUME IInv, NEW g \in Grants, Revoke(g) PROVE IInv'
  <1>1. Tables'
    BY DEF IInv, TypeOK, Tables, Revoke, Exists
  <1>2. ASSUME NEW u \in Txs PROVE Frame(u)'
    <2>1. \A h \in {g} \cap grants : GrantRow(h) \notin tx[u].own
      BY DEF Revoke, Unlocked
    <2>2. grants' = grants \ {g} /\ UNCHANGED <<role, version, spent, tx>>
      BY DEF Revoke
    <2> QED BY <2>1, <2>2, FewerGrants
  <1>3. UNCHANGED tx
    BY DEF Revoke
  <1> QED BY <1>1, <1>2, <1>3, TableStep

-----------------------------------------------------------------------------

(* A deployment starts with roles of distinct names and no request. *)
LEMMA InitInv == Init => IInv
  <1> SUFFICES ASSUME Init PROVE IInv
    OBVIOUS
  <1>1. PICK named \in [Roles -> Names \cup {None}] :
          /\ \A q, r \in Roles : named[q] # None /\ named[q] = named[r] => q = r
          /\ role = [r \in Roles |-> IF named[r] = None THEN NoRole
                                     ELSE [name |-> named[r], ver |-> 1]]
          /\ spent = {r \in Roles : named[r] # None}
    BY DEF Init
  <1>2. /\ version = [x \in Targets |-> 1] /\ grants = {}
        /\ tx = [t \in Txs |-> Idle]
    BY DEF Init
  <1>3. \A r \in Roles : /\ role[r] \in [name : Names \cup {None}, ver : Versions]
                         /\ role[r].name = named[r]
    BY <1>1, VersionsNat DEF NoRole
  <1>4. tx \in [Txs -> Request] /\ \A t \in Txs : tx[t] = Idle
    BY <1>2, IdleType
  <1>5. Idle.own = {} /\ Idle.op = "none"
    BY DEF Idle
  <1>6. role \in [Roles -> [name : Names \cup {None}, ver : Versions]]
    BY <1>1, <1>3
  <1>7. version \in [Targets -> Versions]
    BY <1>2, VersionsNat
  <1>8. TypeOK
    BY <1>1, <1>2, <1>3, <1>4, <1>5, <1>6, <1>7 DEF TypeOK, Exists
  <1>9. FreshIds /\ NamesApart /\ \A t \in Txs : Frame(t)
    BY <1>4, <1>5 DEF FreshIds, NamesApart, Frame, CreateFrame, GrantFrame, DeleteFrame,
                      RenameFrame, UpdateFrame, DropFrame, NameFrame, TakenBy
  <1> QED BY <1>8, <1>9 DEF IInv

(* Every handler's every step keeps every frame. *)
LEMMA NextInv == IInv /\ [Next]_vars => IInv'
  <1> SUFFICES ASSUME IInv, [Next]_vars PROVE IInv'
    OBVIOUS
  <1>1. ASSUME NEW t \in Txs, Begin(t) PROVE IInv'
    BY <1>1, BeginKeeps
  <1>2. ASSUME NEW t \in Txs, Abort(t) PROVE IInv'
    BY <1>2, AbortKeeps
  <1>3. ASSUME NEW t \in Txs, Step(t) PROVE IInv'
    <2>1. CASE CommitRole(t) BY <2>1, CommitRoleKeeps
    <2>2. CASE CommitGrant(t) BY <2>2, CommitGrantKeeps
    <2>3. CASE CommitDelete(t) BY <2>3, CommitDeleteKeeps
    <2>4. CASE CommitRename(t) BY <2>4, CommitRenameKeeps
    <2>5. CASE CommitUpdate(t) BY <2>5, CommitUpdateKeeps
    <2>6. CASE CommitDrop(t) BY <2>6, CommitDropKeeps
    <2>7. CASE TakeName(t) BY <2>7, NameKeeps
    <2>8. CASE RoleExistsInTenant(t) \/ TargetExistsInTenant(t) \/ InsertGrant(t)
      BY <2>8, GrantKeeps
    <2>9. CASE LockRole(t) \/ ReadServerGrants(t) \/ ReadArtifactGrants(t) \/ DeleteRow(t)
      BY <2>9, DeleteKeeps
    <2>10. CASE CascadeEnds(t) \/ \E g \in Grants : CascadeRow(t, g)
      <3>1. tx[t].op \in {"delete", "drop"}
        BY <2>10 DEF CascadeEnds, CascadeRow, Cascading, At
      <3> QED BY <2>10, <3>1, DeleteKeeps, DropKeeps
    <2>11. CASE GetRole(t) \/ UpdateRoleName(t) BY <2>11, RenameKeeps
    <2>12. CASE \/ LockArtifact(t) \/ (\E row \in Rows : LockOneRow(t, row))
                \/ LockGrants(t) \/ WriteArtifact(t)
      BY <2>12, UpdateKeeps
    <2> QED BY <1>3, <2>1, <2>2, <2>3, <2>4, <2>5, <2>6, <2>7, <2>8, <2>9, <2>10, <2>11, <2>12
            DEF Step
  <1>4. ASSUME NEW g \in Grants, Revoke(g) PROVE IInv'
    BY <1>4, RevokeKeeps
  <1>5. CASE UNCHANGED vars
    <2>1. Tables' /\ UNCHANGED <<role, version, grants, spent, tx>>
      BY <1>5 DEF IInv, TypeOK, Tables, Exists, vars
    <2>2. \A u \in Txs : Frame(u)'
      BY <2>1, QuietFrame DEF IInv
    <2> QED BY <2>1, <2>2, TableStep
  <1> QED BY <1>1, <1>2, <1>3, <1>4, <1>5 DEF Next

(* The frames hold throughout. *)
LEMMA FrameInvariant == Spec => []IInv
  <1> QED BY InitInv, NextInv, PTL DEF Spec

(* Every grant is of a role and a target that exist, no two roles share a   *)
(* name, and no two requests hold a row against each other.                 *)
THEOREM TypeCorrect == Spec => []TypeOK
  <1>1. IInv => TypeOK
    BY DEF IInv
  <1> QED BY FrameInvariant, <1>1, PTL

(* handleDeleteRole's audit row names every grant its cascade destroys,     *)
(* however many grants are made and revoked around it.                      *)
THEOREM DeletionReportComplete == Spec => []RevokedReportComplete
  <1>1. IInv => RevokedReportComplete
    BY DEF IInv, Frame, DeleteFrame, RevokedReportComplete, At
  <1> QED BY FrameInvariant, <1>1, PTL

(* handleUpdateArtifact's audit row names the roles that hold the artifact  *)
(* when it commits, no more and no fewer.                                   *)
THEOREM UpdateReportIsExact == Spec => []UpdateReportExact
  <1>1. IInv => UpdateReportExact
    BY DEF IInv, Frame, UpdateFrame, UpdateReportExact, At
  <1> QED BY FrameInvariant, <1>1, PTL

(* handleUpdateRole's audit row names the role name that the rename         *)
(* replaces: the guarded update refuses a stale read.                       *)
THEOREM RenameReportIsTrue == Spec => []RenameReportTrue
  <1>1. IInv => RenameReportTrue
    BY DEF IInv, Frame, RenameFrame, RenameReportTrue, At
  <1> QED BY FrameInvariant, <1>1, PTL
-----------------------------------------------------------------------------
(* Who waits for whom. What a request can hold at most, by the place it     *)
(* has reached in its handler: the rows it has asked for, of its own role   *)
(* or target, and before the first of them nothing.                         *)

RowsOfRole(r) == {RowOf(r)} \cup {GrantRow(g) : g \in {h \in Grants : h[1] = r}}
RowsOfTarget(x) == {TargetRow(x)} \cup {GrantRow(g) : g \in {h \in Grants : h[2] = x}}

Held(f) ==
    /\ f.op # "grant" => f.share = {}
    /\ f.op = "grant" => /\ f.own = {}
                         /\ f.pc = "role" => f.share = {}
                         /\ f.share \subseteq {RowOf(f.role), TargetRow(f.target)}
    /\ f.op \in {"none", "create"} => f.own = {}
    /\ f.op = "delete" => /\ f.pc = "lock" => f.own = {}
                          /\ f.own \subseteq RowsOfRole(f.role)
    /\ f.op = "rename" => /\ f.pc \in {"read", "update"} => f.own = {}
                          /\ f.own \subseteq {RowOf(f.role)}
    /\ f.op = "update" => /\ f.pc = "lock" => f.own = {}
                          /\ f.own \subseteq RowsOfTarget(f.target)
    /\ f.op = "drop" => f.own \subseteq RowsOfTarget(f.target)

AllHeld == \A t \in Txs : Held(tx[t])

(* A request's step moves no rows but its own. *)
LEMMA HeldStep ==
  ASSUME AllHeld, NEW t \in Txs, \A u \in Txs \ {t} : tx'[u] = tx[u], Held(tx'[t])
  PROVE  AllHeld'
  BY DEF AllHeld

(* What a request takes is of its own role or target. *)
LEMMA HeldOn ==
  ASSUME AllHeld, NEW t \in Txs, \A u \in Txs \ {t} : tx'[u] = tx[u],
         tx'[t].op = tx[t].op, tx'[t].role = tx[t].role, tx'[t].target = tx[t].target,
         NEW rows, tx'[t].own = tx[t].own \cup rows, tx'[t].share = tx[t].share,
         \/ tx'[t].pc \notin {"role", "lock", "read", "update"}
         \/ rows = {} /\ tx'[t].pc = "update" /\ tx[t].pc = "read",
         tx[t].op \in {"none", "create", "grant"} => rows = {},
         tx[t].op = "delete" => rows \subseteq RowsOfRole(tx[t].role),
         tx[t].op = "rename" => rows \subseteq {RowOf(tx[t].role)},
         tx[t].op \in {"update", "drop"} => rows \subseteq RowsOfTarget(tx[t].target)
  PROVE  AllHeld'
  <1>1. Held(tx[t])
    BY DEF AllHeld
  <1>2. Held(tx'[t])
    BY <1>1 DEF Held
  <1> QED BY <1>2, HeldStep

(* Every statement takes the rows its place in the handler allows. *)
LEMMA NextHeld == IInv /\ AllHeld /\ [Next]_vars => AllHeld'
  <1> SUFFICES ASSUME IInv, AllHeld, [Next]_vars PROVE AllHeld'
    OBVIOUS
  <1>0. tx \in [Txs -> Request] /\ grants \subseteq Grants
    BY DEF IInv, TypeOK
  <1>1. ASSUME NEW t \in Txs, Begin(t) PROVE AllHeld'
    <2> DEFINE Empty == /\ tx'[t].own = {} /\ tx'[t].share = {}
                        /\ \A u \in Txs \ {t} : tx'[u] = tx[u]
    <2>1. ASSUME NEW r \in Roles, DeleteRole(t, r) PROVE Empty
      BY <1>0, <2>1 DEF DeleteRole, Idle
    <2>2. ASSUME NEW r \in Roles, NEW n \in Names, CreateRole(t, r, n) PROVE Empty
      BY <1>0, <2>2 DEF CreateRole, Idle
    <2>3. ASSUME NEW r \in Roles, NEW n \in Names, RenameRole(t, r, n) PROVE Empty
      BY <1>0, <2>3 DEF RenameRole, Idle
    <2>4. ASSUME NEW r \in Roles, NEW x \in Targets, Grant(t, r, x) PROVE Empty
      BY <1>0, <2>4 DEF Grant, Idle
    <2>5. ASSUME NEW x \in Artifacts, UpdateArtifact(t, x) PROVE Empty
      BY <1>0, <2>5 DEF UpdateArtifact, Idle
    <2>6. CASE Empty
      BY <2>6, HeldStep DEF Held
    <2>7. ASSUME NEW x \in Targets, DeleteTarget(t, x) PROVE AllHeld'
      <3>1. /\ tx'[t].op = "drop" /\ tx'[t].share = {} /\ tx'[t].target = x
            /\ tx'[t].own = {TargetRow(x)} /\ \A u \in Txs \ {t} : tx'[u] = tx[u]
        BY <1>0, <2>7 DEF DeleteTarget, Idle
      <3> QED BY <3>1, HeldStep DEF Held, RowsOfTarget
    <2> QED BY <1>1, <2>1, <2>2, <2>3, <2>4, <2>5, <2>6, <2>7 DEF Begin
  <1>2. ASSUME NEW t \in Txs, tx' = [tx EXCEPT ![t] = Idle] PROVE AllHeld'
    <2>1. tx'[t].own = {} /\ tx'[t].share = {} /\ \A u \in Txs \ {t} : tx'[u] = tx[u]
      BY <1>0, <1>2 DEF Idle
    <2> QED BY <2>1, HeldStep DEF Held
  <1>3. ASSUME NEW t \in Txs, RoleExistsInTenant(t) \/ TargetExistsInTenant(t) PROVE AllHeld'
    <2>1. /\ tx'[t].op = "grant" /\ tx'[t].own = tx[t].own /\ tx'[t].role = tx[t].role
          /\ tx'[t].target = tx[t].target /\ tx'[t].pc # "role"
          /\ tx[t].op = "grant" /\ \A u \in Txs \ {t} : tx'[u] = tx[u]
      BY <1>0, <1>3 DEF RoleExistsInTenant, TargetExistsInTenant, At, Request
    <2>2. tx'[t].share \subseteq tx[t].share \cup {RowOf(tx[t].role), TargetRow(tx[t].target)}
      BY <1>0, <1>3 DEF RoleExistsInTenant, TargetExistsInTenant, Request
    <2> QED BY <2>1, <2>2, HeldStep DEF AllHeld, Held
  <1>4. ASSUME NEW t \in Txs, NEW row,
               \/ LockRole(t) /\ row = RowOf(tx[t].role)
               \/ DeleteRow(t) /\ row = RowOf(tx[t].role)
               \/ UpdateRoleName(t) /\ row = RowOf(tx[t].role)
               \/ LockArtifact(t) /\ row = TargetRow(tx[t].target)
               \/ LockOneRow(t, row)
               \/ \E g \in Grants : CascadeRow(t, g) /\ row = GrantRow(g)
        PROVE  AllHeld'
    <2> DEFINE Takes ==
                 /\ \A u \in Txs \ {t} : tx'[u] = tx[u]
                 /\ tx'[t].own = tx[t].own \cup {row}
                 /\ tx'[t].op = tx[t].op /\ tx'[t].role = tx[t].role
                 /\ tx'[t].target = tx[t].target /\ tx'[t].share = tx[t].share
                 /\ tx'[t].pc \notin {"role", "lock", "read", "update"}
    <2>1. Takes
      <3>1. CASE LockRole(t) /\ row = RowOf(tx[t].role)
        BY <1>0, <3>1 DEF LockRole, Request
      <3>2. CASE DeleteRow(t) /\ row = RowOf(tx[t].role)
        BY <1>0, <3>2 DEF DeleteRow, Request
      <3>3. CASE UpdateRoleName(t) /\ row = RowOf(tx[t].role)
        BY <1>0, <3>3 DEF UpdateRoleName, Request
      <3>4. CASE LockArtifact(t) /\ row = TargetRow(tx[t].target)
        BY <1>0, <3>4 DEF LockArtifact, Request
      <3>5. CASE LockOneRow(t, row)
        BY <1>0, <3>5 DEF LockOneRow, At, Request
      <3>6. ASSUME NEW g \in Grants, CascadeRow(t, g), row = GrantRow(g) PROVE Takes
        BY <1>0, <3>6 DEF CascadeRow, Cascading, At, Request
      <3> QED BY <1>4, <3>1, <3>2, <3>3, <3>4, <3>5, <3>6
    <2>2. CASE row = RowOf(tx[t].role) /\ tx[t].op \in {"delete", "rename"}
      BY <2>1, <2>2, HeldOn DEF RowsOfRole
    <2>3. CASE LockArtifact(t) /\ row = TargetRow(tx[t].target)
      <3>1. tx[t].op = "update"
        BY <2>3 DEF LockArtifact, At
      <3> QED BY <2>1, <2>3, <3>1, HeldOn DEF RowsOfTarget
    <2>4. CASE LockOneRow(t, row)
      <3>1. tx[t].op = "update" /\ row \in GrantRows(GrantsOf(tx[t].target))
        BY <2>4 DEF LockOneRow, RowsOfGrantRead, At
      <3>2. row \in RowsOfTarget(tx[t].target)
        BY <1>0, <3>1 DEF GrantRows, GrantsOf, RowsOfTarget
      <3> QED BY <2>1, <3>1, <3>2, HeldOn
    <2>5. ASSUME NEW g \in Grants, CascadeRow(t, g), row = GrantRow(g) PROVE AllHeld'
      <3>1. g \in Doomed(t) /\ tx[t].op \in {"delete", "drop"}
        BY <2>5 DEF CascadeRow, Cascading, At
      <3>2. CASE tx[t].op = "delete"
        <4>1. row \in RowsOfRole(tx[t].role)
          BY <2>5, <3>1, <3>2 DEF Doomed, GrantsOfRole, RowsOfRole
        <4> QED BY <2>1, <3>2, <4>1, HeldOn
      <3>3. CASE tx[t].op = "drop"
        <4>1. row \in RowsOfTarget(tx[t].target)
          BY <2>5, <3>1, <3>3 DEF Doomed, GrantsOf, RowsOfTarget
        <4> QED BY <2>1, <3>3, <4>1, HeldOn
      <3> QED BY <3>1, <3>2, <3>3
    <2> QED BY <1>4, <2>2, <2>3, <2>4, <2>5 DEF LockRole, DeleteRow, UpdateRoleName, At
  <1>5. ASSUME NEW t \in Txs,
               \/ TakeName(t) \/ InsertGrant(t) \/ ReadServerGrants(t) \/ ReadArtifactGrants(t)
               \/ CascadeEnds(t) \/ GetRole(t) \/ LockGrants(t) \/ WriteArtifact(t)
        PROVE  AllHeld'
    <2>1. /\ \A u \in Txs \ {t} : tx'[u] = tx[u]
          /\ tx'[t].own = tx[t].own \cup {}
          /\ tx'[t].op = tx[t].op /\ tx'[t].role = tx[t].role /\ tx'[t].target = tx[t].target
          /\ tx'[t].share = tx[t].share
          /\ \/ tx'[t].pc \notin {"role", "lock", "read", "update"}
             \/ tx'[t].pc = "update" /\ tx[t].pc = "read"
      BY <1>0, <1>5 DEF TakeName, InsertGrant, ReadServerGrants, ReadArtifactGrants,
                        CascadeEnds, GetRole, LockGrants, WriteArtifact, At, Request
    <2> QED BY <2>1, HeldOn
  <1>6. ASSUME NEW t \in Txs, Step(t) PROVE AllHeld'
    BY <1>2, <1>3, <1>4, <1>5, <1>6
    DEF Step, CommitRole, CommitGrant, CommitDelete, CommitRename, CommitUpdate, CommitDrop
  <1>7. CASE tx' = tx
    BY <1>7 DEF AllHeld
  <1> QED BY <1>1, <1>2, <1>6, <1>7 DEF Next, Abort, Revoke, vars

(* Rows of different tables are different rows, and so are rows of          *)
(* different ids.                                                           *)
LEMMA RowsApart ==
    /\ \A q, r : RowOf(q) = RowOf(r) => q = r
    /\ \A x, y : TargetRow(x) = TargetRow(y) => x = y
    /\ \A g, h : GrantRow(g) = GrantRow(h) => g = h
    /\ \A r, x : RowOf(r) # TargetRow(x)
    /\ \A r, g : RowOf(r) # GrantRow(g)
    /\ \A x, g : TargetRow(x) # GrantRow(g)
  BY DEF RowOf, TargetRow, GrantRow

(* Always, each request holds only what its place in the handler allows. *)
LEMMA HeldInvariant == Spec => [](IInv /\ AllHeld)
  <1>1. Init => AllHeld
    BY DEF Init, AllHeld, Held, Idle
  <1> QED BY <1>1, InitInv, NextInv, NextHeld, PTL DEF Spec

(* A request that waits, one by one, for the grant rows of its cascade or   *)
(* of its locking read.                                                     *)
Gathering(t) == Cascading(t) \/ At(t, "update", "grants")

(* The grant is one of the role that a request deletes, or of the target    *)
(* that it updates or deletes.                                              *)
Claims(f, g) ==
    \/ f.op = "delete" /\ g[1] = f.role
    \/ f.op \in {"update", "drop"} /\ g[2] = f.target

(* Whoever holds a grant row has claimed it. *)
LEMMA HolderClaims ==
  ASSUME IInv, AllHeld, NEW u \in Txs, NEW g \in Grants,
         GrantRow(g) \in tx[u].own \cup tx[u].share
  PROVE  GrantRow(g) \in tx[u].own /\ Claims(tx[u], g)
  <1>1. Held(tx[u]) /\ tx[u] \in Request
    BY DEF AllHeld, IInv, TypeOK
  <1>2. GrantRow(g) \notin {RowOf(tx[u].role), TargetRow(tx[u].target)}
    BY RowsApart
  <1>3. tx[u].op # "grant"
    BY <1>1, <1>2 DEF Held
  <1>4. GrantRow(g) \in tx[u].own
    BY <1>1, <1>3 DEF Held
  <1>5. GrantRow(g) \in RowsOfRole(tx[u].role) => g[1] = tx[u].role
    BY <1>2, RowsApart DEF RowsOfRole
  <1>6. GrantRow(g) \in RowsOfTarget(tx[u].target) => g[2] = tx[u].target
    BY <1>2, RowsApart DEF RowsOfTarget
  <1>7. tx[u].op \in {"delete", "update", "drop"}
    BY <1>1, <1>2, <1>4 DEF Held, Request
  <1> QED BY <1>1, <1>4, <1>5, <1>6, <1>7 DEF Held, Claims

(* Whoever gathers waits for a grant that it claims itself. *)
LEMMA GathererClaims ==
  ASSUME IInv, AllHeld, NEW t \in Txs, NEW u \in Txs, Gathering(t), WaitsFor(t, u)
  PROVE  \E g \in Grants : Claims(tx[t], g) /\ GrantRow(g) \in tx[u].own \cup tx[u].share
  <1>1. WantsToShare(t) = {} /\ ~Naming(t) /\ ~At(t, "grant", "insert") /\ ~Writing(t)
    BY DEF Gathering, Cascading, WantsToShare, Naming, Writing, At
  <1>2. grants \subseteq Grants
    BY DEF IInv, TypeOK
  <1>3. (tx[u].own \cup tx[u].share) \cap WantsToOwn(t) # {}
    BY <1>1 DEF WaitsFor
  <1>4. CASE Cascading(t)
    <2>1. WantsToOwn(t) = GrantRows(Doomed(t))
      BY <1>4 DEF WantsToOwn, Cascading, At
    <2>2. PICK g \in Doomed(t) : GrantRow(g) \in tx[u].own \cup tx[u].share
      BY <1>3, <2>1 DEF GrantRows
    <2> QED BY <1>2, <1>4, <2>2 DEF Doomed, GrantsOfRole, GrantsOf, Claims, Cascading, At
  <1>5. CASE At(t, "update", "grants")
    <2>1. WantsToOwn(t) = GrantRows(GrantsOf(tx[t].target))
      BY <1>5 DEF WantsToOwn, RowsOfGrantRead, Cascading, At
    <2>2. PICK g \in GrantsOf(tx[t].target) : GrantRow(g) \in tx[u].own \cup tx[u].share
      BY <1>3, <2>1 DEF GrantRows
    <2> QED BY <1>2, <1>5, <2>2 DEF GrantsOf, Claims, At
  <1> QED BY <1>4, <1>5 DEF Gathering

(* A request that waits and is waited for is past its first lock. *)
LEMMA WaitingInBetween ==
  ASSUME IInv, AllHeld, NEW t \in Txs, NEW u \in Txs, WaitsFor(t, u), WaitsFor(u, t)
  PROVE  \/ Gathering(t) \/ At(t, "grant", "target") \/ At(t, "rename", "name")
         \/ Writing(t)
  <1>1. Held(tx[t]) /\ t # u
    BY DEF AllHeld, WaitsFor
  <1>2. CASE \/ At(t, "delete", "lock") \/ At(t, "rename", "update") \/ At(t, "update", "lock")
             \/ At(t, "grant", "role") \/ At(t, "create", "name")
    <2>1. tx[t].own = {} /\ tx[t].share = {}
      BY <1>1, <1>2 DEF Held, At
    <2>2. ~PairHeld(t, Pair(u)) /\ ~NameHeld(t, tx[u].name) /\ ~IdentityHeld(t)
      BY <1>2 DEF PairHeld, NameHeld, Renames, Deletes, IdentityHeld, Writing, At
    <2> QED BY <2>1, <2>2 DEF WaitsFor
  <1>3. CASE At(t, "delete", "delete")
    <2>1. RowOf(tx[t].role) \in tx[t].own
      BY <1>3 DEF IInv, Frame, DeleteFrame, At
    <2>2. RowOf(tx[t].role) \notin tx[u].own \cup tx[u].share
      BY <1>1, <2>1, OneOwner
    <2>3. WantsToOwn(t) = {RowOf(tx[t].role)} /\ WantsToShare(t) = {}
      <3>1. WantsToOwn(t) = {RowOf(tx[t].role)}
        BY <1>3 DEF WantsToOwn, Cascading, At
      <3>2. WantsToShare(t) = {}
        BY <1>3 DEF WantsToShare, At
      <3> QED BY <3>1, <3>2
    <2>4. ~Naming(t) /\ ~At(t, "grant", "insert") /\ ~Writing(t)
      BY <1>3 DEF Naming, Writing, At
    <2> QED BY <2>2, <2>3, <2>4 DEF WaitsFor
  <1>4. CASE At(t, "grant", "insert")
    <2>1. WantsToOwn(t) = {} /\ WantsToShare(t) = {} /\ ~Naming(t) /\ ~Writing(t)
      BY <1>4 DEF WantsToOwn, WantsToShare, Cascading, Naming, Writing, At
    <2>2. At(u, "grant", "commit")
      BY <2>1 DEF WaitsFor, PairHeld
    <2>3. WantsToOwn(u) = {} /\ WantsToShare(u) = {} /\ ~Naming(u) /\ ~Writing(u)
            /\ ~At(u, "grant", "insert")
      BY <2>2 DEF WantsToOwn, WantsToShare, Cascading, Naming, Writing, At
    <2> QED BY <2>3 DEF WaitsFor
  <1>5. CASE /\ ~Gathering(t) /\ ~At(t, "grant", "target") /\ ~Naming(t) /\ ~Writing(t)
             /\ ~At(t, "delete", "lock") /\ ~At(t, "rename", "update") /\ ~At(t, "update", "lock")
             /\ ~At(t, "grant", "role") /\ ~At(t, "delete", "delete") /\ ~At(t, "grant", "insert")
    <2>1. WantsToOwn(t) = {} /\ WantsToShare(t) = {}
      BY <1>5 DEF WantsToOwn, WantsToShare, Gathering
    <2> QED BY <1>5, <2>1 DEF WaitsFor
  <1> QED BY <1>2, <1>3, <1>4, <1>5 DEF Naming

(* Two requests that gather do not wait for each other: two that claim by   *)
(* role, or two that claim by target, would own the same row already, and   *)
(* one of each kind meet in a single grant.                                 *)
LEMMA GatherersApart ==
  ASSUME IInv, AllHeld, NEW t \in Txs, NEW u \in Txs, Gathering(t), Gathering(u),
         WaitsFor(t, u), WaitsFor(u, t)
  PROVE  FALSE
  <1>1. t # u
    BY DEF WaitsFor
  <1>2. PICK g \in Grants : Claims(tx[t], g) /\ GrantRow(g) \in tx[u].own \cup tx[u].share
    BY GathererClaims
  <1>3. PICK h \in Grants : Claims(tx[u], h) /\ GrantRow(h) \in tx[t].own \cup tx[t].share
    BY GathererClaims
  <1>4. /\ GrantRow(g) \in tx[u].own /\ Claims(tx[u], g)
        /\ GrantRow(h) \in tx[t].own /\ Claims(tx[t], h)
    BY <1>2, <1>3, HolderClaims
  <1>5. ASSUME NEW v \in Txs, Gathering(v)
        PROVE  /\ tx[v].op \in {"delete", "update", "drop"}
               /\ tx[v].op = "delete" => RowOf(tx[v].role) \in tx[v].own
               /\ tx[v].op # "delete" => TargetRow(tx[v].target) \in tx[v].own
    BY <1>5 DEF Gathering, Cascading, At, IInv, Frame, DeleteFrame, UpdateFrame, DropFrame
  <1>6. CASE tx[t].op = "delete" /\ tx[u].op = "delete"
    <2>1. tx[t].role = tx[u].role
      BY <1>2, <1>4, <1>6 DEF Claims
    <2> QED BY <1>1, <1>5, <1>6, <2>1, OneOwner
  <1>7. CASE tx[t].op # "delete" /\ tx[u].op # "delete"
    <2>1. tx[t].target = tx[u].target
      BY <1>2, <1>4, <1>7 DEF Claims
    <2> QED BY <1>1, <1>5, <1>7, <2>1, OneOwner
  <1>8. CASE (tx[t].op = "delete") # (tx[u].op = "delete")
    <2>1. g[1] = h[1] /\ g[2] = h[2]
      BY <1>2, <1>3, <1>4, <1>8 DEF Claims
    <2>2. g = h
      BY <2>1 DEF Grants
    <2> QED BY <1>1, <1>4, <2>2, OneOwner
  <1> QED BY <1>6, <1>7, <1>8

(* A request that gathers, and one that does not. *)
LEMMA GathererAlone ==
  ASSUME IInv, AllHeld, NEW t \in Txs, NEW u \in Txs, Gathering(t), ~Gathering(u),
         WaitsFor(t, u), WaitsFor(u, t)
  PROVE  FALSE
  <1>1. t # u
    BY DEF WaitsFor
  <1>2. PICK g \in Grants : Claims(tx[t], g) /\ GrantRow(g) \in tx[u].own \cup tx[u].share
    BY GathererClaims
  <1>3. Claims(tx[u], g)
    BY <1>2, HolderClaims
  <1>4. Writing(u)
    BY <1>3, WaitingInBetween DEF Claims, At
  <1>5. WantsToOwn(u) = {} /\ WantsToShare(u) = {} /\ ~Naming(u) /\ ~At(u, "grant", "insert")
    BY <1>4 DEF WantsToOwn, WantsToShare, Cascading, Naming, Writing, At
  <1>6. IdentityHeld(t)
    BY <1>5 DEF WaitsFor
  <1>7. tx[t].op = "drop"
    BY <1>6 DEF IdentityHeld, Gathering, Cascading, Writing, At
  <1>8. tx[t].target = tx[u].target
    BY <1>2, <1>3, <1>4, <1>7 DEF Claims, Writing, At
  <1>9. TargetRow(tx[t].target) \in tx[t].own /\ TargetRow(tx[u].target) \in tx[u].own
    BY <1>4, <1>7 DEF IInv, Frame, DropFrame, UpdateFrame, Writing, At
  <1> QED BY <1>1, <1>8, <1>9, OneOwner

(* A grant that waits for its target waits for one that owns that row. *)
LEMMA GranterAlone ==
  ASSUME IInv, AllHeld, NEW t \in Txs, NEW u \in Txs, At(t, "grant", "target"), ~Gathering(u),
         WaitsFor(t, u), WaitsFor(u, t)
  PROVE  FALSE
  <1>1. Held(tx[u])
    BY DEF AllHeld
  <1>2. TargetRow(tx[t].target) \in tx[u].own
    BY DEF WaitsFor, WantsToOwn, WantsToShare, Cascading, Naming, Writing, At
  <1>3. ~At(u, "grant", "target") /\ ~At(u, "rename", "name")
    BY <1>1, <1>2, RowsApart DEF Held, At
  <1>4. Writing(u)
    BY <1>3, WaitingInBetween
  <1>5. WantsToOwn(u) = {} /\ WantsToShare(u) = {} /\ ~Naming(u) /\ ~At(u, "grant", "insert")
    BY <1>4 DEF WantsToOwn, WantsToShare, Cascading, Naming, Writing, At
  <1>6. ~IdentityHeld(t)
    BY DEF IdentityHeld, Writing, At
  <1> QED BY <1>5, <1>6 DEF WaitsFor

(* Whatever two admin requests do, whichever rows and index entries their   *)
(* statements and cascades take, they do not wait for each other, unless    *)
(* they give two roles, or two artifacts, each other's name.                *)
THEOREM NoTwoWait == Spec => []NoMutualWait
  <1>1. IInv /\ AllHeld => NoMutualWait
    <2> SUFFICES ASSUME IInv, AllHeld, NEW t \in Txs, NEW u \in Txs, WaitsFor(t, u), WaitsFor(u, t)
                 PROVE  (Naming(t) /\ Naming(u)) \/ (Writing(t) /\ Writing(u))
      BY DEF NoMutualWait
    <2>1. ~Gathering(t) /\ ~Gathering(u)
      BY GatherersApart, GathererAlone
    <2>2. ~At(t, "grant", "target") /\ ~At(u, "grant", "target")
      BY <2>1, GranterAlone
    <2>3. /\ At(t, "rename", "name") \/ Writing(t)
          /\ At(u, "rename", "name") \/ Writing(u)
      BY <2>1, <2>2, WaitingInBetween
    <2>4. ASSUME NEW v \in Txs, NEW w \in Txs, At(v, "rename", "name"), Writing(w), WaitsFor(v, w)
          PROVE  FALSE
      <3>1. WantsToOwn(v) = {} /\ WantsToShare(v) = {} /\ ~At(v, "grant", "insert") /\ ~Writing(v)
        BY <2>4 DEF WantsToOwn, WantsToShare, Cascading, Writing, At
      <3>2. ~NameHeld(w, tx[v].name)
        BY <2>4 DEF NameHeld, Renames, Deletes, Writing, At
      <3> QED BY <2>4, <3>1, <3>2 DEF WaitsFor
    <2> QED BY <2>3, <2>4 DEF Naming
  <1> QED BY <1>1, HeldInvariant, PTL

=============================================================================
