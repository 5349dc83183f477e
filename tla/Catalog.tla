------------------------------ MODULE Catalog ------------------------------
(***************************************************************************)
(* The tenant's MCP servers and the admins who edit them at the same time   *)
(* (internal/api/admin_servers.go, caps.go, precondition.go, over           *)
(* internal/store/mcpserver.go), and how a gateway hears of it              *)
(* (internal/api/admin_audit_helper.go, internal/store/notify.go,           *)
(* internal/gateway/nudge.go).                                              *)
(*                                                                          *)
(* A write is three statements with nothing held between them: the slugs of *)
(* the other servers are read, the active ones are counted, and one         *)
(* transaction writes the row, its audit row and the notification. Only a   *)
(* raw name is unique in the database; only an update of the row version    *)
(* that the client was shown goes through. An entitlement is created,       *)
(* edited and deleted by the same auditedTx, with no check before it; roles *)
(* too (RoleGrants).                                                        *)
(*                                                                          *)
(* A request that is malformed (body, transport, status, endpoint, secret   *)
(* references, If-Match) is refused before any of this. References to       *)
(* secrets and the other columns are left out: what is told apart is a      *)
(* row's name, whether it is active, and its version.                       *)
(***************************************************************************)
EXTENDS Naturals, FiniteSets

CONSTANTS
    Writers,    \* admin requests in flight
    Ids,        \* server ids, as many as are ever created (a bound)
    Names,      \* server names
    SlugOf,     \* naming.Slugify
    Cap,        \* editionLimits.Servers, 0 for none
    MaxVersion, \* bound: how often a row is updated
    MaxPending, \* bound: notifications on their way
    None

CatalogAssumption ==
    /\ \A n \in Names : None # SlugOf[n]
    /\ Cap \in Nat /\ MaxVersion \in Nat \ {0} /\ MaxPending \in Nat \ {0}
    /\ IsFiniteSet(Ids) /\ None \notin Ids \cup Nat

VARIABLES
    servers,  \* mcp_server: the row of each id, None if it is not there
    spent,    \* ids given out so far; a deleted server's id is not used again
    grant,    \* one entitlement: 0 before it is created, its version, then None
    req,      \* each writer's handler
    gw        \* a gateway replica: its listener and one session of the tenant

vars == <<servers, spent, grant, req, gw>>

(* id: the server to update, None for a create. expected: the version in    *)
(* If-Match. touched: somebody wrote the row after the client had read it.  *)
(* raced: rows others wrote since this writer's first check.                *)
Idle == [pc |-> "idle", id |-> None, name |-> None, active |-> FALSE, expected |-> 0,
         touched |-> FALSE, raced |-> {}]

(* stale: the catalog has changed since the session's build read it. missed:*)
(* no notification of the latest change can reach this session.             *)
Gateways == [listening : BOOLEAN, pending : Nat, session : {"none", "building", "cached"},
             stale : BOOLEAN, missed : BOOLEAN]

(* The gateway without its session. *)
Dropped(g) == [g EXCEPT !.session = "none", !.stale = FALSE, !.missed = FALSE]

Init ==
    /\ servers = [i \in Ids |-> None]
    /\ spent = {}
    /\ grant = 0
    /\ req = [w \in Writers |-> Idle]
    /\ gw = [listening |-> FALSE, pending |-> 0, session |-> "none",
             stale |-> FALSE, missed |-> FALSE]

-----------------------------------------------------------------------------

At(w, pc) == req[w].pc = pc

Rows == {i \in Ids : servers[i] # None}

ActiveRows == {i \in Rows : servers[i].active}

Others(w) == Rows \ {req[w].id}

Return(w) == req' = [req EXCEPT ![w] = Idle]

(* What handleGetServer gives a client to send back as If-Match: a row that *)
(* is there has one, and an update without it is refused.                   *)
ETag(i) == servers[i].version

(* handleCreateServer, handleUpdateServer up to their checks. *)
BeginCreate(w, n, a) ==
    /\ At(w, "idle")
    /\ req' = [req EXCEPT ![w] = [Idle EXCEPT !.pc = "slug", !.name = n, !.active = a]]
    /\ UNCHANGED <<servers, spent, grant, gw>>

BeginUpdate(w, i, n, a) ==
    /\ At(w, "idle")
    /\ i \in Rows
    /\ req' = [req EXCEPT ![w] = [Idle EXCEPT !.pc = "slug", !.id = i, !.name = n,
                                  !.active = a, !.expected = ETag(i)]]
    /\ UNCHANGED <<servers, spent, grant, gw>>

\* Mutant: names are compared as they are, not as slugs.
Collides_RawName(m, n) == m = n

Collides(m, n) == SlugOf[m] = SlugOf[n]

(* checkServerSlugCollision: one read of the tenant's servers. *)
SlugFree(w) ==
    /\ At(w, "slug")
    /\ \A i \in Others(w) : ~Collides(servers[i].name, req[w].name)
    /\ req' = [req EXCEPT ![w].pc = "cap"]
    /\ UNCHANGED <<servers, spent, grant, gw>>

SlugTaken(w) ==
    /\ At(w, "slug")
    /\ \E i \in Others(w) : Collides(servers[i].name, req[w].name)
    /\ Return(w)
    /\ UNCHANGED <<servers, spent, grant, gw>>

(* checkServerActiveCap: another read. A disabled server is never capped.   *)
Capped(w) ==
    /\ Cap > 0 /\ req[w].active
    /\ Cardinality(ActiveRows \ {req[w].id}) >= Cap

UnderCap(w) ==
    /\ At(w, "cap")
    /\ ~Capped(w)
    /\ req' = [req EXCEPT ![w].pc = "tx"]
    /\ UNCHANGED <<servers, spent, grant, gw>>

LimitError(w) ==
    /\ At(w, "cap")
    /\ Capped(w)
    /\ Return(w)
    /\ UNCHANGED <<servers, spent, grant, gw>>

-----------------------------------------------------------------------------
(* auditedTx *)

\* Mutant: the action's prefix is not among those that nudge.
Announced_Silently(g) ==
    [g EXCEPT !.stale = g.session # "none",
              !.missed = g.session = "building" \/ (g.session = "cached" /\ ~g.listening)]

(* The gateway's view of a commit. A notification is delivered on commit to *)
(* whoever listens then. A build that has already read the catalog is not   *)
(* in the cache yet, so invalidateTenant will not find it.                  *)
Announced(g) ==
    [g EXCEPT !.pending = IF g.listening THEN @ + 1 ELSE @,
              !.stale = g.session # "none",
              !.missed = g.session = "building" \/ (g.session = "cached" /\ ~g.listening)]

(* The row is written, its audit row appended, the tenant announced, all or *)
(* nothing. w is None for a delete.                                         *)
Commit(w, i, row) ==
    /\ gw.pending < MaxPending
    /\ servers' = [servers EXCEPT ![i] = row]
    /\ gw' = Announced(gw)
    /\ req' = [q \in Writers |->
                 IF q = w THEN Idle
                 ELSE IF At(q, "idle") THEN req[q]
                 ELSE [req[q] EXCEPT
                         !.touched = @ \/ req[q].id = i,
                         !.raced = IF At(q, "slug") THEN {} ELSE @ \cup {i}]]

(* UNIQUE (tenant_id, name). *)
NameTaken(w) == \E i \in Others(w) : servers[i].name = req[w].name

CommitCreate(w, i) ==
    /\ At(w, "tx") /\ req[w].id = None
    /\ i \notin spent
    /\ ~NameTaken(w)
    /\ Commit(w, i, [name |-> req[w].name, active |-> req[w].active, version |-> 1])
    /\ spent' = spent \cup {i}
    /\ UNCHANGED grant

(* bump_row_version, before every UPDATE. *)
Bumped(v) == v + 1

(* UpdateMCPServer: WHERE row_version is the one in If-Match. *)
CommitUpdate(w) ==
    /\ At(w, "tx") /\ req[w].id \in Rows
    /\ LET i == req[w].id IN
       /\ servers[i].version = req[w].expected
       /\ servers[i].version < MaxVersion
       /\ ~NameTaken(w)
       /\ Commit(w, i, [name |-> req[w].name, active |-> req[w].active,
                        version |-> Bumped(servers[i].version)])
    /\ UNCHANGED <<spent, grant>>

(* ErrVersionMismatch: 412, and a row of its own that says "deny". *)
VersionMismatch(w) ==
    /\ At(w, "tx") /\ req[w].id \in Rows
    /\ servers[req[w].id].version # req[w].expected
    /\ Return(w)
    /\ UNCHANGED <<servers, spent, grant, gw>>

(* ErrNotFound: deleted meanwhile. *)
NotFound(w) ==
    /\ At(w, "tx") /\ req[w].id \notin Rows \cup {None}
    /\ Return(w)
    /\ UNCHANGED <<servers, spent, grant, gw>>

(* A statement fails, the unique index among the reasons; so does the       *)
(* transaction, whichever of its statements it was.                         *)
Fails(w) ==
    /\ ~At(w, "idle")
    /\ Return(w)
    /\ UNCHANGED <<servers, spent, grant, gw>>

(* handleDeleteServer, with no check before its transaction. *)
Delete(i) ==
    /\ i \in Rows
    /\ Commit(None, i, None)
    /\ UNCHANGED <<spent, grant>>

Write ==
    \/ \E w \in Writers :
          \/ \E n \in Names, a \in BOOLEAN :
                BeginCreate(w, n, a) \/ \E i \in Ids : BeginUpdate(w, i, n, a)
          \/ SlugFree(w) \/ SlugTaken(w) \/ UnderCap(w) \/ LimitError(w)
          \/ \E i \in Ids : CommitCreate(w, i)
          \/ CommitUpdate(w) \/ VersionMismatch(w) \/ NotFound(w) \/ Fails(w)
    \/ \E i \in Ids : Delete(i)

-----------------------------------------------------------------------------
(* An entitlement: which of a server's tools a role may call *)

(* auditedTx again. w is None for a create and for a delete. *)
CommitGrant(w, version) ==
    /\ gw.pending < MaxPending
    /\ grant' = version
    /\ gw' = Announced(gw)
    /\ req' = [q \in Writers |->
                 IF q = w THEN Idle ELSE [req[q] EXCEPT !.touched = @ \/ At(q, "grant")]]
    /\ UNCHANGED <<servers, spent>>

CreateEntitlement ==
    /\ grant = 0
    /\ CommitGrant(None, 1)

DeleteEntitlement ==
    /\ grant \in 1..MaxVersion
    /\ CommitGrant(None, None)

(* handleUpdateEntitlement, up to its transaction. *)
BeginGrantUpdate(w) ==
    /\ At(w, "idle")
    /\ grant \in 1..MaxVersion
    /\ req' = [req EXCEPT ![w] = [Idle EXCEPT !.pc = "grant", !.expected = grant]]
    /\ UNCHANGED <<servers, spent, grant, gw>>

UpdateEntitlement(w) ==
    /\ At(w, "grant")
    /\ grant = req[w].expected /\ grant < MaxVersion
    /\ CommitGrant(w, Bumped(grant))

(* ErrVersionMismatch, with its "deny" row, or ErrNotFound. *)
GrantMoved(w) ==
    /\ At(w, "grant")
    /\ grant # req[w].expected
    /\ Return(w)
    /\ UNCHANGED <<servers, spent, grant, gw>>

WriteGrant ==
    \/ CreateEntitlement \/ DeleteEntitlement
    \/ \E w \in Writers :
          BeginGrantUpdate(w) \/ UpdateEntitlement(w) \/ GrantMoved(w) \/ Fails(w)

-----------------------------------------------------------------------------
(* The gateway *)

(* Store.Listen: a connection of its own, LISTEN, then one notification     *)
(* after another. Nothing is invalidated on account of the reconnection.    *)
Listen ==
    /\ ~gw.listening
    /\ gw' = [gw EXCEPT !.listening = TRUE]
    /\ UNCHANGED <<servers, spent, grant, req>>

(* The connection drops, and with it what it had not delivered; the loop in *)
(* StartEntitlementNudge waits and listens again.                           *)
ListenerDrops ==
    /\ gw.listening
    /\ gw' = [gw EXCEPT !.listening = FALSE, !.pending = 0,
                        !.missed = @ \/ (gw.pending > 0 /\ gw.stale)]
    /\ UNCHANGED <<servers, spent, grant, req>>

(* onNotify: invalidateTenant drops every session of the tenant in the      *)
(* cache.                                                                   *)
Notified ==
    /\ gw.pending > 0
    /\ gw' = [(IF gw.session = "cached" THEN Dropped(gw) ELSE gw) EXCEPT !.pending = @ - 1]
    /\ UNCHANGED <<servers, spent, grant, req>>

(* buildSession reads entitlements and servers, then dials for as long as   *)
(* it takes, then the session is cached.                                    *)
BuildReads ==
    /\ gw.session = "none"
    /\ gw' = [gw EXCEPT !.session = "building"]
    /\ UNCHANGED <<servers, spent, grant, req>>

BuildCached ==
    /\ gw.session = "building"
    /\ gw' = [gw EXCEPT !.session = "cached"]
    /\ UNCHANGED <<servers, spent, grant, req>>

(* sessionMaxAge, or idle for too long (SessionCache). *)
SessionExpires ==
    /\ gw.session = "cached"
    /\ gw' = Dropped(gw)
    /\ UNCHANGED <<servers, spent, grant, req>>

Gateway ==
    Listen \/ ListenerDrops \/ Notified \/ BuildReads \/ BuildCached \/ SessionExpires

Next == Write \/ WriteGrant \/ Gateway

Spec == Init /\ [][Next]_vars

-----------------------------------------------------------------------------
(* Properties *)

(* What others may do to a write between its checks and its commit. An      *)
(* update, of a server or of an entitlement, replaces exactly the row its   *)
(* client was shown. A committed server shares its slug only with rows      *)
(* other admins wrote after this one had looked, and an active one puts the *)
(* tenant over its cap by no more than those. Alone, an admin gets neither. *)
CommitsAsIfAlone ==
    [][\A w \in Writers :
         /\ UpdateEntitlement(w) => ~req[w].touched
         /\ \A i \in Ids : (CommitCreate(w, i) \/ (CommitUpdate(w) /\ i = req[w].id)) =>
            /\ ~req[w].touched
            /\ \A j \in Rows' \ {i} :
                  SlugOf[servers'[j].name] = SlugOf[req[w].name] => j \in req[w].raced
            /\ (Cap > 0 /\ req[w].active) =>
                  Cardinality(ActiveRows') <= Cap + Cardinality(ActiveRows \cap req[w].raced)]_vars

(* The nudge misses a session for two reasons only: nobody was listening,   *)
(* or the session was still being built. Every other cached session older   *)
(* than a committed change has a notification on its way.                   *)
NudgeCatches ==
    (gw.session = "cached" /\ gw.stale /\ ~gw.missed) => gw.listening /\ gw.pending > 0
=============================================================================
