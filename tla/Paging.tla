------------------------------- MODULE Paging -------------------------------
(***************************************************************************)
(* Walking a list page by page while it is being written                    *)
(* (internal/store/paging.go, internal/api/paging.go, the page queries of   *)
(* mcpserver.go, rbac.go and audit.go, their handlers), and the pruning of  *)
(* the audit log (PruneAuditEventsOlderThan, internal/api/retention.go).    *)
(*                                                                          *)
(* A row has an id and a sort key: a server's name, which is its own and    *)
(* may change; an entitlement's role, which many share and none changes;    *)
(* the time of an audit event, which many may share. A page is the first    *)
(* rows after the cursor in (key, id) order; the cursor is the position of  *)
(* the last row of the page before, with the order it was minted under.     *)
(* Nothing is kept on the server between two pages. A filter (q, actor,     *)
(* action, decision) narrows the table and is left out; a cursor that does  *)
(* not decode is refused and changes nothing. Roles are listed like         *)
(* servers, artifact entitlements like entitlements.                        *)
(***************************************************************************)
EXTENDS Naturals, FiniteSets

CONSTANTS
    RowIds,    \* uuids, as naturals: an order that has nothing to do with age
    MaxKey,    \* sort keys are 1..MaxKey
    MaxLimit,  \* maxListLimit, maxAuditLimit
    Batch,     \* retentionPruneBatch
    NoCursor,  \* the beginning of the list, or its end
    Absent,    \* the row has not been inserted
    Gone       \* the row has been deleted

SortKeys == 1..MaxKey
Cursors == [key : SortKeys, id : RowIds, desc : BOOLEAN]

PagingAssumption ==
    /\ RowIds \subseteq Nat /\ IsFiniteSet(RowIds)
    /\ {MaxKey, MaxLimit, Batch} \subseteq Nat \ {0}
    /\ NoCursor \notin Cursors

VARIABLES
    list,    \* the table that is walked: "mcp_server", "entitlement", "audit_event"
    table,   \* each row's key
    walk,    \* a client's walk through the list
    prune    \* the retention pass

vars == <<list, table, walk, prune>>

Present == {i \in RowIds : table[i] \in SortKeys}

(* cursor: the last row's [key, id, desc], or NoCursor. seen, twice: rows   *)
(* returned, and returned again. stayed: rows that have been in the list,   *)
(* under one key, since the walk began.                                     *)
NoWalk == [pc |-> "idle", cursor |-> NoCursor, seen |-> {}, twice |-> {}, stayed |-> {}]

Init ==
    /\ list \in {"mcp_server", "entitlement", "audit_event"}
    /\ table = [i \in RowIds |-> Absent]
    /\ walk = NoWalk
    /\ prune = [running |-> FALSE, cutoff |-> 1]

-----------------------------------------------------------------------------
(* The page query *)

Position(i) == [key |-> table[i], id |-> i]

(* The row comparison (key, id) < (key, id). *)
Before(p, q) == p.key < q.key \/ (p.key = q.key /\ p.id < q.id)

Precedes(p, q, desc) == IF desc THEN Before(q, p) ELSE Before(p, q)

(* pageParams: a limit beyond the maximum is the maximum. *)
Clamp(limit) == IF limit > MaxLimit THEN MaxLimit ELSE limit

(* keysetTail's predicate. *)
Following(c, desc) == {i \in Present : c = NoCursor \/ Precedes(c, Position(i), desc)}

(* ... and its ORDER BY ... LIMIT. *)
Page(c, desc, n) ==
    LET F == Following(c, desc) IN
    {i \in F : Cardinality({j \in F : Precedes(Position(j), Position(i), desc)}) < n}

LastOf(P, desc) == CHOOSE i \in P : \A j \in P \ {i} : Precedes(Position(j), Position(i), desc)

(* nextCursor is given exactly when the page is full. *)
NextCursor(P, desc, n) ==
    IF Cardinality(P) < n THEN NoCursor
    ELSE LET i == LastOf(P, desc) IN [key |-> table[i], id |-> i, desc |-> desc]

\* Mutant: a cursor is accepted under any order.
SortMatches_Any(c, desc) == TRUE

(* sortIdentity: a cursor is bound to the order it was minted under. *)
SortMatches(c, desc) == c # NoCursor => c.desc = desc

-----------------------------------------------------------------------------
(* The client *)

Start ==
    /\ walk.pc # "open"
    /\ walk' = [NoWalk EXCEPT !.pc = "open", !.stayed = Present]
    /\ UNCHANGED <<list, table, prune>>

(* The client takes the page and its nextCursor. *)
Receive(P, next) ==
    /\ walk' = [walk EXCEPT !.seen = @ \cup P,
                            !.twice = @ \cup (walk.seen \cap P),
                            !.cursor = next,
                            !.pc = IF next = NoCursor THEN "done" ELSE "open"]
    /\ UNCHANGED <<list, table, prune>>

(* keysetTail with either order; ErrCursorSortMismatch is a 400, and the    *)
(* client has to start again.                                               *)
KeysetPage(desc, limit) ==
    LET P == Page(walk.cursor, desc, Clamp(limit)) IN
    IF SortMatches(walk.cursor, desc)
    THEN Receive(P, NextCursor(P, desc, Clamp(limit)))
    ELSE walk' = NoWalk /\ UNCHANGED <<list, table, prune>>

(* handleListServers, handleListEntitlements. *)
ListServers(desc, limit) ==
    /\ walk.pc = "open" /\ list = "mcp_server"
    /\ KeysetPage(desc, limit)

ListEntitlements(desc, limit) ==
    /\ walk.pc = "open" /\ list = "entitlement"
    /\ KeysetPage(desc, limit)

(* auditPageSQL: newest first, and no order in the cursor. *)
AuditPage(n) == Page(walk.cursor, TRUE, n)

(* handleListAudit *)
ListAudit(limit) ==
    /\ walk.pc = "open" /\ list = "audit_event"
    /\ LET P == AuditPage(Clamp(limit)) IN Receive(P, NextCursor(P, TRUE, Clamp(limit)))

-----------------------------------------------------------------------------
(* Everybody else *)

Write(i, k) ==
    /\ table' = [table EXCEPT ![i] = k]
    /\ walk' = [walk EXCEPT !.stayed = @ \ {i}]

(* UNIQUE (tenant_id, name) *)
KeyFree(k) == list = "mcp_server" => \A i \in Present : table[i] # k

(* CreateMCPServer, CreateEntitlement; AppendAuditEvent, whose ts is the    *)
(* time its transaction began: not before the cutoff of any pruning, but    *)
(* before rows that have been committed and read already.                   *)
Insert(i, k) ==
    /\ table[i] = Absent
    /\ KeyFree(k)
    /\ list = "audit_event" => k >= prune.cutoff
    /\ Write(i, k)
    /\ UNCHANGED <<list, prune>>

(* A server gets another name. Nothing rewrites an entitlement's role, or   *)
(* an audit row at all.                                                     *)
Rename(i, k) ==
    /\ list = "mcp_server"
    /\ i \in Present /\ k # table[i] /\ KeyFree(k)
    /\ Write(i, k)
    /\ UNCHANGED <<list, prune>>

(* Audit rows are not deleted one by one. *)
Delete(i) ==
    /\ list # "audit_event"
    /\ i \in Present
    /\ Write(i, Gone)
    /\ UNCHANGED <<list, prune>>

(* pruneOnce: on start, and on every tick. *)
PruneStart(k) ==
    /\ list = "audit_event"
    /\ ~prune.running
    /\ k > prune.cutoff
    /\ prune' = [running |-> TRUE, cutoff |-> k]
    /\ UNCHANGED <<list, table, walk>>

Old == {i \in Present : table[i] < prune.cutoff}

(* One DELETE of at most Batch rows, any of the old ones; a batch that is   *)
(* not full was the last. Each is a transaction of its own.                 *)
PruneBatch(D) ==
    /\ prune.running
    /\ D \subseteq Old
    /\ D = Old \/ Cardinality(D) = Batch
    /\ Cardinality(D) <= Batch
    /\ table' = [i \in RowIds |-> IF i \in D THEN Gone ELSE table[i]]
    /\ walk' = [walk EXCEPT !.stayed = @ \ D]
    /\ prune' = [prune EXCEPT !.running = Cardinality(D) = Batch]
    /\ UNCHANGED list

(* The pass ends with an error; the next tick starts another. *)
PruneFails ==
    /\ prune.running
    /\ prune' = [prune EXCEPT !.running = FALSE]
    /\ UNCHANGED <<list, table, walk>>

Next ==
    \/ Start
    \/ \E limit \in 1..MaxLimit + 1 :
          \/ \E desc \in BOOLEAN : ListServers(desc, limit) \/ ListEntitlements(desc, limit)
          \/ ListAudit(limit)
    \/ \E i \in RowIds :
          \/ \E k \in SortKeys : Insert(i, k) \/ Rename(i, k)
          \/ Delete(i)
    \/ \E k \in SortKeys : PruneStart(k)
    \/ \E D \in SUBSET RowIds : PruneBatch(D)
    \/ PruneFails

Spec == Init /\ [][Next]_vars

-----------------------------------------------------------------------------
(* Properties *)

(* A walk that came to its end returned every row that was in the list      *)
(* throughout, under one key, exactly once: whatever was inserted, renamed, *)
(* deleted or pruned between two of its pages, whatever limit each page     *)
(* asked for, and although keys tie.                                        *)
WalkComplete ==
    walk.pc = "done" => walk.stayed \subseteq walk.seen \ walk.twice
=============================================================================
