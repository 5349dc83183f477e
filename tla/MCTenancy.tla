----------------------------- MODULE MCTenancy -----------------------------
(***************************************************************************)
(* A tenant's tables under concurrent requests: users and seats (SeatCap),  *)
(* servers and what a gateway hears of them (Catalog), and the lists that   *)
(* are paged and pruned (Paging). They share no variable, so one is         *)
(* explored while the others rest.                                          *)
(***************************************************************************)
EXTENDS SeatCap, TLC

CONSTANTS
    Writers, Ids, Names, Cap, MaxVersion, MaxPending,        \* Catalog
    RowIds, MaxKey, MaxLimit, Batch, NoCursor, Absent, Gone  \* Paging

VARIABLES
    side,      \* which is explored; "catalog" without the gateway, "nudge" with it,
               \* "grants" edits of an entitlement, with it
    servers, spent, grant, writer, gw,
    list, table, walk, prune

(* The first two names have the same slug. *)
Slugs == [n \in Names |-> IF n < 3 THEN "a" ELSE "b"]

C == INSTANCE Catalog WITH SlugOf <- Slugs, req <- writer
P == INSTANCE Paging

ASSUME CatalogAssumption == C!CatalogAssumption
ASSUME PagingAssumption == P!PagingAssumption

catalogVars == <<servers, spent, grant, writer, gw>>
listVars == <<list, table, walk, prune>>
tenancyVars == <<side, vars, catalogVars, listVars>>

TenancyInit ==
    /\ side \in {"seats", "catalog", "nudge", "grants", "lists"}
    /\ Init /\ C!Init /\ P!Init
    /\ side # "lists" => list = "audit_event"

(* With the gateway, one request for a server at a time. *)
OneAtATime == Cardinality({w \in Writers : writer'[w].pc # "idle"}) <= 1

CatalogStep ==
    \/ side \in {"catalog", "nudge"} /\ C!Write /\ (side = "nudge" => OneAtATime)
    \/ side = "grants" /\ C!WriteGrant
    \/ side \in {"nudge", "grants"} /\ C!Gateway

TenancyNext ==
    /\ UNCHANGED side
    /\ \/ side = "seats" /\ Next /\ UNCHANGED <<catalogVars, listVars>>
       \/ CatalogStep /\ UNCHANGED <<vars, listVars>>
       \/ side = "lists" /\ P!Next /\ UNCHANGED <<vars, catalogVars>>

TenancySpec == TenancyInit /\ [][TenancyNext]_tenancyVars

Symmetry == Permutations(Subjects) \cup Permutations(Requests) \cup Permutations(Writers)

-----------------------------------------------------------------------------

(* Catalog's: an update replaces the row its client was shown; slugs clash  *)
(* and the cap is overrun only by what other admins wrote after the checks. *)
CommitsAsIfAlone == C!CommitsAsIfAlone

(* Catalog's: a stale cached session has a notification on its way, unless  *)
(* nobody was listening or it was still being built.                        *)
NudgeCatches == C!NudgeCatches

(* Paging's: a finished walk returned exactly once each row that stayed.    *)
WalkComplete == P!WalkComplete
=============================================================================
