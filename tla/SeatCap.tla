------------------------------ MODULE SeatCap ------------------------------
(***************************************************************************)
(* The Community seat cap: Resolver.Resolve (internal/authz/resolver.go)    *)
(* and checkSeatCap (internal/authz/seatcap.go) over the users table        *)
(* (internal/store/user.go). Resolve runs on every authenticated request    *)
(* and is a sequence of separate statements with no transaction around      *)
(* them: look the subject up, count the active users, read the row again,   *)
(* write it. Two API requests, a gateway session build and an admin's       *)
(* delete interleave between any two of them.                               *)
(*                                                                          *)
(* Time is a number of ticks. A row keeps the age of its last_seen_at, up   *)
(* to Window, where a user stops being active. deactivated_at is always     *)
(* NULL here: nothing in this edition calls DeactivateUser, so              *)
(* checkDeactivated is one more read that can only fail.                    *)
(***************************************************************************)
EXTENDS Naturals, FiniteSets

CONSTANTS
    Subjects,   \* IdP subjects
    Requests,   \* concurrent callers of Resolve
    SeatLimit,  \* communitySeatLimit()
    Window,     \* activeSeatWindow, in ticks
    Threshold,  \* lastSeenWriteThreshold, in ticks
    None        \* no row, no subject, never

ASSUME SeatAssumption ==
    /\ IsFiniteSet(Subjects) /\ IsFiniteSet(Requests)
    /\ SeatLimit \in Nat \ {0}
    /\ Window \in Nat /\ Threshold \in 1..Window
    /\ None \notin Subjects /\ None \notin Nat

VARIABLES
    users,   \* age of last_seen_at of each subject's row, None if there is none
    req,     \* each caller's position in Resolve
    served   \* history: age of the last request that was let through

vars == <<users, req, served>>

Ages == 0..Window

(* "counted": it was let through by the count. "others": subjects other     *)
(* requests wrote after that.                                               *)
Idle == [pc |-> "idle", sub |-> None, counted |-> FALSE, others |-> {}]

TypeOK ==
    /\ users \in [Subjects -> Ages \cup {None}]
    /\ served \in [Subjects -> Ages \cup {None}]
    /\ req \in [Requests -> [pc : {"idle", "exists", "count", "read", "write"},
                             sub : Subjects \cup {None},
                             counted : BOOLEAN,
                             others : SUBSET Subjects]]
    /\ \A r \in Requests : (req[r].pc = "idle") <=> (req[r].sub = None)

Init ==
    /\ users = [s \in Subjects |-> None]
    /\ req = [r \in Requests |-> Idle]
    /\ served = [s \in Subjects |-> None]

-----------------------------------------------------------------------------

Known(s) == users[s] # None

(* CountActiveUsers: last_seen_at > now - activeSeatWindow. *)
IsActive(age) == age # None /\ age < Window

ActiveUsers == {s \in Subjects : IsActive(users[s])}

(* Mutant: the write threshold is the seat window. *)
Fresh_Window(age) == age # None /\ age < Window

(* UpsertUser's steady state: seen within the threshold, nothing to write. *)
Fresh(age) == age # None /\ age < Threshold

At(r, pc) == req[r].pc = pc

Goto(r, pc) == req' = [req EXCEPT ![r].pc = pc]

(* Resolve: the tenant is found, checkDeactivated finds nothing. *)
Begin(r, s) ==
    /\ At(r, "idle")
    /\ req' = [req EXCEPT ![r] = [Idle EXCEPT !.pc = "exists", !.sub = s]]
    /\ UNCHANGED <<users, served>>

(* checkSeatCap's GetUserBySubject: a known subject skips the count. *)
CheckExists(r) ==
    /\ At(r, "exists")
    /\ Goto(r, IF Known(req[r].sub) THEN "read" ELSE "count")
    /\ UNCHANGED <<users, served>>

(* Mutant: one seat too many. *)
CountBelowLimit_OffByOne(r) ==
    /\ At(r, "count")
    /\ Cardinality(ActiveUsers) <= SeatLimit
    /\ req' = [req EXCEPT ![r].pc = "read", ![r].counted = TRUE]
    /\ UNCHANGED <<users, served>>

CountBelowLimit(r) ==
    /\ At(r, "count")
    /\ Cardinality(ActiveUsers) < SeatLimit
    /\ req' = [req EXCEPT ![r].pc = "read", ![r].counted = TRUE]
    /\ UNCHANGED <<users, served>>

(* SeatLimitError, a 402 for the caller. *)
Reject(r) ==
    /\ At(r, "count")
    /\ Cardinality(ActiveUsers) >= SeatLimit
    /\ req' = [req EXCEPT ![r] = Idle]
    /\ UNCHANGED <<users, served>>

(* UpsertUser's SELECT finds an unchanged, recently seen row, and returns. *)
UpsertUnchanged(r) ==
    /\ At(r, "read")
    /\ Fresh(users[req[r].sub])
    /\ served' = [served EXCEPT ![req[r].sub] = 0]
    /\ req' = [req EXCEPT ![r] = Idle]
    /\ UNCHANGED users

(* No row, a stale one, or an email that drifted from the IdP's, which can  *)
(* be at any time: write.                                                   *)
UpsertMustWrite(r) ==
    /\ At(r, "read")
    /\ Goto(r, "write")
    /\ UNCHANGED <<users, served>>

(* INSERT ... ON CONFLICT DO UPDATE SET last_seen_at = now(). *)
UpsertWrite(r) ==
    /\ At(r, "write")
    /\ LET s == req[r].sub IN
       /\ users' = [users EXCEPT ![s] = 0]
       /\ served' = [served EXCEPT ![s] = 0]
       /\ req' = [q \in Requests |->
                    IF q = r THEN Idle
                    ELSE [req[q] EXCEPT
                            !.others = IF req[q].counted THEN @ \cup {s} ELSE @]]

(* Any statement may fail: Resolve returns the error and nothing else. *)
ResolveError(r) ==
    /\ ~At(r, "idle")
    /\ req' = [req EXCEPT ![r] = Idle]
    /\ UNCHANGED <<users, served>>

(* handleDeleteUser -> DeleteUser. *)
DeleteUser(s) ==
    /\ Known(s)
    /\ users' = [users EXCEPT ![s] = None]
    /\ UNCHANGED <<req, served>>

Older(age) == IF age = None \/ age = Window THEN age ELSE age + 1

Tick ==
    /\ users' = [s \in Subjects |-> Older(users[s])]
    /\ served' = [s \in Subjects |-> Older(served[s])]
    /\ UNCHANGED req

Next ==
    \/ \E r \in Requests :
          \/ \E s \in Subjects : Begin(r, s)
          \/ CheckExists(r) \/ CountBelowLimit(r) \/ Reject(r)
          \/ UpsertUnchanged(r) \/ UpsertMustWrite(r) \/ UpsertWrite(r)
          \/ ResolveError(r)
    \/ \E s \in Subjects : DeleteUser(s)
    \/ Tick

Spec == Init /\ [][Next]_vars

-----------------------------------------------------------------------------
(* Properties *)

(* Whoever was let through less than Window - Threshold ticks ago, and has  *)
(* not been deleted, holds a seat: skipping the last_seen_at write while    *)
(* the row is fresh never lets an active user fall out of the count.        *)
RecentUserHoldsSeat ==
    \A s \in Subjects :
        (Known(s) /\ served[s] # None /\ served[s] + Threshold <= Window)
            => s \in ActiveUsers

(* The cap may be overrun, and by this much: a brand-new subject's row puts *)
(* the tenant over the limit by no more than the number of subjects other   *)
(* requests wrote between its count and its insert. With nobody in between  *)
(* the limit is exact.                                                      *)
OverrunBounded ==
    [][\A r \in Requests :
         (UpsertWrite(r) /\ req[r].counted /\ ~Known(req[r].sub))
           => Cardinality(ActiveUsers') <=
                SeatLimit + Cardinality(req[r].others \ {req[r].sub})]_vars

(* The comment on checkSeatCap: "It is a hard requirement that an           *)
(* ALREADY-KNOWN subject is never rejected here". At the moment of the      *)
(* rejection the subject has no row.                                        *)
KnownNeverRejected ==
    [][\A r \in Requests : Reject(r) => ~Known(req[r].sub)]_vars

=============================================================================
