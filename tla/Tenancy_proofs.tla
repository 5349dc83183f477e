--------------------------- MODULE Tenancy_proofs ---------------------------
(***************************************************************************)
(* A tenant's tables under concurrent requests, proved for any number of    *)
(* users, seats, admins, servers, rows and pages: what the seat count and   *)
(* its overrun are worth (SeatCap), what an admin's commit may meet and     *)
(* which sessions the nudge reaches (Catalog), and what a walk through a    *)
(* paged list returns (Paging). The three share no variable, so each is     *)
(* proved from its own specification.                                       *)
(***************************************************************************)
EXTENDS MCTenancy, FiniteSetTheorems, WellFoundedInduction, TLAPS

(* A set of naturals that is not empty has a least element. *)
LEMMA LeastNatural ==
  ASSUME NEW T \in SUBSET Nat, T # {}
  PROVE  \E x \in T : \A y \in T : x <= y
  <1>1. PICK R : R = OpToRel(<, Nat)
    OBVIOUS
  <1>2. IsWellFoundedOn(R, Nat)
    BY <1>1, NatLessThanWellFounded
  <1>3. PICK x \in T : \A y \in T : ~(<<y, x>> \in R)
    BY <1>2, WFMin
  <1>4. \A y \in T : y < x => <<y, x>> \in R
    BY <1>1 DEF OpToRel
  <1>5. \A y \in T : ~(y < x)
    BY <1>3, <1>4
  <1>6. \A y \in T : y \in Nat /\ x \in Nat
    OBVIOUS
  <1> QED BY <1>5, <1>6


-----------------------------------------------------------------------------
(* The seat cap *)

(* Types are kept by every step of Resolve, by a deletion and by time. *)
LEMMA SeatTypeInvariant == TypeOK /\ [Next]_vars => TypeOK'
  <1> SUFFICES ASSUME TypeOK, [Next]_vars PROVE TypeOK'
    OBVIOUS
  <1> USE SeatAssumption
  <1>i. /\ Idle \in [pc : {"idle", "exists", "count", "read", "write"},
                     sub : Subjects \cup {None}, counted : BOOLEAN, others : SUBSET Subjects]
        /\ Idle.pc = "idle" /\ Idle.sub = None
    BY DEF Idle
  <1>o. \A a \in Ages \cup {None} : Older(a) \in Ages \cup {None}
    BY DEF Older, Ages
  <1>1. ASSUME NEW r \in Requests, NEW s \in Subjects, Begin(r, s) PROVE TypeOK'
    <2>1. PICK x : x = [Idle EXCEPT !.pc = "exists", !.sub = s]
      OBVIOUS
    <2>2. /\ x \in [pc : {"idle", "exists", "count", "read", "write"},
                    sub : Subjects \cup {None}, counted : BOOLEAN, others : SUBSET Subjects]
          /\ x.pc = "exists" /\ x.sub = s
      BY <2>1 DEF Idle
    <2>3. UNCHANGED <<users, served>> /\ req' = [req EXCEPT ![r] = x]
      BY <1>1, <2>1 DEF Begin
    <2> QED BY <2>2, <2>3 DEF TypeOK
  <1>2. ASSUME NEW r \in Requests, CheckExists(r) PROVE TypeOK'
    BY <1>2 DEF TypeOK, CheckExists, At, Goto
  <1>3. ASSUME NEW r \in Requests, CountBelowLimit(r) PROVE TypeOK'
    BY <1>3 DEF TypeOK, CountBelowLimit, At
  <1>4. ASSUME NEW r \in Requests, Reject(r) \/ ResolveError(r) PROVE TypeOK'
    BY <1>4, <1>i DEF TypeOK, Reject, ResolveError
  <1>5. ASSUME NEW r \in Requests, UpsertUnchanged(r) PROVE TypeOK'
    BY <1>5, <1>i DEF TypeOK, UpsertUnchanged, At, Ages
  <1>6. ASSUME NEW r \in Requests, UpsertMustWrite(r) PROVE TypeOK'
    BY <1>6 DEF TypeOK, UpsertMustWrite, At, Goto
  <1>7. ASSUME NEW r \in Requests, UpsertWrite(r) PROVE TypeOK'
    <2>1. req[r].sub \in Subjects
      BY <1>7 DEF TypeOK, UpsertWrite, At
    <2>2. users' \in [Subjects -> Ages \cup {None}] /\ served' \in [Subjects -> Ages \cup {None}]
      BY <1>7, <2>1 DEF TypeOK, UpsertWrite, Ages
    <2> QED BY <1>7, <1>i, <2>1, <2>2 DEF TypeOK, UpsertWrite
  <1>8. ASSUME NEW s \in Subjects, DeleteUser(s) PROVE TypeOK'
    BY <1>8 DEF TypeOK, DeleteUser
  <1>9. CASE Tick
    BY <1>9, <1>o DEF TypeOK, Tick
  <1>10. CASE UNCHANGED vars
    BY <1>10 DEF TypeOK, vars
  <1> QED BY <1>1, <1>2, <1>3, <1>4, <1>5, <1>6, <1>7, <1>8, <1>9, <1>10 DEF Next

(* Each subject's row and history keep ages, and a caller of Resolve is     *)
(* idle exactly when it has no subject.                                     *)
THEOREM SeatTypeCorrect == Spec => []TypeOK
  <1>1. Init => TypeOK
    BY SeatAssumption DEF Init, TypeOK, Idle, Ages
  <1> QED BY <1>1, SeatTypeInvariant, PTL DEF Spec

(* A row that is left unwritten is at most Threshold ticks older than the   *)
(* last request it let through.                                             *)
RowKeepsUp ==
    \A s \in Subjects :
        users[s] # None /\ served[s] # None => users[s] < served[s] + Threshold

(* Only UpsertUnchanged serves a subject without writing its row, and its   *)
(* row is fresh then; time makes both ages older by the same amount, until  *)
(* the older one stops at Window.                                           *)
LEMMA RowKeepsUpStep ==
  ASSUME TypeOK, RowKeepsUp, [Next]_vars
  PROVE  RowKeepsUp'
  <1> USE SeatAssumption
  <1>0. \A s \in Subjects : users[s] \in Ages \cup {None} /\ served[s] \in Ages \cup {None}
    BY DEF TypeOK
  <1>1. ASSUME UNCHANGED <<users, served>> PROVE RowKeepsUp'
    BY <1>1 DEF RowKeepsUp
  <1>2. ASSUME NEW r \in Requests, UpsertUnchanged(r) PROVE RowKeepsUp'
    <2>1. users' = users /\ Fresh(users[req[r].sub])
      BY <1>2 DEF UpsertUnchanged
    <2>2. \A s \in Subjects : served'[s] = IF s = req[r].sub THEN 0 ELSE served[s]
      BY <1>2 DEF UpsertUnchanged, TypeOK
    <2> QED BY <2>1, <2>2, <1>0 DEF RowKeepsUp, Fresh, Ages
  <1>3. ASSUME NEW r \in Requests, UpsertWrite(r) PROVE RowKeepsUp'
    <2>1. \A s \in Subjects : served'[s] = IF s = req[r].sub THEN 0 ELSE served[s]
      BY <1>3 DEF UpsertWrite, TypeOK
    <2>2. \A s \in Subjects : users'[s] = IF s = req[r].sub THEN 0 ELSE users[s]
      BY <1>3 DEF UpsertWrite, TypeOK
    <2> QED BY <2>1, <2>2, <1>0 DEF RowKeepsUp, Ages
  <1>4. ASSUME NEW d \in Subjects, DeleteUser(d) PROVE RowKeepsUp'
    <2>1. \A s \in Subjects : users'[s] = IF s = d THEN None ELSE users[s]
      BY <1>4 DEF DeleteUser, TypeOK
    <2>2. served' = served
      BY <1>4 DEF DeleteUser
    <2> QED BY <2>1, <2>2, <1>0 DEF RowKeepsUp
  <1>5. CASE Tick
    <2>1. \A s \in Subjects : users'[s] = Older(users[s]) /\ served'[s] = Older(served[s])
      BY <1>5 DEF Tick
    <2> QED BY <2>1, <1>0 DEF RowKeepsUp, Older, Ages
  <1>6. ASSUME NEW r \in Requests,
               \/ \E s \in Subjects : Begin(r, s)
               \/ CheckExists(r) \/ CountBelowLimit(r) \/ Reject(r)
               \/ UpsertMustWrite(r) \/ ResolveError(r)
        PROVE  UNCHANGED <<users, served>>
    BY <1>6 DEF Begin, CheckExists, CountBelowLimit, Reject, UpsertMustWrite, ResolveError
  <1>7. CASE UNCHANGED vars
    BY <1>7, <1>1 DEF vars
  <1> QED BY <1>1, <1>2, <1>3, <1>4, <1>5, <1>6, <1>7 DEF Next

(* Whoever was let through recently and was not deleted holds a seat, for   *)
(* any window, threshold and number of users: UpsertUser's skipped write    *)
(* never costs an active user the seat.                                     *)
THEOREM RecentUsersHoldSeats == Spec => []RecentUserHoldsSeat
  <1>1. Init => RowKeepsUp
    BY DEF Init, RowKeepsUp
  <1>2. TypeOK /\ RowKeepsUp => RecentUserHoldsSeat
    BY SeatAssumption
    DEF TypeOK, RowKeepsUp, RecentUserHoldsSeat, Known, ActiveUsers, IsActive, Ages
  <1>3. TypeOK /\ RowKeepsUp /\ [Next]_vars => RowKeepsUp'
    BY RowKeepsUpStep
  <1> QED BY <1>1, <1>2, <1>3, SeatTypeCorrect, PTL DEF Spec

(* What the count still says once a caller was let through by it: of the    *)
(* active users, those nobody wrote since are fewer than the seats.         *)
CountStands ==
    \A r \in Requests :
        req[r].counted => /\ req[r].pc \in {"read", "write"}
                          /\ Cardinality(ActiveUsers \ req[r].others) < SeatLimit

(* A part of a finite set is finite and no larger. *)
LEMMA PartIsNoLarger ==
  ASSUME NEW B, IsFiniteSet(B), NEW A, A \subseteq B
  PROVE  /\ IsFiniteSet(A) /\ Cardinality(A) \in Nat /\ Cardinality(B) \in Nat
         /\ Cardinality(A) <= Cardinality(B)
  BY FS_Subset, FS_CardinalityType

(* Two finite sets together have at most as many elements as each alone. *)
LEMMA UnionIsNoLarger ==
  ASSUME NEW A, NEW B, IsFiniteSet(A), IsFiniteSet(B)
  PROVE  /\ IsFiniteSet(A \cup B)
         /\ Cardinality(A \cup B) <= Cardinality(A) + Cardinality(B)
  <1>1. IsFiniteSet(A \cap B) /\ Cardinality(A \cap B) \in Nat
    BY FS_Intersection, FS_CardinalityType
  <1>2. Cardinality(A) \in Nat /\ Cardinality(B) \in Nat
    BY FS_CardinalityType
  <1> QED BY <1>1, <1>2, FS_Union

(* A count that stands goes on standing: a step that adds an active user    *)
(* adds it to "others" of every caller who has been counted.                *)
LEMMA CountStandsStep ==
  ASSUME TypeOK, CountStands, [Next]_vars
  PROVE  CountStands'
  <1> USE SeatAssumption
  <1>0. \A s \in Subjects : users[s] \in Ages \cup {None}
    BY DEF TypeOK
  <1>f. \A A \in SUBSET Subjects : IsFiniteSet(A)
    BY FS_Subset
  <1>m. ASSUME NEW q \in Requests, req[q].counted,
               (ActiveUsers' \ req'[q].others) \subseteq (ActiveUsers \ req[q].others)
        PROVE  Cardinality(ActiveUsers' \ req'[q].others) < SeatLimit
    <2>1. IsFiniteSet(ActiveUsers \ req[q].others)
      BY <1>f DEF ActiveUsers
    <2>2. Cardinality(ActiveUsers \ req[q].others) < SeatLimit
      BY <1>m DEF CountStands
    <2>3. PICK A : A = ActiveUsers' \ req'[q].others
      OBVIOUS
    <2>4. PICK B : B = ActiveUsers \ req[q].others
      OBVIOUS
    <2>5. Cardinality(A) \in Nat /\ Cardinality(B) \in Nat /\ Cardinality(A) <= Cardinality(B)
      BY <1>m, <2>1, <2>3, <2>4, PartIsNoLarger
    <2> QED BY <2>2, <2>3, <2>4, <2>5
  <1>r. ASSUME NEW r \in Requests, users' = users, NEW x, req' = [req EXCEPT ![r] = x],
               x.counted => /\ x.pc \in {"read", "write"}
                            /\ Cardinality(ActiveUsers \ x.others) < SeatLimit
        PROVE  CountStands'
    <2>1. ActiveUsers' = ActiveUsers
      BY <1>r DEF ActiveUsers
    <2>2. \A q \in Requests : req'[q] = IF q = r THEN x ELSE req[q]
      BY <1>r DEF TypeOK
    <2> QED BY <1>r, <2>1, <2>2 DEF CountStands
  <1>i. ~Idle.counted
    BY DEF Idle
  <1>1. ASSUME NEW r \in Requests, NEW s \in Subjects, Begin(r, s) PROVE CountStands'
    <2>1. PICK x : x = [Idle EXCEPT !.pc = "exists", !.sub = s]
      OBVIOUS
    <2>2. ~x.counted
      BY <2>1 DEF Idle
    <2>3. users' = users /\ req' = [req EXCEPT ![r] = x]
      BY <1>1, <2>1 DEF Begin
    <2> QED BY <2>2, <2>3, <1>r
  <1>2. ASSUME NEW r \in Requests, CheckExists(r) PROVE CountStands'
    <2>1. PICK p : p = IF Known(req[r].sub) THEN "read" ELSE "count"
      OBVIOUS
    <2>2. PICK x : x = [req[r] EXCEPT !.pc = p]
      OBVIOUS
    <2>3. ~x.counted
      BY <1>2, <2>2 DEF CheckExists, At, CountStands, TypeOK
    <2>4. users' = users /\ req' = [req EXCEPT ![r] = x]
      BY <1>2, <2>1, <2>2 DEF CheckExists, Goto, TypeOK
    <2> QED BY <2>3, <2>4, <1>r
  <1>3. ASSUME NEW r \in Requests, CountBelowLimit(r) PROVE CountStands'
    <2>1. PICK x : x = [req[r] EXCEPT !.pc = "read", !.counted = TRUE]
      OBVIOUS
    <2>2. x.pc = "read" /\ x.others = req[r].others
      BY <2>1 DEF TypeOK
    <2>3. Cardinality(ActiveUsers) < SeatLimit
      BY <1>3 DEF CountBelowLimit
    <2>4. Cardinality(ActiveUsers \ req[r].others) < SeatLimit
      <3>1. PICK B : B = ActiveUsers
        OBVIOUS
      <3>2. PICK A : A = ActiveUsers \ req[r].others
        OBVIOUS
      <3>3. IsFiniteSet(B) /\ A \subseteq B
        BY <3>1, <3>2, <1>f DEF ActiveUsers
      <3>4. Cardinality(A) \in Nat /\ Cardinality(B) \in Nat /\ Cardinality(A) <= Cardinality(B)
        BY <3>3, PartIsNoLarger
      <3> QED BY <2>3, <3>1, <3>2, <3>4
    <2>5. users' = users /\ req' = [req EXCEPT ![r] = x]
      BY <1>3, <2>1 DEF CountBelowLimit, TypeOK
    <2> QED BY <2>2, <2>4, <2>5, <1>r
  <1>4. ASSUME NEW r \in Requests, Reject(r) \/ ResolveError(r) \/ UpsertUnchanged(r)
        PROVE  CountStands'
    <2>1. users' = users /\ req' = [req EXCEPT ![r] = Idle]
      BY <1>4 DEF Reject, ResolveError, UpsertUnchanged
    <2> QED BY <2>1, <1>i, <1>r
  <1>5. ASSUME NEW r \in Requests, UpsertMustWrite(r) PROVE CountStands'
    <2>1. PICK x : x = [req[r] EXCEPT !.pc = "write"]
      OBVIOUS
    <2>2. x.pc = "write" /\ x.others = req[r].others /\ x.counted = req[r].counted
      BY <2>1 DEF TypeOK
    <2>3. users' = users /\ req' = [req EXCEPT ![r] = x]
      BY <1>5, <2>1 DEF UpsertMustWrite, Goto, TypeOK
    <2> QED BY <2>2, <2>3, <1>r DEF CountStands
  <1>6. ASSUME NEW r \in Requests, UpsertWrite(r) PROVE CountStands'
    <2> SUFFICES ASSUME NEW q \in Requests, req'[q].counted
                 PROVE  /\ req'[q].pc \in {"read", "write"}
                        /\ Cardinality(ActiveUsers' \ req'[q].others) < SeatLimit
      BY DEF CountStands
    <2>1. PICK s : s = req[r].sub
      OBVIOUS
    <2>2. \A t \in Subjects : users'[t] = IF t = s THEN 0 ELSE users[t]
      BY <1>6, <2>1 DEF UpsertWrite, TypeOK
    <2>3. q # r
      BY <1>6, <1>i DEF UpsertWrite
    <2>4. req'[q] = [req[q] EXCEPT !.others = IF req[q].counted THEN req[q].others \cup {s}
                                                                ELSE req[q].others]
      BY <1>6, <2>1, <2>3 DEF UpsertWrite
    <2>5. req'[q].pc = req[q].pc /\ req'[q].counted = req[q].counted
      BY <2>4 DEF TypeOK
    <2>6. req'[q].others = req[q].others \cup {s}
      BY <2>4, <2>5 DEF TypeOK
    <2>7. (ActiveUsers' \ req'[q].others) \subseteq (ActiveUsers \ req[q].others)
      BY <2>2, <2>6 DEF ActiveUsers
    <2> QED BY <2>5, <2>7, <1>m DEF CountStands
  <1>7. ASSUME UNCHANGED req, ActiveUsers' \subseteq ActiveUsers PROVE CountStands'
    BY <1>7, <1>m DEF CountStands
  <1>8. ASSUME NEW s \in Subjects, DeleteUser(s) PROVE CountStands'
    <2>1. \A t \in Subjects : users'[t] = IF t = s THEN None ELSE users[t]
      BY <1>8 DEF DeleteUser, TypeOK
    <2>2. ActiveUsers' \subseteq ActiveUsers
      BY <2>1 DEF ActiveUsers, IsActive
    <2> QED BY <1>8, <2>2, <1>7 DEF DeleteUser
  <1>9. CASE Tick
    <2>1. \A t \in Subjects : users'[t] = Older(users[t])
      BY <1>9 DEF Tick
    <2>2. ActiveUsers' \subseteq ActiveUsers
      BY <2>1, <1>0 DEF ActiveUsers, IsActive, Older, Ages
    <2> QED BY <1>9, <2>2, <1>7 DEF Tick
  <1>10. CASE UNCHANGED vars
    BY <1>10, <1>7 DEF vars, ActiveUsers
  <1> QED BY <1>1, <1>2, <1>3, <1>4, <1>5, <1>6, <1>8, <1>9, <1>10 DEF Next

(* The row of a brand-new subject puts the tenant over the cap by no more   *)
(* than the subjects others wrote between its count and its insert.         *)
LEMMA OverrunStep ==
  ASSUME TypeOK, CountStands, NEW r \in Requests,
         UpsertWrite(r), req[r].counted
  PROVE  Cardinality(ActiveUsers') <= SeatLimit + Cardinality(req[r].others \ {req[r].sub})
  <1> USE SeatAssumption
  <1>1. PICK s : s = req[r].sub
    OBVIOUS
  <1>2. PICK O : O = req[r].others \ {s}
    OBVIOUS
  <1>3. PICK A : A = ActiveUsers \ req[r].others
    OBVIOUS
  <1>4. PICK B : B = ActiveUsers'
    OBVIOUS
  <1>5. \A t \in Subjects : users'[t] = IF t = s THEN 0 ELSE users[t]
    BY <1>1 DEF UpsertWrite, TypeOK
  <1>6. B \subseteq (A \cup {s}) \cup O
    BY <1>2, <1>3, <1>4, <1>5 DEF ActiveUsers
  <1>7. IsFiniteSet(A) /\ IsFiniteSet(O) /\ IsFiniteSet({s}) /\ Cardinality({s}) = 1
    <2>1. A \subseteq Subjects /\ O \subseteq Subjects
      BY <1>2, <1>3 DEF ActiveUsers, TypeOK
    <2>2. IsFiniteSet(A) /\ IsFiniteSet(O)
      BY <2>1, FS_Subset
    <2> QED BY <2>2, FS_Singleton
  <1>8. IsFiniteSet(A \cup {s}) /\ Cardinality(A \cup {s}) <= Cardinality(A) + 1
    BY <1>7, UnionIsNoLarger
  <1>9. /\ IsFiniteSet((A \cup {s}) \cup O)
        /\ Cardinality((A \cup {s}) \cup O) <= Cardinality(A \cup {s}) + Cardinality(O)
    BY <1>7, <1>8, UnionIsNoLarger
  <1>10. Cardinality(B) <= Cardinality((A \cup {s}) \cup O)
    BY <1>6, <1>9, PartIsNoLarger
  <1>11. /\ Cardinality(A) \in Nat /\ Cardinality(O) \in Nat /\ Cardinality(A \cup {s}) \in Nat
         /\ Cardinality((A \cup {s}) \cup O) \in Nat /\ Cardinality(B) \in Nat
    BY <1>6, <1>7, <1>8, <1>9, FS_CardinalityType, PartIsNoLarger
  <1>12. Cardinality(A) < SeatLimit
    BY <1>3 DEF CountStands
  <1>13. Cardinality(B) <= SeatLimit + Cardinality(O)
    BY <1>8, <1>9, <1>10, <1>11, <1>12
  <1> QED BY <1>13, <1>1, <1>2, <1>4

(* The seat cap is overrun only by what raced, for any number of callers:   *)
(* Resolve has no transaction around its count and its insert, and this is  *)
(* what that costs.                                                         *)
THEOREM OverrunIsBounded == Spec => OverrunBounded
  <1>1. Init => CountStands
    BY DEF Init, CountStands, Idle
  <1>2. TypeOK /\ CountStands /\ [Next]_vars => CountStands'
    BY CountStandsStep
  <1>3. TypeOK /\ CountStands /\ [Next]_vars =>
          [\A r \in Requests :
             (UpsertWrite(r) /\ req[r].counted /\ ~Known(req[r].sub))
               => Cardinality(ActiveUsers') <=
                    SeatLimit + Cardinality(req[r].others \ {req[r].sub})]_vars
    BY OverrunStep
  <1> QED BY <1>1, <1>2, <1>3, SeatTypeCorrect, PTL DEF Spec, OverrunBounded

-----------------------------------------------------------------------------
(* What a gateway hears of the catalog *)

(* A session that is not there is not stale, and one that is being built    *)
(* while the catalog changes is missed.                                     *)
NudgeInv ==
    /\ gw \in C!Gateways
    /\ gw.session = "none" => ~gw.stale
    /\ gw.session = "building" /\ gw.stale => gw.missed
    /\ NudgeCatches

(* The gateway without its session. *)
LEMMA DroppedFields ==
  ASSUME NEW g \in C!Gateways
  PROVE  /\ C!Dropped(g) \in C!Gateways
         /\ C!Dropped(g).listening = g.listening /\ C!Dropped(g).pending = g.pending
         /\ C!Dropped(g).session = "none"
         /\ C!Dropped(g).stale = FALSE /\ C!Dropped(g).missed = FALSE
  BY DEF C!Dropped, C!Gateways

(* A commit, seen from the gateway, field by field. *)
LEMMA AnnouncedKeeps ==
  ASSUME NudgeInv, gw' = C!Announced(gw)
  PROVE  NudgeInv'
  <1>1. PICK n : n = IF gw.listening THEN gw.pending + 1 ELSE gw.pending
    OBVIOUS
  <1>2. PICK m \in BOOLEAN :
          m <=> (gw.session = "building" \/ (gw.session = "cached" /\ ~gw.listening))
    OBVIOUS
  <1>3. PICK st \in BOOLEAN : st <=> (gw.session # "none")
    OBVIOUS
  <1>4. n \in Nat /\ (gw.listening => n > 0)
    BY <1>1 DEF NudgeInv, C!Gateways
  <1>5. gw' = [gw EXCEPT !.pending = n, !.stale = st, !.missed = m]
    BY <1>1, <1>2, <1>3 DEF C!Announced
  <1>6. /\ gw' \in C!Gateways
        /\ gw'.listening = gw.listening /\ gw'.session = gw.session
        /\ gw'.pending = n /\ gw'.stale = st /\ gw'.missed = m
    BY <1>4, <1>5 DEF NudgeInv, C!Gateways
  <1> QED BY <1>2, <1>3, <1>4, <1>6 DEF NudgeInv, NudgeCatches, C!NudgeCatches, C!Gateways

(* No step of an admin, of the listener or of a session's build breaks it.  *)
LEMMA NudgeStep == NudgeInv /\ [C!Next]_(C!vars) => NudgeInv'
  <1> SUFFICES ASSUME NudgeInv, [C!Next]_(C!vars) PROVE NudgeInv'
    OBVIOUS
  <1>0. gw \in C!Gateways
    BY DEF NudgeInv
  <1>1. CASE UNCHANGED gw
    BY <1>1 DEF NudgeInv, NudgeCatches, C!NudgeCatches
  <1>2. ASSUME NEW w, NEW i, NEW row, C!Commit(w, i, row) PROVE NudgeInv'
    BY <1>2, AnnouncedKeeps DEF C!Commit
  <1>3. ASSUME NEW w, NEW v, C!CommitGrant(w, v) PROVE NudgeInv'
    BY <1>3, AnnouncedKeeps DEF C!CommitGrant
  <1>4. CASE C!Write
    <2>1. ASSUME NEW w \in Writers, NEW n \in Names, NEW a \in BOOLEAN,
                 C!BeginCreate(w, n, a) \/ \E i \in Ids : C!BeginUpdate(w, i, n, a)
          PROVE  NudgeInv'
      BY <2>1, <1>1 DEF C!BeginCreate, C!BeginUpdate
    <2>2. ASSUME NEW w \in Writers,
                 \/ C!SlugFree(w) \/ C!SlugTaken(w) \/ C!UnderCap(w) \/ C!LimitError(w)
                 \/ C!VersionMismatch(w) \/ C!NotFound(w) \/ C!Fails(w)
          PROVE  NudgeInv'
      BY <2>2, <1>1 DEF C!SlugFree, C!SlugTaken, C!UnderCap, C!LimitError,
                        C!VersionMismatch, C!NotFound, C!Fails
    <2>3. ASSUME NEW w \in Writers, NEW i \in Ids, C!CommitCreate(w, i) PROVE NudgeInv'
      BY <2>3, <1>2 DEF C!CommitCreate
    <2>4. ASSUME NEW w \in Writers, C!CommitUpdate(w) PROVE NudgeInv'
      BY <2>4, <1>2 DEF C!CommitUpdate
    <2>5. ASSUME NEW i \in Ids, C!Delete(i) PROVE NudgeInv'
      BY <2>5, <1>2 DEF C!Delete
    <2> QED BY <1>4, <2>1, <2>2, <2>3, <2>4, <2>5 DEF C!Write
  <1>5. CASE C!WriteGrant
    <2>1. CASE C!CreateEntitlement
      BY <2>1, <1>3 DEF C!CreateEntitlement
    <2>2. CASE C!DeleteEntitlement
      BY <2>2, <1>3 DEF C!DeleteEntitlement
    <2>3. ASSUME NEW w \in Writers, C!UpdateEntitlement(w) PROVE NudgeInv'
      BY <2>3, <1>3 DEF C!UpdateEntitlement
    <2>4. ASSUME NEW w \in Writers, C!BeginGrantUpdate(w) \/ C!GrantMoved(w) \/ C!Fails(w)
          PROVE  NudgeInv'
      BY <2>4, <1>1 DEF C!BeginGrantUpdate, C!GrantMoved, C!Fails
    <2> QED BY <1>5, <2>1, <2>2, <2>3, <2>4 DEF C!WriteGrant
  <1>6. CASE C!Listen
    BY <1>6 DEF C!Listen, NudgeInv, NudgeCatches, C!NudgeCatches, C!Gateways
  <1>7. CASE C!ListenerDrops
    <2>1. PICK m \in BOOLEAN : m <=> (gw.missed \/ (gw.pending > 0 /\ gw.stale))
      OBVIOUS
    <2>2. gw' = [gw EXCEPT !.listening = FALSE, !.pending = 0, !.missed = m]
      BY <1>7, <1>0, <2>1 DEF C!ListenerDrops, C!Gateways
    <2>3. /\ gw' \in C!Gateways /\ gw'.session = gw.session
          /\ gw'.stale = gw.stale /\ gw'.missed = m
      BY <1>0, <2>2 DEF C!Gateways
    <2> QED BY <2>1, <2>3 DEF NudgeInv, NudgeCatches, C!NudgeCatches
  <1>8. CASE C!Notified
    <2>1. PICK n : n = gw.pending - 1
      OBVIOUS
    <2>2. n \in Nat
      BY <1>8, <1>0, <2>1 DEF C!Notified, C!Gateways
    <2>3. CASE gw.session = "cached"
      <3>1. PICK d \in C!Gateways : d = C!Dropped(gw)
        BY <1>0, DroppedFields
      <3>2. d.pending = gw.pending /\ d.session = "none" /\ d.stale = FALSE
        BY <1>0, <3>1, DroppedFields
      <3>3. gw' = [d EXCEPT !.pending = n]
        BY <1>8, <2>1, <2>3, <3>1, <3>2 DEF C!Notified
      <3>4. gw' \in C!Gateways /\ gw'.session = "none" /\ gw'.stale = FALSE
        BY <2>2, <3>2, <3>3 DEF C!Gateways
      <3> QED BY <3>4 DEF NudgeInv, NudgeCatches, C!NudgeCatches
    <2>4. CASE gw.session # "cached"
      <3>1. gw' = [gw EXCEPT !.pending = n]
        BY <1>8, <2>1, <2>4 DEF C!Notified
      <3>2. /\ gw' \in C!Gateways /\ gw'.session = gw.session
            /\ gw'.stale = gw.stale /\ gw'.missed = gw.missed
        BY <1>0, <3>1, <2>2 DEF C!Gateways
      <3> QED BY <3>2, <2>4 DEF NudgeInv, NudgeCatches, C!NudgeCatches
    <2> QED BY <2>3, <2>4
  <1>9. CASE C!BuildReads
    BY <1>9 DEF C!BuildReads, NudgeInv, NudgeCatches, C!NudgeCatches, C!Gateways
  <1>10. CASE C!BuildCached
    BY <1>10 DEF C!BuildCached, NudgeInv, NudgeCatches, C!NudgeCatches, C!Gateways
  <1>11. CASE C!SessionExpires
    <2>1. gw' \in C!Gateways /\ gw'.session = "none" /\ gw'.stale = FALSE
      BY <1>11, <1>0, DroppedFields DEF C!SessionExpires
    <2> QED BY <2>1 DEF NudgeInv, NudgeCatches, C!NudgeCatches
  <1>12. CASE UNCHANGED C!vars
    BY <1>12, <1>1 DEF C!vars
  <1> QED BY <1>4, <1>5, <1>6, <1>7, <1>8, <1>9, <1>10, <1>11, <1>12 DEF C!Next, C!Gateway

(* Every stale cached session the nudge can still reach has a notification  *)
(* on its way, for any number of admins, servers and pending notifications: *)
(* what auditedTx announces is missed only with nobody listening or by a    *)
(* build that had read the catalog already.                                 *)
THEOREM NudgeReachesCached == C!Spec => []NudgeCatches
  <1>1. C!Init => NudgeInv
    BY DEF C!Init, NudgeInv, NudgeCatches, C!NudgeCatches, C!Gateways
  <1>2. NudgeInv => NudgeCatches
    BY DEF NudgeInv
  <1> QED BY <1>1, <1>2, NudgeStep, PTL DEF C!Spec

-----------------------------------------------------------------------------
(* An admin's write among other admins' *)

ServerRows == [name : Names \cup {None}, active : BOOLEAN, version : Nat]

Handlers == [pc : {"idle", "slug", "cap", "tx", "grant"}, id : Ids \cup {None},
             name : Names \cup {None}, active : BOOLEAN, expected : Nat,
             touched : BOOLEAN, raced : SUBSET Ids]

RowsOf(sv) == {i \in Ids : sv[i] # None}

ActiveOf(sv) == {i \in RowsOf(sv) : sv[i].active}

(* A handler x and the version its client was shown: the row may have moved *)
(* on since, never back, and has if somebody touched it.                    *)
ShownRow(x, sv) ==
    x.id \in RowsOf(sv) => /\ x.expected <= sv[x.id].version
                           /\ x.touched => x.expected < sv[x.id].version

ShownGrant(x, g) ==
    x.pc = "grant" => /\ x.expected > 0
                      /\ g \in Nat => /\ x.expected <= g
                                      /\ x.touched => x.expected < g

(* Nobody can have touched the row of a create. *)
Plain(x, sp) ==
    /\ x.id \in sp \cup {None}
    /\ x.pc \in {"idle", "grant"} => x.id = None
    /\ x.id = None /\ x.pc # "grant" => ~x.touched

(* What the two checks of x still say: of the rows nobody has written since *)
(* none has the slug, and fewer than Cap are active.                        *)
SlugStands(x, sv) ==
    x.pc \in {"cap", "tx"} =>
        \A j \in RowsOf(sv) \ ({x.id} \cup x.raced) : Slugs[sv[j].name] # Slugs[x.name]

CapStands(x, sv) ==
    (x.pc = "tx" /\ Cap > 0 /\ x.active) =>
        Cardinality(ActiveOf(sv) \ ({x.id} \cup x.raced)) < Cap

HandlerGood(x, sv, sp, g) ==
    ShownRow(x, sv) /\ ShownGrant(x, g) /\ Plain(x, sp) /\ SlugStands(x, sv) /\ CapStands(x, sv)

CatalogInv ==
    /\ servers \in [Ids -> ServerRows \cup {None}]
    /\ spent \subseteq Ids
    /\ grant \in Nat \cup {None}
    /\ RowsOf(servers) \subseteq spent
    /\ writer \in [Writers -> Handlers]
    /\ \A w \in Writers : HandlerGood(writer[w], servers, spent, grant)

(* Catalog and Paging count with the same operator. *)
LEMMA SameCardinality ==
  \A S : C!Cardinality(S) = Cardinality(S) /\ P!Cardinality(S) = Cardinality(S)
  BY DEF C!Cardinality, P!Cardinality, Cardinality

(* What the catalog's constants are. *)
LEMMA CatalogConstants ==
  None \notin Ids /\ None \notin Nat /\ IsFiniteSet(Ids) /\ Cap \in Nat
  <1>1. None \notin Ids \cup Nat
    BY CatalogAssumption, Zenon DEF C!CatalogAssumption
  <1>2. IsFiniteSet(Ids)
    BY CatalogAssumption DEF C!CatalogAssumption, C!IsFiniteSet, IsFiniteSet
  <1>3. Cap \in Nat
    BY CatalogAssumption DEF C!CatalogAssumption
  <1> QED BY <1>1, <1>2, <1>3

(* The handler that waits for a request. *)
LEMMA IdleIsGood ==
  /\ C!Idle \in Handlers
  /\ \A sv, sp, g : HandlerGood(C!Idle, sv, sp, g)
  <1>1. C!Idle \in Handlers
    BY CatalogAssumption DEF C!Idle, Handlers
  <1>2. C!Idle.pc = "idle" /\ C!Idle.id = None /\ ~C!Idle.touched
    BY DEF C!Idle
  <1>3. None \notin Ids
    BY CatalogConstants
  <1> QED BY <1>1, <1>2, <1>3
          DEF HandlerGood, ShownRow, ShownGrant, Plain, SlugStands, CapStands, RowsOf

(* A step of one handler that writes nothing. *)
LEMMA HandlerMoves ==
  ASSUME CatalogInv, UNCHANGED <<servers, spent, grant>>,
         NEW w \in Writers, NEW x \in Handlers,
         HandlerGood(x, servers, spent, grant), writer' = [writer EXCEPT ![w] = x]
  PROVE  CatalogInv'
  <1>1. writer' \in [Writers -> Handlers]
    BY DEF CatalogInv
  <1>2. \A q \in Writers : writer'[q] = IF q = w THEN x ELSE writer[q]
    BY DEF CatalogInv
  <1>3. \A q \in Writers : HandlerGood(writer'[q], servers, spent, grant)
    BY <1>2 DEF CatalogInv
  <1> QED BY <1>1, <1>3 DEF CatalogInv

(* Another's commit of row i, seen from the handler x, which is y then.     *)
(* Either i is new, or its row is gone now or has a higher version.         *)
LEMMA CommitSeenByOther ==
  ASSUME servers \in [Ids -> ServerRows \cup {None}], RowsOf(servers) \subseteq spent,
         NEW x \in Handlers, HandlerGood(x, servers, spent, grant), x.pc # "idle",
         NEW i \in Ids, NEW row \in ServerRows \cup {None},
         servers' = [servers EXCEPT ![i] = row],
         \/ i \notin spent /\ spent' = spent \cup {i}
         \/ /\ i \in RowsOf(servers) /\ spent' = spent
            /\ row # None => row.version > servers[i].version,
         NEW t \in BOOLEAN, t <=> (x.touched \/ x.id = i),
         NEW ra, ra = IF x.pc = "slug" THEN {} ELSE x.raced \cup {i},
         NEW y, y = [x EXCEPT !.touched = t, !.raced = ra]
  PROVE  y \in Handlers /\ HandlerGood(y, servers', spent', grant)
  <1>n. None \notin Ids /\ IsFiniteSet(Ids) /\ Cap \in Nat
    BY CatalogConstants
  <1>1. ra \in SUBSET Ids
    BY DEF Handlers
  <1>2. /\ y \in Handlers /\ y.pc = x.pc /\ y.id = x.id /\ y.name = x.name
        /\ y.active = x.active /\ y.expected = x.expected /\ y.touched = t /\ y.raced = ra
    BY <1>1 DEF Handlers
  <1>3. \A j \in Ids : servers'[j] = IF j = i THEN row ELSE servers[j]
    OBVIOUS
  <1>4. \A j \in RowsOf(servers) : servers[j] \in ServerRows /\ servers[j].version \in Nat
    BY DEF RowsOf, ServerRows
  <1>5. row # None => row \in ServerRows /\ row.version \in Nat
    BY DEF ServerRows
  <1>6. x.expected \in Nat
    BY DEF Handlers
  <1>7. ShownRow(y, servers')
    <2> SUFFICES ASSUME x.id \in RowsOf(servers')
                 PROVE  /\ x.expected <= servers'[x.id].version
                        /\ t => x.expected < servers'[x.id].version
      BY <1>2 DEF ShownRow
    <2>1. CASE x.id = i
      <3>1. i \in spent
        BY <2>1, <1>n DEF HandlerGood, Plain
      <3>2. i \in RowsOf(servers) /\ (row # None => row.version > servers[i].version)
        BY <3>1
      <3>3. servers'[i] = row /\ row # None
        BY <1>3, <2>1 DEF RowsOf
      <3>4. x.expected <= servers[i].version
        BY <3>2, <2>1 DEF HandlerGood, ShownRow
      <3> QED BY <2>1, <3>2, <3>3, <3>4, <1>4, <1>5, <1>6
    <2>2. CASE x.id # i
      <3>1. x.id \in RowsOf(servers) /\ servers'[x.id] = servers[x.id]
        BY <1>3, <2>2 DEF RowsOf
      <3> QED BY <3>1, <2>2 DEF HandlerGood, ShownRow
    <2> QED BY <2>1, <2>2
  <1>8. ShownGrant(y, grant)
    <2>1. x.pc = "grant" => (t <=> x.touched)
      BY <1>n DEF HandlerGood, Plain
    <2> QED BY <1>2, <2>1 DEF HandlerGood, ShownGrant
  <1>9. Plain(y, spent')
    BY <1>2, <1>n DEF HandlerGood, Plain
  <1>10. SlugStands(y, servers')
    BY <1>2, <1>3 DEF HandlerGood, SlugStands, RowsOf
  <1>11. CapStands(y, servers')
    <2> SUFFICES ASSUME x.pc = "tx", Cap > 0, x.active
                 PROVE  Cardinality(ActiveOf(servers') \ ({x.id} \cup ra)) < Cap
      BY <1>2 DEF CapStands
    <2>1. PICK A : A = ActiveOf(servers) \ ({x.id} \cup x.raced)
      OBVIOUS
    <2>2. PICK B : B = ActiveOf(servers') \ ({x.id} \cup ra)
      OBVIOUS
    <2>3. B \subseteq A
      BY <1>3, <2>1, <2>2 DEF ActiveOf, RowsOf
    <2>4. IsFiniteSet(A)
      BY <1>n, <2>1, FS_Subset DEF ActiveOf, RowsOf
    <2>5. Cardinality(A) < Cap
      BY <2>1 DEF HandlerGood, CapStands
    <2>6. Cardinality(A) \in Nat /\ Cardinality(B) \in Nat /\ Cardinality(B) <= Cardinality(A)
      BY <2>3, <2>4, PartIsNoLarger
    <2>7. Cardinality(B) < Cap
      BY <2>5, <2>6, <1>n
    <2> QED BY <2>2, <2>7
  <1> QED BY <1>2, <1>7, <1>8, <1>9, <1>10, <1>11 DEF HandlerGood

(* auditedTx with a server's row. *)
LEMMA CommitKeeps ==
  ASSUME CatalogInv, NEW w, NEW i \in Ids, NEW row \in ServerRows \cup {None},
         C!Commit(w, i, row), grant' = grant,
         \/ i \notin spent /\ spent' = spent \cup {i}
         \/ /\ i \in RowsOf(servers) /\ spent' = spent
            /\ row # None => row.version > servers[i].version
  PROVE  CatalogInv'
  <1>1. servers' = [servers EXCEPT ![i] = row]
    BY DEF C!Commit
  <1>2. servers' \in [Ids -> ServerRows \cup {None}] /\ spent' \subseteq Ids
    BY <1>1 DEF CatalogInv
  <1>3. RowsOf(servers') \subseteq spent'
    BY <1>1 DEF CatalogInv, RowsOf
  <1>4. ASSUME NEW q \in Writers
        PROVE  writer'[q] \in Handlers /\ HandlerGood(writer'[q], servers', spent', grant)
    <2>0. writer[q] \in Handlers /\ HandlerGood(writer[q], servers, spent, grant)
      BY DEF CatalogInv
    <2>1. CASE q = w
      BY <2>1, IdleIsGood DEF C!Commit
    <2>2. CASE q # w /\ writer[q].pc = "idle"
      <3>1. writer'[q] = writer[q]
        BY <2>2 DEF C!Commit, C!At
      <3>2. writer[q].id = None /\ None \notin Ids
        BY <2>0, <2>2, CatalogConstants DEF HandlerGood, Plain
      <3> QED BY <2>0, <2>2, <3>1, <3>2
              DEF HandlerGood, ShownRow, ShownGrant, Plain, SlugStands, CapStands, RowsOf
    <2>3. CASE q # w /\ writer[q].pc # "idle"
      <3>1. PICK t \in BOOLEAN : t <=> (writer[q].touched \/ writer[q].id = i)
        OBVIOUS
      <3>2. PICK ra : ra = IF writer[q].pc = "slug" THEN {} ELSE writer[q].raced \cup {i}
        OBVIOUS
      <3>3. (writer[q].touched \/ writer[q].id = i) = t
        BY <3>1, <2>0 DEF Handlers
      <3>4. writer'[q] = [writer[q] EXCEPT !.touched = t, !.raced = ra]
        BY <2>3, <3>2, <3>3 DEF C!Commit, C!At
      <3>5. servers \in [Ids -> ServerRows \cup {None}] /\ spent \in SUBSET Ids
            /\ RowsOf(servers) \subseteq spent
        BY DEF CatalogInv
      <3>6. PICK x : x = writer[q]
        OBVIOUS
      <3>7. PICK y : y = writer'[q]
        OBVIOUS
      <3>8. x \in Handlers /\ HandlerGood(x, servers, spent, grant) /\ x.pc # "idle"
        BY <2>0, <2>3, <3>6
      <3>9. /\ t <=> (x.touched \/ x.id = i)
            /\ ra = IF x.pc = "slug" THEN {} ELSE x.raced \cup {i}
            /\ y = [x EXCEPT !.touched = t, !.raced = ra]
        BY <3>1, <3>2, <3>4, <3>6, <3>7
      <3>10. y \in Handlers /\ HandlerGood(y, servers', spent', grant)
        BY <3>1, <3>5, <3>8, <3>9, <1>1, CommitSeenByOther
      <3> QED BY <3>10, <3>7
    <2> QED BY <2>1, <2>2, <2>3
  <1>5. writer' = [q \in Writers |-> writer'[q]]
    BY DEF C!Commit
  <1>6. writer' \in [Writers -> Handlers]
    BY <1>4, <1>5
  <1> QED BY <1>2, <1>3, <1>4, <1>6 DEF CatalogInv

(* auditedTx with the entitlement: its version only grows, until it is gone. *)
LEMMA CommitGrantKeeps ==
  ASSUME CatalogInv, NEW w, NEW v \in Nat \cup {None}, C!CommitGrant(w, v),
         grant \in Nat, v = None \/ (v \in Nat /\ v > grant)
  PROVE  CatalogInv'
  <1>n. None \notin Nat
    BY CatalogConstants
  <1>1. servers' = servers /\ spent' = spent /\ grant' = v
    BY DEF C!CommitGrant
  <1>2. ASSUME NEW q \in Writers
        PROVE  writer'[q] \in Handlers /\ HandlerGood(writer'[q], servers, spent, v)
    <2>0. writer[q] \in Handlers /\ HandlerGood(writer[q], servers, spent, grant)
      BY DEF CatalogInv
    <2>1. CASE q = w
      BY <2>1, IdleIsGood DEF C!CommitGrant
    <2>2. CASE q # w
      <3>1. PICK t \in BOOLEAN : t <=> (writer[q].touched \/ writer[q].pc = "grant")
        OBVIOUS
      <3>2. (writer[q].touched \/ writer[q].pc = "grant") = t
        BY <3>1, <2>0 DEF Handlers
      <3>3. PICK x : x = writer[q]
        OBVIOUS
      <3>4. PICK y : y = [x EXCEPT !.touched = t]
        OBVIOUS
      <3>5. writer'[q] = y
        BY <2>2, <3>2, <3>3, <3>4 DEF C!CommitGrant, C!At
      <3>6. /\ y \in Handlers /\ y.pc = x.pc /\ y.id = x.id /\ y.name = x.name
            /\ y.active = x.active /\ y.expected = x.expected /\ y.touched = t
            /\ y.raced = x.raced /\ x.expected \in Nat
        BY <2>0, <3>3, <3>4 DEF Handlers
      <3>7. x.pc # "grant" => (t <=> x.touched)
        BY <3>1, <3>3
      <3>8. HandlerGood(x, servers, spent, grant)
        BY <2>0, <3>3
      <3>9. ShownGrant(y, v)
        BY <3>6, <3>8, <1>n DEF HandlerGood, ShownGrant
      <3>10. ShownRow(y, servers) /\ Plain(y, spent)
        <4>1. CASE x.pc = "grant"
          BY <4>1, <3>6, <3>8, CatalogConstants DEF HandlerGood, ShownRow, Plain, RowsOf
        <4>2. CASE x.pc # "grant"
          BY <4>2, <3>6, <3>7, <3>8 DEF HandlerGood, ShownRow, Plain
        <4> QED BY <4>1, <4>2
      <3>11. SlugStands(y, servers) /\ CapStands(y, servers)
        BY <3>6, <3>8 DEF HandlerGood, SlugStands, CapStands
      <3> QED BY <3>5, <3>6, <3>9, <3>10, <3>11 DEF HandlerGood
    <2> QED BY <2>1, <2>2
  <1>3. writer' = [q \in Writers |-> writer'[q]]
    BY DEF C!CommitGrant
  <1>4. writer' \in [Writers -> Handlers]
    BY <1>2, <1>3
  <1> QED BY <1>1, <1>2, <1>4 DEF CatalogInv

(* A handler's own steps: it is shown a row, looks for its slug and counts. *)
LEMMA HandlerStep ==
  ASSUME CatalogInv, NEW w \in Writers, UNCHANGED <<servers, spent, grant>>,
         \/ \E n \in Names, a \in BOOLEAN :
               C!BeginCreate(w, n, a) \/ \E i \in Ids : C!BeginUpdate(w, i, n, a)
         \/ C!SlugFree(w) \/ C!UnderCap(w) \/ C!BeginGrantUpdate(w) \/ C!Return(w)
  PROVE  CatalogInv'
  <1>n. None \notin Ids /\ None \notin Nat /\ IsFiniteSet(Ids) /\ Cap \in Nat
    BY CatalogConstants
  <1>w. writer[w] \in Handlers /\ HandlerGood(writer[w], servers, spent, grant)
    BY DEF CatalogInv
  <1>v. \A i \in RowsOf(servers) : i \in spent /\ servers[i].version \in Nat
    BY DEF CatalogInv, RowsOf, ServerRows
  <1>1. ASSUME NEW n \in Names, NEW a \in BOOLEAN, C!BeginCreate(w, n, a) PROVE CatalogInv'
    <2>1. PICK x : x = [C!Idle EXCEPT !.pc = "slug", !.name = n, !.active = a]
      OBVIOUS
    <2>2. x \in Handlers /\ x.pc = "slug" /\ x.id = None /\ ~x.touched
      BY <2>1 DEF C!Idle, Handlers
    <2>3. HandlerGood(x, servers, spent, grant)
      BY <2>2, <1>n
      DEF HandlerGood, ShownRow, ShownGrant, Plain, SlugStands, CapStands, RowsOf
    <2>4. writer' = [writer EXCEPT ![w] = x]
      BY <1>1, <2>1 DEF C!BeginCreate
    <2> QED BY <2>2, <2>3, <2>4, HandlerMoves
  <1>2. ASSUME NEW n \in Names, NEW a \in BOOLEAN, NEW i \in Ids, C!BeginUpdate(w, i, n, a)
        PROVE  CatalogInv'
    <2>0. i \in RowsOf(servers)
      BY <1>2 DEF C!BeginUpdate, C!Rows, RowsOf
    <2>1. PICK v : v = servers[i].version
      OBVIOUS
    <2>2. PICK x : x = [C!Idle EXCEPT !.pc = "slug", !.id = i, !.name = n,
                                      !.active = a, !.expected = v]
      OBVIOUS
    <2>3. v \in Nat
      BY <2>0, <2>1, <1>v
    <2>4. x \in Handlers /\ x.pc = "slug" /\ x.id = i /\ ~x.touched /\ x.expected = v
      BY <2>2, <2>3 DEF C!Idle, Handlers
    <2>5. HandlerGood(x, servers, spent, grant)
      BY <2>0, <2>1, <2>3, <2>4, <1>n, <1>v
      DEF HandlerGood, ShownRow, ShownGrant, Plain, SlugStands, CapStands
    <2>6. writer' = [writer EXCEPT ![w] = x]
      BY <1>2, <2>1, <2>2 DEF C!BeginUpdate, C!ETag
    <2> QED BY <2>4, <2>5, <2>6, HandlerMoves
  <1>3. CASE C!SlugFree(w)
    <2>1. PICK x : x = [writer[w] EXCEPT !.pc = "cap"]
      OBVIOUS
    <2>2. PICK o : o = writer[w]
      OBVIOUS
    <2>3. /\ x \in Handlers /\ x.pc = "cap" /\ x.id = o.id /\ x.name = o.name
          /\ x.expected = o.expected /\ x.touched = o.touched /\ x.raced = o.raced
      BY <2>1, <2>2, <1>w DEF Handlers
    <2>4. HandlerGood(o, servers, spent, grant) /\ o.pc = "slug"
      BY <1>3, <2>2, <1>w DEF C!SlugFree, C!At
    <2>5. SlugStands(x, servers)
      BY <1>3, <2>2, <2>3
      DEF SlugStands, C!SlugFree, C!Others, C!Rows, C!Collides, RowsOf
    <2>6. HandlerGood(x, servers, spent, grant)
      BY <2>3, <2>4, <2>5 DEF HandlerGood, ShownRow, ShownGrant, Plain, CapStands
    <2>7. writer' = [writer EXCEPT ![w] = x]
      BY <1>3, <2>1 DEF C!SlugFree, CatalogInv
    <2> QED BY <2>3, <2>6, <2>7, HandlerMoves
  <1>4. CASE C!UnderCap(w)
    <2>1. PICK x : x = [writer[w] EXCEPT !.pc = "tx"]
      OBVIOUS
    <2>2. PICK o : o = writer[w]
      OBVIOUS
    <2>3. /\ x \in Handlers /\ x.pc = "tx" /\ x.id = o.id /\ x.name = o.name
          /\ x.active = o.active
          /\ x.expected = o.expected /\ x.touched = o.touched /\ x.raced = o.raced
      BY <2>1, <2>2, <1>w DEF Handlers
    <2>4. HandlerGood(o, servers, spent, grant) /\ o.pc = "cap"
      BY <1>4, <2>2, <1>w DEF C!UnderCap, C!At
    <2>5. CapStands(x, servers)
      <3> SUFFICES ASSUME Cap > 0, o.active
                   PROVE  Cardinality(ActiveOf(servers) \ ({o.id} \cup o.raced)) < Cap
        BY <2>3 DEF CapStands
      <3>1. PICK A : A = ActiveOf(servers) \ {o.id}
        OBVIOUS
      <3>2. PICK B : B = ActiveOf(servers) \ ({o.id} \cup o.raced)
        OBVIOUS
      <3>3. ~(Cardinality(A) >= Cap)
        BY <1>4, <2>2, <3>1, SameCardinality
        DEF C!UnderCap, C!Capped, C!ActiveRows, C!Rows, ActiveOf, RowsOf
      <3>4. IsFiniteSet(A)
        BY <1>n, <3>1, FS_Subset DEF ActiveOf, RowsOf
      <3>5. B \subseteq A
        BY <3>1, <3>2
      <3>6. Cardinality(A) \in Nat /\ Cardinality(B) \in Nat /\ Cardinality(B) <= Cardinality(A)
        BY <3>4, <3>5, PartIsNoLarger
      <3>7. Cardinality(B) < Cap
        BY <3>3, <3>6, <1>n
      <3> QED BY <3>2, <3>7
    <2>6. HandlerGood(x, servers, spent, grant)
      BY <2>3, <2>4, <2>5 DEF HandlerGood, ShownRow, ShownGrant, Plain, SlugStands
    <2>7. writer' = [writer EXCEPT ![w] = x]
      BY <1>4, <2>1 DEF C!UnderCap, CatalogInv
    <2> QED BY <2>3, <2>6, <2>7, HandlerMoves
  <1>5. CASE C!BeginGrantUpdate(w)
    <2>1. PICK x : x = [C!Idle EXCEPT !.pc = "grant", !.expected = grant]
      OBVIOUS
    <2>2. grant \in Nat /\ grant > 0
      BY <1>5, CatalogAssumption DEF C!BeginGrantUpdate, C!CatalogAssumption
    <2>3. x \in Handlers /\ x.pc = "grant" /\ x.id = None /\ ~x.touched /\ x.expected = grant
      BY <2>1, <2>2 DEF C!Idle, Handlers
    <2>4. HandlerGood(x, servers, spent, grant)
      BY <2>2, <2>3, <1>n
      DEF HandlerGood, ShownRow, ShownGrant, Plain, SlugStands, CapStands, RowsOf
    <2>5. writer' = [writer EXCEPT ![w] = x]
      BY <1>5, <2>1 DEF C!BeginGrantUpdate
    <2> QED BY <2>3, <2>4, <2>5, HandlerMoves
  <1>6. CASE C!Return(w)
    BY <1>6, IdleIsGood, HandlerMoves DEF C!Return
  <1> QED BY <1>1, <1>2, <1>3, <1>4, <1>5, <1>6

(* What a create, an update, a delete write. *)
LEMMA CommitStep ==
  ASSUME CatalogInv,
         \/ \E w \in Writers : C!CommitUpdate(w) \/ \E i \in Ids : C!CommitCreate(w, i)
         \/ \E i \in Ids : C!Delete(i)
  PROVE  CatalogInv'
  <1>1. ASSUME NEW w \in Writers, NEW i \in Ids, C!CommitCreate(w, i) PROVE CatalogInv'
    <2>1. PICK row : row = [name |-> writer[w].name, active |-> writer[w].active, version |-> 1]
      OBVIOUS
    <2>2. row \in ServerRows
      BY <2>1 DEF CatalogInv, Handlers, ServerRows
    <2>3. /\ C!Commit(w, i, row) /\ grant' = grant
          /\ i \notin spent /\ spent' = spent \cup {i}
      BY <1>1, <2>1 DEF C!CommitCreate
    <2> QED BY <2>2, <2>3, CommitKeeps
  <1>2. ASSUME NEW w \in Writers, C!CommitUpdate(w) PROVE CatalogInv'
    <2>1. PICK i : i = writer[w].id
      OBVIOUS
    <2>2. i \in RowsOf(servers) /\ i \in Ids
      BY <1>2, <2>1 DEF C!CommitUpdate, C!Rows, RowsOf
    <2>3. PICK v : v = servers[i].version
      OBVIOUS
    <2>4. v \in Nat
      BY <2>2, <2>3 DEF CatalogInv, RowsOf, ServerRows
    <2>5. PICK row : row = [name |-> writer[w].name, active |-> writer[w].active,
                            version |-> v + 1]
      OBVIOUS
    <2>6. row \in ServerRows /\ row.version > v
      BY <2>4, <2>5 DEF CatalogInv, Handlers, ServerRows
    <2>7. C!Commit(w, i, row) /\ grant' = grant /\ spent' = spent
      BY <1>2, <2>1, <2>3, <2>5 DEF C!CommitUpdate, C!Bumped
    <2> QED BY <2>2, <2>3, <2>6, <2>7, CommitKeeps
  <1>3. ASSUME NEW i \in Ids, C!Delete(i) PROVE CatalogInv'
    <2>1. /\ i \in RowsOf(servers) /\ C!Commit(None, i, None)
          /\ grant' = grant /\ spent' = spent
      BY <1>3 DEF C!Delete, C!Rows, RowsOf
    <2>2. PICK row \in ServerRows \cup {None} : row = None
      OBVIOUS
    <2>3. C!Commit(None, i, row)
      BY <2>1, <2>2
    <2> QED BY <2>1, <2>2, <2>3, CommitKeeps
  <1> QED BY <1>1, <1>2, <1>3

(* Every step of the admins and of the gateway. *)
LEMMA CatalogInvStep == CatalogInv /\ [C!Next]_(C!vars) => CatalogInv'
  <1> SUFFICES ASSUME CatalogInv, [C!Next]_(C!vars) PROVE CatalogInv'
    OBVIOUS
  <1>1. CASE UNCHANGED <<servers, spent, grant, writer>>
    BY <1>1 DEF CatalogInv
  <1>2. CASE C!Write
    <2>1. ASSUME NEW w \in Writers,
                 \/ \E n \in Names, a \in BOOLEAN :
                       C!BeginCreate(w, n, a) \/ \E i \in Ids : C!BeginUpdate(w, i, n, a)
                 \/ C!SlugFree(w) \/ C!UnderCap(w)
          PROVE  CatalogInv'
      <3>1. UNCHANGED <<servers, spent, grant>>
        BY <2>1 DEF C!BeginCreate, C!BeginUpdate, C!SlugFree, C!UnderCap
      <3> QED BY <2>1, <3>1, HandlerStep
    <2>2. ASSUME NEW w \in Writers,
                 \/ C!SlugTaken(w) \/ C!LimitError(w) \/ C!VersionMismatch(w)
                 \/ C!NotFound(w) \/ C!Fails(w)
          PROVE  CatalogInv'
      <3>1. UNCHANGED <<servers, spent, grant>> /\ C!Return(w)
        BY <2>2 DEF C!SlugTaken, C!LimitError, C!VersionMismatch, C!NotFound, C!Fails
      <3> QED BY <3>1, HandlerStep
    <2> QED BY <1>2, <2>1, <2>2, CommitStep DEF C!Write
  <1>3. CASE C!WriteGrant
    <2>0. None \notin Nat
      BY CatalogConstants
    <2>1. CASE C!CreateEntitlement
      <3>1. grant \in Nat /\ C!CommitGrant(None, 1) /\ 1 > grant
        BY <2>1 DEF C!CreateEntitlement
      <3> QED BY <3>1, CommitGrantKeeps
    <2>2. CASE C!DeleteEntitlement
      <3>1. grant \in Nat /\ C!CommitGrant(None, None)
        BY <2>2, CatalogAssumption DEF C!DeleteEntitlement, C!CatalogAssumption
      <3>2. PICK v \in Nat \cup {None} : v = None
        OBVIOUS
      <3>3. C!CommitGrant(None, v)
        BY <3>1, <3>2
      <3> QED BY <3>1, <3>2, <3>3, CommitGrantKeeps
    <2>3. ASSUME NEW w \in Writers, C!UpdateEntitlement(w) PROVE CatalogInv'
      <3>1. grant \in Nat
        BY <2>3 DEF C!UpdateEntitlement, CatalogInv, Handlers
      <3>2. C!CommitGrant(w, grant + 1)
        BY <2>3 DEF C!UpdateEntitlement, C!Bumped
      <3>3. PICK v \in Nat : v = grant + 1
        BY <3>1
      <3>4. C!CommitGrant(w, v) /\ v > grant
        BY <3>1, <3>2, <3>3
      <3> QED BY <3>1, <3>4, CommitGrantKeeps
    <2>4. ASSUME NEW w \in Writers, C!BeginGrantUpdate(w) PROVE CatalogInv'
      <3>1. UNCHANGED <<servers, spent, grant>>
        BY <2>4 DEF C!BeginGrantUpdate
      <3> QED BY <2>4, <3>1, HandlerStep
    <2>5. ASSUME NEW w \in Writers, C!GrantMoved(w) \/ C!Fails(w) PROVE CatalogInv'
      <3>1. UNCHANGED <<servers, spent, grant>> /\ C!Return(w)
        BY <2>5 DEF C!GrantMoved, C!Fails
      <3> QED BY <3>1, HandlerStep
    <2> QED BY <1>3, <2>1, <2>2, <2>3, <2>4, <2>5 DEF C!WriteGrant
  <1>4. CASE C!Gateway
    BY <1>4, <1>1 DEF C!Gateway, C!Listen, C!ListenerDrops, C!Notified, C!BuildReads,
                      C!BuildCached, C!SessionExpires
  <1>5. CASE UNCHANGED C!vars
    BY <1>5, <1>1 DEF C!vars
  <1> QED BY <1>2, <1>3, <1>4, <1>5 DEF C!Next

(* What a commit of row i by w, with all the checks before it, can meet. *)
LEMMA CommitMeets ==
  ASSUME CatalogInv, NEW w \in Writers, NEW i \in Ids, NEW row \in ServerRows,
         C!At(w, "tx"), C!Commit(w, i, row),
         \/ writer[w].id = None
         \/ writer[w].id = i /\ i \in RowsOf(servers) /\ servers[i].version = writer[w].expected
  PROVE  /\ ~writer[w].touched
         /\ \A j \in C!Rows' \ {i} :
               Slugs[servers'[j].name] = Slugs[writer[w].name] => j \in writer[w].raced
         /\ (Cap > 0 /\ writer[w].active) =>
               C!Cardinality(C!ActiveRows') <=
                 Cap + C!Cardinality(C!ActiveRows \cap writer[w].raced)
  <1>n. None \notin Ids /\ None \notin Nat /\ IsFiniteSet(Ids) /\ Cap \in Nat
    BY CatalogConstants
  <1>0. PICK x : x = writer[w]
    OBVIOUS
  <1>1. x \in Handlers /\ HandlerGood(x, servers, spent, grant) /\ x.pc = "tx"
    BY <1>0 DEF CatalogInv, C!At
  <1>2. \A j \in Ids : servers'[j] = IF j = i THEN row ELSE servers[j]
    BY DEF C!Commit, CatalogInv
  <1>3. ~x.touched
    <2>1. CASE x.id = None
      BY <1>1, <2>1 DEF HandlerGood, Plain
    <2>2. CASE x.id = i /\ i \in RowsOf(servers) /\ servers[i].version = x.expected
      <3>1. x.expected \in Nat
        BY <1>1 DEF Handlers
      <3> QED BY <1>1, <2>2, <3>1 DEF HandlerGood, ShownRow
    <2> QED BY <1>0, <2>1, <2>2
  <1>4. ASSUME NEW j \in C!Rows' \ {i}, Slugs[servers'[j].name] = Slugs[x.name]
        PROVE  j \in x.raced
    <2>1. j \in RowsOf(servers) /\ j # x.id /\ servers'[j] = servers[j]
      BY <1>2, <1>4, <1>n, <1>0 DEF C!Rows, RowsOf
    <2> QED BY <1>1, <1>4, <2>1 DEF HandlerGood, SlugStands
  <1>5. ASSUME Cap > 0, x.active
        PROVE  C!Cardinality(C!ActiveRows') <= Cap + C!Cardinality(C!ActiveRows \cap x.raced)
    <2>1. PICK A : A = ActiveOf(servers) \ ({x.id} \cup x.raced)
      OBVIOUS
    <2>2. PICK R : R = ActiveOf(servers) \cap x.raced
      OBVIOUS
    <2>3. PICK B : B = C!ActiveRows'
      OBVIOUS
    <2>4. R = C!ActiveRows \cap x.raced
      BY <2>2 DEF C!ActiveRows, C!Rows, ActiveOf, RowsOf
    <2>5. B \subseteq (A \cup {i}) \cup R
      <3>1. \A j \in B : j # i => j \in ActiveOf(servers) /\ j # x.id
        BY <1>2, <1>0, <1>n, <2>3 DEF C!ActiveRows, C!Rows, ActiveOf, RowsOf
      <3> QED BY <3>1, <2>1, <2>2
    <2>6. IsFiniteSet(A) /\ IsFiniteSet(R) /\ IsFiniteSet({i}) /\ Cardinality({i}) = 1
      <3>1. A \subseteq Ids /\ R \subseteq Ids
        BY <2>1, <2>2 DEF ActiveOf, RowsOf
      <3>2. IsFiniteSet(A) /\ IsFiniteSet(R)
        BY <3>1, <1>n, FS_Subset
      <3> QED BY <3>2, FS_Singleton
    <2>7. IsFiniteSet(A \cup {i}) /\ Cardinality(A \cup {i}) <= Cardinality(A) + 1
      BY <2>6, UnionIsNoLarger
    <2>8. /\ IsFiniteSet((A \cup {i}) \cup R)
          /\ Cardinality((A \cup {i}) \cup R) <= Cardinality(A \cup {i}) + Cardinality(R)
      BY <2>6, <2>7, UnionIsNoLarger
    <2>9. Cardinality(B) <= Cardinality((A \cup {i}) \cup R)
      BY <2>5, <2>8, PartIsNoLarger
    <2>10. /\ Cardinality(A) \in Nat /\ Cardinality(R) \in Nat /\ Cardinality(A \cup {i}) \in Nat
           /\ Cardinality((A \cup {i}) \cup R) \in Nat /\ Cardinality(B) \in Nat
      BY <2>5, <2>6, <2>7, <2>8, FS_CardinalityType, PartIsNoLarger
    <2>11. Cardinality(A) < Cap
      BY <1>1, <1>5, <2>1 DEF HandlerGood, CapStands
    <2>12. Cardinality(B) <= Cap + Cardinality(R)
      BY <2>7, <2>8, <2>9, <2>10, <2>11, <1>n
    <2>13. C!Cardinality(B) = Cardinality(B) /\ C!Cardinality(R) = Cardinality(R)
      BY SameCardinality
    <2> QED BY <2>3, <2>4, <2>12, <2>13
  <1> QED BY <1>0, <1>3, <1>4, <1>5

(* An admin's commit replaces exactly what the client was shown; a slug is  *)
(* shared and the cap overrun only with what other admins wrote after the   *)
(* checks. For any number of admins and servers, any cap, any names.        *)
THEOREM AdminsCommitAsIfAlone == C!Spec => CommitsAsIfAlone
  <1>1. C!Init => CatalogInv
    <2> SUFFICES ASSUME C!Init PROVE CatalogInv
      OBVIOUS
    <2>1. RowsOf(servers) = {} /\ servers \in [Ids -> ServerRows \cup {None}]
      BY DEF C!Init, RowsOf
    <2> QED BY <2>1, IdleIsGood DEF C!Init, CatalogInv
  <1>2. CatalogInv /\ [C!Next]_(C!vars) =>
          [\A w \in Writers :
             /\ C!UpdateEntitlement(w) => ~writer[w].touched
             /\ \A i \in Ids :
                  (C!CommitCreate(w, i) \/ (C!CommitUpdate(w) /\ i = writer[w].id)) =>
                  /\ ~writer[w].touched
                  /\ \A j \in C!Rows' \ {i} :
                        Slugs[servers'[j].name] = Slugs[writer[w].name] => j \in writer[w].raced
                  /\ (Cap > 0 /\ writer[w].active) =>
                        C!Cardinality(C!ActiveRows') <=
                          Cap + C!Cardinality(C!ActiveRows \cap writer[w].raced)]_(C!vars)
    <2> SUFFICES ASSUME CatalogInv, NEW w \in Writers
                 PROVE  /\ C!UpdateEntitlement(w) => ~writer[w].touched
                        /\ \A i \in Ids :
                             (C!CommitCreate(w, i) \/ (C!CommitUpdate(w) /\ i = writer[w].id)) =>
                             /\ ~writer[w].touched
                             /\ \A j \in C!Rows' \ {i} :
                                   Slugs[servers'[j].name] = Slugs[writer[w].name]
                                     => j \in writer[w].raced
                             /\ (Cap > 0 /\ writer[w].active) =>
                                   C!Cardinality(C!ActiveRows') <=
                                     Cap + C!Cardinality(C!ActiveRows \cap writer[w].raced)
      OBVIOUS
    <2>1. ASSUME C!UpdateEntitlement(w) PROVE ~writer[w].touched
      <3>1. writer[w].pc = "grant" /\ grant = writer[w].expected /\ grant \in Nat
        BY <2>1 DEF C!UpdateEntitlement, C!At, CatalogInv, Handlers
      <3>2. ShownGrant(writer[w], grant)
        BY DEF CatalogInv, HandlerGood
      <3> QED BY <3>1, <3>2 DEF ShownGrant
    <2>2. ASSUME NEW i \in Ids, C!CommitCreate(w, i)
          PROVE  \E row \in ServerRows :
                   C!At(w, "tx") /\ C!Commit(w, i, row) /\ writer[w].id = None
      <3>1. PICK row : row = [name |-> writer[w].name, active |-> writer[w].active, version |-> 1]
        OBVIOUS
      <3>2. row \in ServerRows
        BY <3>1 DEF CatalogInv, Handlers, ServerRows
      <3> QED BY <2>2, <3>1, <3>2 DEF C!CommitCreate
    <2>3. ASSUME NEW i \in Ids, C!CommitUpdate(w), i = writer[w].id
          PROVE  \E row \in ServerRows :
                   /\ C!At(w, "tx") /\ C!Commit(w, i, row)
                   /\ i \in RowsOf(servers) /\ servers[i].version = writer[w].expected
      <3>1. PICK row : row = [name |-> writer[w].name, active |-> writer[w].active,
                              version |-> servers[i].version + 1]
        OBVIOUS
      <3>2. i \in RowsOf(servers)
        BY <2>3 DEF C!CommitUpdate, C!Rows, RowsOf
      <3>3. row \in ServerRows
        BY <3>1, <3>2 DEF CatalogInv, Handlers, ServerRows, RowsOf
      <3> QED BY <2>3, <3>1, <3>2, <3>3 DEF C!CommitUpdate, C!Bumped
    <2> QED BY <2>1, <2>2, <2>3, CommitMeets
  <1> QED BY <1>1, <1>2, CatalogInvStep, PTL DEF C!Spec, CommitsAsIfAlone, C!CommitsAsIfAlone

-----------------------------------------------------------------------------
(* Pages *)

(* Row i comes before row j in a list of order d. *)
Above(i, j, d) == P!Precedes(P!Position(i), P!Position(j), d)

(* The rows of F before row i. *)
RowsAbove(F, i, d) == {j \in F : Above(j, i, d)}

(* The first n rows of F. *)
FirstOf(F, d, n) == {i \in F : Cardinality(RowsAbove(F, i, d)) < n}

(* What the list's constants are. *)
LEMMA PagingConstants ==
  /\ RowIds \subseteq Nat /\ IsFiniteSet(RowIds)
  /\ MaxKey \in Nat /\ MaxLimit \in Nat \ {0}
  /\ NoCursor \notin P!Cursors /\ P!SortKeys \subseteq Nat
  <1>1. IsFiniteSet(RowIds)
    BY PagingAssumption DEF P!PagingAssumption, P!IsFiniteSet, IsFiniteSet
  <1>2. RowIds \subseteq Nat /\ NoCursor \notin P!Cursors
    BY PagingAssumption, Zenon DEF P!PagingAssumption
  <1>3. MaxKey \in Nat /\ MaxLimit \in Nat \ {0}
    BY PagingAssumption DEF P!PagingAssumption
  <1>4. P!SortKeys \subseteq Nat
    BY <1>3 DEF P!SortKeys
  <1> QED BY <1>1, <1>2, <1>3, <1>4

(* (key, id) orders positions strictly and totally, whichever way round. *)
LEMMA PositionsOrdered ==
  ASSUME NEW p, NEW q, NEW r, NEW d \in BOOLEAN,
         p.key \in Nat, p.id \in Nat, q.key \in Nat, q.id \in Nat, r.key \in Nat, r.id \in Nat
  PROVE  /\ ~P!Precedes(p, p, d)
         /\ P!Precedes(p, q, d) /\ P!Precedes(q, r, d) => P!Precedes(p, r, d)
         /\ p.id # q.id => P!Precedes(p, q, d) \/ P!Precedes(q, p, d)
  BY DEF P!Precedes, P!Before

(* A row's position. *)
LEMMA PositionOfRow ==
  ASSUME NEW i \in P!Present
  PROVE  /\ P!Position(i).key = table[i] /\ P!Position(i).id = i
         /\ P!Position(i).key \in Nat /\ P!Position(i).id \in Nat
         /\ i \in RowIds /\ table[i] \in P!SortKeys
  BY PagingConstants DEF P!Present, P!Position, P!SortKeys

(* A row further down has more rows above it. *)
LEMMA RowsAboveGrow ==
  ASSUME NEW F, F \subseteq P!Present, NEW d \in BOOLEAN, NEW i \in F
  PROVE  /\ IsFiniteSet(F) /\ IsFiniteSet(RowsAbove(F, i, d))
         /\ Cardinality(RowsAbove(F, i, d)) \in Nat
         /\ Cardinality(RowsAbove(F, i, d)) <= Cardinality(F) /\ Cardinality(F) \in Nat
         /\ \A j \in F : Above(j, i, d) =>
               Cardinality(RowsAbove(F, j, d)) < Cardinality(RowsAbove(F, i, d))
  <1>1. IsFiniteSet(F)
    BY PagingConstants, FS_Subset DEF P!Present
  <1>2. \A j \in F : RowsAbove(F, j, d) \subseteq F
    BY DEF RowsAbove
  <1>3. \A j \in F : IsFiniteSet(RowsAbove(F, j, d)) /\ Cardinality(RowsAbove(F, j, d)) \in Nat
    BY <1>1, <1>2, FS_Subset, FS_CardinalityType
  <1>4. /\ Cardinality(RowsAbove(F, i, d)) <= Cardinality(F) /\ Cardinality(F) \in Nat
    BY <1>1, <1>2, PartIsNoLarger
  <1>5. ASSUME NEW j \in F, Above(j, i, d)
        PROVE  Cardinality(RowsAbove(F, j, d)) < Cardinality(RowsAbove(F, i, d))
    <2>1. ~Above(j, j, d)
      BY PositionOfRow, PositionsOrdered DEF Above
    <2>2. \A k \in F : Above(k, j, d) => Above(k, i, d)
      BY <1>5, PositionOfRow, PositionsOrdered DEF Above
    <2>3. PICK A : A = RowsAbove(F, j, d)
      OBVIOUS
    <2>4. PICK B : B = RowsAbove(F, i, d)
      OBVIOUS
    <2>5. A \subseteq B /\ A # B
      BY <1>5, <2>1, <2>2, <2>3, <2>4 DEF RowsAbove
    <2>6. IsFiniteSet(B) /\ Cardinality(A) \in Nat /\ Cardinality(B) \in Nat
      BY <1>3, <2>3, <2>4
    <2>7. Cardinality(A) < Cardinality(B)
      BY <2>5, <2>6, FS_Subset
    <2> QED BY <2>3, <2>4, <2>7
  <1> QED BY <1>1, <1>3, <1>4, <1>5

(* The page query's first n rows of F: fewer than n only when they are all, *)
(* and every row that is left out comes after every row of the page.        *)
LEMMA FirstRows ==
  ASSUME NEW F, F \subseteq P!Present, NEW d \in BOOLEAN, NEW n \in Nat,
         NEW Q, Q = FirstOf(F, d, n)
  PROVE  /\ Cardinality(Q) < n => Q = F
         /\ \A i \in Q, k \in F \ Q : Above(i, k, d)
         /\ Q # {} => \E i \in Q : \A j \in Q \ {i} : Above(j, i, d)
  <1> USE DEF FirstOf
  <1>0. \A i \in F : Cardinality(RowsAbove(F, i, d)) \in Nat
    BY RowsAboveGrow
  <1>1. ASSUME Q # F PROVE Cardinality(Q) >= n
    <2>1. PICK T : T = {Cardinality(RowsAbove(F, i, d)) : i \in F \ Q}
      OBVIOUS
    <2>2. T \in SUBSET Nat /\ T # {}
      BY <1>0, <1>1, <2>1
    <2>3. PICK x \in T : \A y \in T : x <= y
      BY <2>2, LeastNatural
    <2>4. PICK i \in F \ Q : x = Cardinality(RowsAbove(F, i, d))
      BY <2>1, <2>3
    <2>5. ASSUME NEW j \in RowsAbove(F, i, d) PROVE j \in Q
      <3>1. j \in F /\ Above(j, i, d)
        BY DEF RowsAbove
      <3>2. Cardinality(RowsAbove(F, j, d)) < x
        BY <2>4, <3>1, RowsAboveGrow
      <3>3. Cardinality(RowsAbove(F, j, d)) \in Nat /\ x \in Nat
        BY <1>0, <2>2, <3>1
      <3>4. ASSUME j \notin Q PROVE FALSE
        <4>1. Cardinality(RowsAbove(F, j, d)) \in T
          BY <2>1, <3>1, <3>4
        <4> QED BY <4>1, <2>3, <3>2, <3>3
      <3> QED BY <3>4
    <2>6. PICK A : A = RowsAbove(F, i, d)
      OBVIOUS
    <2>7. A \subseteq Q
      BY <2>5, <2>6
    <2>8. IsFiniteSet(F)
      BY <2>4, RowsAboveGrow
    <2>9. IsFiniteSet(Q)
      BY <2>8, FS_Subset
    <2>10. Cardinality(A) \in Nat /\ Cardinality(Q) \in Nat /\ Cardinality(A) <= Cardinality(Q)
      BY <2>7, <2>9, PartIsNoLarger
    <2>11. ~(Cardinality(A) < n)
      BY <2>4, <2>6
    <2> QED BY <2>10, <2>11
  <1>2. ASSUME NEW i \in Q, NEW k \in F \ Q PROVE Above(i, k, d)
    <2>1. i \in F /\ k \in F /\ i # k
      BY <1>2
    <2>2. Above(i, k, d) \/ Above(k, i, d)
      BY <2>1, PositionOfRow, PositionsOrdered DEF Above
    <2>3. ASSUME Above(k, i, d) PROVE FALSE
      <3>1. Cardinality(RowsAbove(F, k, d)) < Cardinality(RowsAbove(F, i, d))
        BY <2>1, <2>3, RowsAboveGrow
      <3>2. Cardinality(RowsAbove(F, i, d)) < n /\ ~(Cardinality(RowsAbove(F, k, d)) < n)
        BY <1>2
      <3> QED BY <1>0, <2>1, <3>1, <3>2
    <2> QED BY <2>2, <2>3
  <1>3. ASSUME Q # {} PROVE \E i \in Q : \A j \in Q \ {i} : Above(j, i, d)
    <2>0. PICK m : m = Cardinality(F)
      OBVIOUS
    <2>1. m \in Nat /\ \A i \in F : Cardinality(RowsAbove(F, i, d)) <= m
      BY <1>3, <2>0, RowsAboveGrow
    <2>2. PICK T : T = {m - Cardinality(RowsAbove(F, i, d)) : i \in Q}
      OBVIOUS
    <2>3. \A i \in Q : m - Cardinality(RowsAbove(F, i, d)) \in Nat
      BY <1>0, <2>1
    <2>4. T \in SUBSET Nat /\ T # {}
      BY <1>3, <2>2, <2>3
    <2>5. PICK x \in T : \A y \in T : x <= y
      BY <2>4, LeastNatural
    <2>6. PICK i \in Q : x = m - Cardinality(RowsAbove(F, i, d))
      BY <2>2, <2>5
    <2>7. ASSUME NEW j \in Q \ {i} PROVE Above(j, i, d)
      <3>1. i \in F /\ j \in F /\ i # j
        BY <2>7
      <3>2. Above(i, j, d) \/ Above(j, i, d)
        BY <3>1, PositionOfRow, PositionsOrdered DEF Above
      <3>3. ASSUME Above(i, j, d) PROVE FALSE
        <4>1. Cardinality(RowsAbove(F, i, d)) < Cardinality(RowsAbove(F, j, d))
          BY <3>1, <3>3, RowsAboveGrow
        <4>2. x <= m - Cardinality(RowsAbove(F, j, d))
          BY <2>2, <2>5, <2>7
        <4> QED BY <1>0, <2>1, <2>6, <3>1, <4>1, <4>2
      <3> QED BY <3>2, <3>3
    <2> QED BY <2>7
  <1>4. Cardinality(Q) < n => Q = F
    <2>1. CASE Q # F
      <3>1. Cardinality(Q) >= n
        BY <1>1, <2>1
      <3>2. IsFiniteSet(F)
        BY <2>1, RowsAboveGrow
      <3>3. Cardinality(Q) \in Nat
        BY <3>2, FS_Subset, FS_CardinalityType
      <3> QED BY <3>1, <3>3
    <2> QED BY <2>1
  <1> QED BY <1>2, <1>3, <1>4

-----------------------------------------------------------------------------
(* The walk *)

Walks == [pc : {"idle", "open", "done"}, cursor : P!Cursors \cup {NoCursor},
          seen : SUBSET RowIds, twice : SUBSET RowIds, stayed : SUBSET RowIds]

(* Row i of the table tb comes after the cursor c. *)
Ahead(c, tb, i) == P!Precedes(c, [key |-> tb[i], id |-> i], c.desc)

(* The cursor parts the rows that stayed: those ahead of it have not been   *)
(* returned, those up to it have been, once. A cursor of the audit log is   *)
(* newest first.                                                            *)
CursorParts(wk, tb) ==
    \A i \in wk.stayed : IF Ahead(wk.cursor, tb, i) THEN i \notin wk.seen
                                                    ELSE i \in wk.seen \ wk.twice

WalkGood(wk, tb, ls) ==
    /\ wk.twice \subseteq wk.seen
    /\ wk.pc = "open" /\ wk.cursor = NoCursor => wk.seen = {}
    /\ wk.pc = "open" /\ wk.cursor # NoCursor =>
          (ls = "audit_event" => wk.cursor.desc) /\ CursorParts(wk, tb)
    /\ wk.pc = "done" => wk.stayed \subseteq wk.seen \ wk.twice

WalkInv ==
    /\ table \in [RowIds -> P!SortKeys \cup {Absent, Gone}]
    /\ walk \in Walks
    /\ walk.stayed \subseteq P!Present
    /\ WalkGood(walk, table, list)

(* Everybody else's writes: a row that is written has not stayed. *)
LEMMA TableMoves ==
  ASSUME WalkInv, UNCHANGED list, NEW D,
         table' \in [RowIds -> P!SortKeys \cup {Absent, Gone}],
         \A j \in RowIds : j \notin D => table'[j] = table[j],
         walk' = [walk EXCEPT !.stayed = walk.stayed \ D]
  PROVE  WalkInv'
  <1>0. walk \in Walks
    BY DEF WalkInv
  <1>1. PICK v : v = walk'
    OBVIOUS
  <1>2. /\ v \in Walks /\ v.pc = walk.pc /\ v.cursor = walk.cursor /\ v.seen = walk.seen
        /\ v.twice = walk.twice /\ v.stayed = walk.stayed \ D
    BY <1>0, <1>1 DEF Walks
  <1>3. \A j \in v.stayed : j \in walk.stayed /\ j \in RowIds /\ table'[j] = table[j]
    BY <1>0, <1>2 DEF Walks
  <1>4. v.stayed \subseteq P!Present'
    BY <1>3 DEF WalkInv, P!Present
  <1>5. WalkGood(walk, table, list)
    BY DEF WalkInv
  <1>6. CursorParts(walk, table) => CursorParts(v, table')
    BY <1>2, <1>3 DEF CursorParts, Ahead
  <1>7. WalkGood(v, table', list)
    BY <1>2, <1>5, <1>6 DEF WalkGood
  <1> QED BY <1>1, <1>2, <1>4, <1>7 DEF WalkInv

(* One page, taken in the order d of its cursor: it holds only rows ahead   *)
(* of the cursor, and the next cursor parts the list again. Without one,    *)
(* nothing was left.                                                        *)
LEMMA PageTaken ==
  ASSUME WalkInv, walk.pc = "open", NEW d \in BOOLEAN, NEW n \in Nat \ {0},
         walk.cursor # NoCursor => walk.cursor.desc = d,
         list = "audit_event" => d,
         NEW Q, Q = P!Page(walk.cursor, d, n),
         P!Receive(Q, P!NextCursor(Q, d, n))
  PROVE  WalkInv'
  <1>0. walk \in Walks /\ walk.stayed \subseteq P!Present /\ WalkGood(walk, table, list)
    BY DEF WalkInv
  <1>1. PICK c : c = walk.cursor
    OBVIOUS
  <1>2. PICK F : F = P!Following(c, d)
    OBVIOUS
  <1>3. PICK nx : nx = P!NextCursor(Q, d, n)
    OBVIOUS
  <1>4. /\ F \subseteq P!Present
        /\ F = {i \in P!Present : c = NoCursor \/ P!Precedes(c, P!Position(i), d)}
    BY <1>2 DEF P!Following
  <1>5. Q = FirstOf(F, d, n) /\ Q \subseteq F
    BY <1>1, <1>2, SameCardinality DEF P!Page, FirstOf, RowsAbove, Above
  <1>6. /\ Cardinality(Q) < n => Q = F
        /\ \A i \in Q, k \in F \ Q : Above(i, k, d)
        /\ Q # {} => \E i \in Q : \A j \in Q \ {i} : Above(j, i, d)
    <2>1. F \subseteq P!Present /\ n \in Nat
      BY <1>4
    <2> QED BY <2>1, <1>5, FirstRows
  <1>7. c \in P!Cursors \cup {NoCursor} /\ NoCursor \notin P!Cursors /\ Q \subseteq RowIds
    BY <1>0, <1>1, <1>4, <1>5, PagingConstants DEF Walks, P!Present
  <1>8. \A i \in P!Present : c # NoCursor => (Ahead(c, table, i) <=> i \in F)
    BY <1>1, <1>4 DEF Ahead, P!Position
  <1>9. \A i \in walk.stayed : IF i \in F THEN i \notin walk.seen /\ i \notin walk.twice
                                          ELSE i \in walk.seen \ walk.twice
    <2>1. CASE c = NoCursor
      BY <2>1, <1>0, <1>1, <1>4 DEF WalkGood
    <2>2. CASE c # NoCursor
      BY <2>2, <1>0, <1>1, <1>8 DEF WalkGood, CursorParts
    <2> QED BY <2>1, <2>2
  <1>10. PICK s : s = walk.seen \cup Q
    OBVIOUS
  <1>11. PICK t : t = walk.twice \cup (walk.seen \cap Q)
    OBVIOUS
  <1>12. PICK p : p = IF nx = NoCursor THEN "done" ELSE "open"
    OBVIOUS
  <1>13. PICK v : v = walk'
    OBVIOUS
  <1>14. /\ v = [walk EXCEPT !.seen = s, !.twice = t, !.cursor = nx, !.pc = p]
         /\ UNCHANGED <<list, table>>
    BY <1>3, <1>10, <1>11, <1>12, <1>13 DEF P!Receive
  <1>15. s \subseteq RowIds /\ t \subseteq s
    BY <1>0, <1>7, <1>10, <1>11 DEF Walks, WalkGood
  <1>16. CASE Cardinality(Q) < n
    <2>1. nx = NoCursor /\ p = "done"
      BY <1>3, <1>12, <1>16, SameCardinality DEF P!NextCursor
    <2>2. /\ v \in Walks /\ v.pc = "done" /\ v.seen = s /\ v.twice = t
          /\ v.stayed = walk.stayed
      BY <1>0, <1>14, <1>15, <2>1 DEF Walks
    <2>3. walk.stayed \subseteq s \ t
      BY <1>6, <1>9, <1>10, <1>11, <1>16
    <2>4. WalkGood(v, table, list)
      BY <1>15, <2>2, <2>3 DEF WalkGood
    <2> QED BY <1>0, <1>13, <1>14, <2>2, <2>4 DEF WalkInv, P!Present
  <1>17. CASE ~(Cardinality(Q) < n)
    <2>1. Q # {}
      <3>1. Cardinality({}) = 0
        BY FS_EmptySet
      <3> QED BY <1>17, <3>1
    <2>2. PICK i : i = P!LastOf(Q, d)
      OBVIOUS
    <2>3. i \in Q /\ \A j \in Q \ {i} : Above(j, i, d)
      BY <1>6, <2>1, <2>2 DEF P!LastOf, Above
    <2>4. nx = [key |-> table[i], id |-> i, desc |-> d]
      BY <1>3, <1>17, <2>2, SameCardinality DEF P!NextCursor
    <2>5. i \in P!Present /\ i \in F
      BY <1>4, <1>5, <2>3
    <2>6. nx \in P!Cursors /\ nx.desc = d /\ nx.key = table[i] /\ nx.id = i
      BY <2>4, <2>5, PositionOfRow DEF P!Cursors
    <2>7. nx # NoCursor /\ p = "open"
      BY <1>7, <1>12, <2>6
    <2>8. /\ v \in Walks /\ v.pc = "open" /\ v.cursor = nx /\ v.seen = s /\ v.twice = t
          /\ v.stayed = walk.stayed
      BY <1>0, <1>14, <1>15, <2>6, <2>7 DEF Walks
    <2>9. \A j \in P!Present : Ahead(nx, table, j) <=> Above(i, j, d)
      BY <2>6 DEF Ahead, Above, P!Precedes, P!Before, P!Position
    <2>10. ~Above(i, i, d)
      BY <2>5, PositionOfRow, PositionsOrdered DEF Above
    <2>11. \A j \in Q \ {i} : ~Above(i, j, d)
      <3> SUFFICES ASSUME NEW j \in Q \ {i}, Above(i, j, d) PROVE FALSE
        OBVIOUS
      <3>1. Above(j, i, d) /\ j \in P!Present
        BY <2>3, <1>4, <1>5
      <3>2. Above(i, i, d)
        BY <3>1, <2>5, PositionOfRow, PositionsOrdered DEF Above
      <3> QED BY <3>2, <2>10
    <2>12. \A j \in P!Present \ F : ~Above(i, j, d)
      <3> SUFFICES ASSUME NEW j \in P!Present, j \notin F, Above(i, j, d) PROVE FALSE
        OBVIOUS
      <3>1. c # NoCursor /\ c \in P!Cursors
        BY <1>4, <1>7
      <3>2. c.key \in Nat /\ c.id \in Nat
        <4>1. c.key \in P!SortKeys /\ c.id \in RowIds
          BY <3>1 DEF P!Cursors
        <4> QED BY <4>1, PagingConstants
      <3>3. P!Precedes(c, P!Position(i), d)
        BY <1>4, <2>5, <3>1
      <3>4. P!Precedes(c, P!Position(j), d)
        BY <3>2, <3>3, <2>5, PositionOfRow, PositionsOrdered DEF Above
      <3> QED BY <1>4, <3>4
    <2>13. CursorParts(v, table)
      <3> SUFFICES ASSUME NEW j \in walk.stayed
                   PROVE  IF Above(i, j, d) THEN j \notin s ELSE j \in s \ t
        BY <1>0, <2>8, <2>9 DEF CursorParts
      <3>1. CASE j \in Q
        BY <3>1, <1>5, <1>9, <1>10, <1>11, <2>10, <2>11
      <3>2. CASE j \in F \ Q
        BY <3>2, <1>6, <1>9, <1>10, <1>11, <2>3
      <3>3. CASE j \notin F
        BY <3>3, <1>0, <1>5, <1>9, <1>10, <1>11, <2>12
      <3> QED BY <3>1, <3>2, <3>3
    <2>14. WalkGood(v, table, list)
      BY <1>15, <2>6, <2>7, <2>8, <2>13 DEF WalkGood
    <2> QED BY <1>0, <1>13, <1>14, <2>8, <2>14 DEF WalkInv, P!Present
  <1> QED BY <1>16, <1>17

(* A walk that has not begun, or is given up, promises nothing. *)
LEMMA NoWalkKeeps ==
  ASSUME WalkInv, UNCHANGED <<list, table>>, walk' = P!NoWalk
  PROVE  WalkInv'
  <1>1. P!NoWalk \in Walks /\ P!NoWalk.pc = "idle" /\ P!NoWalk.stayed = {} /\ P!NoWalk.twice = {}
    BY DEF P!NoWalk, Walks
  <1> QED BY <1>1 DEF WalkInv, WalkGood, P!Present

(* Every step of the client, of the writers and of the pruning. *)
LEMMA WalkStep == WalkInv /\ [P!Next]_(P!vars) => WalkInv'
  <1> SUFFICES ASSUME WalkInv, [P!Next]_(P!vars) PROVE WalkInv'
    OBVIOUS
  <1>0. walk \in Walks /\ table \in [RowIds -> P!SortKeys \cup {Absent, Gone}]
    BY DEF WalkInv
  <1>1. CASE P!Start
    <2>1. PICK v : v = walk'
      OBVIOUS
    <2>2. /\ v \in Walks /\ v.pc = "open" /\ v.cursor = NoCursor /\ v.seen = {} /\ v.twice = {}
          /\ v.stayed = P!Present /\ UNCHANGED <<list, table>>
      BY <1>1, <2>1 DEF P!Start, P!NoWalk, Walks, P!Present
    <2>3. WalkGood(v, table, list)
      BY <2>2 DEF WalkGood
    <2> QED BY <1>0, <2>1, <2>2, <2>3 DEF WalkInv, P!Present
  <1>2. ASSUME NEW limit \in 1..MaxLimit + 1, NEW d \in BOOLEAN, walk.pc = "open",
               list # "audit_event", P!KeysetPage(d, limit)
        PROVE  WalkInv'
    <2>1. P!Clamp(limit) \in Nat \ {0}
      BY PagingConstants DEF P!Clamp
    <2>2. CASE P!SortMatches(walk.cursor, d)
      <3>1. PICK Q : Q = P!Page(walk.cursor, d, P!Clamp(limit))
        OBVIOUS
      <3>2. P!Receive(Q, P!NextCursor(Q, d, P!Clamp(limit)))
        BY <1>2, <2>2, <3>1 DEF P!KeysetPage
      <3>3. walk.cursor # NoCursor => walk.cursor.desc = d
        BY <2>2 DEF P!SortMatches
      <3> QED BY <1>2, <2>1, <3>1, <3>2, <3>3, PageTaken
    <2>3. CASE ~P!SortMatches(walk.cursor, d)
      BY <1>2, <2>3, NoWalkKeeps DEF P!KeysetPage
    <2> QED BY <2>2, <2>3
  <1>3. ASSUME NEW limit \in 1..MaxLimit + 1, P!ListAudit(limit) PROVE WalkInv'
    <2>1. P!Clamp(limit) \in Nat \ {0}
      BY PagingConstants DEF P!Clamp
    <2>2. PICK Q : Q = P!Page(walk.cursor, TRUE, P!Clamp(limit))
      OBVIOUS
    <2>3. /\ walk.pc = "open" /\ list = "audit_event"
          /\ P!Receive(Q, P!NextCursor(Q, TRUE, P!Clamp(limit)))
      BY <1>3, <2>2 DEF P!ListAudit, P!AuditPage
    <2>4. walk.cursor # NoCursor => walk.cursor.desc = TRUE
      <3>1. walk.cursor # NoCursor => walk.cursor \in P!Cursors /\ walk.cursor.desc
        BY <2>3, <1>0 DEF WalkInv, WalkGood, Walks
      <3> QED BY <3>1 DEF P!Cursors
    <2> QED BY <2>1, <2>2, <2>3, <2>4, PageTaken
  <1>4. ASSUME NEW i \in RowIds, NEW k \in P!SortKeys \cup {Absent, Gone}, P!Write(i, k),
               UNCHANGED list
        PROVE  WalkInv'
    <2>1. /\ table' \in [RowIds -> P!SortKeys \cup {Absent, Gone}]
          /\ \A j \in RowIds : j \notin {i} => table'[j] = table[j]
      BY <1>4, <1>0 DEF P!Write
    <2>2. walk' = [walk EXCEPT !.stayed = walk.stayed \ {i}]
      BY <1>4 DEF P!Write
    <2> QED BY <1>4, <2>1, <2>2, TableMoves
  <1>5. ASSUME NEW i \in RowIds, NEW k \in P!SortKeys, P!Insert(i, k) \/ P!Rename(i, k)
        PROVE  WalkInv'
    BY <1>5, <1>4 DEF P!Insert, P!Rename
  <1>6. ASSUME NEW i \in RowIds, P!Delete(i) PROVE WalkInv'
    BY <1>6, <1>4 DEF P!Delete
  <1>7. ASSUME NEW D \in SUBSET RowIds, P!PruneBatch(D) PROVE WalkInv'
    <2>1. /\ table' \in [RowIds -> P!SortKeys \cup {Absent, Gone}]
          /\ \A j \in RowIds : j \notin D => table'[j] = table[j]
      BY <1>7, <1>0 DEF P!PruneBatch
    <2>2. walk' = [walk EXCEPT !.stayed = walk.stayed \ D] /\ UNCHANGED list
      BY <1>7 DEF P!PruneBatch
    <2> QED BY <2>1, <2>2, TableMoves
  <1>8. ASSUME UNCHANGED <<list, table, walk>> PROVE WalkInv'
    BY <1>8 DEF WalkInv, P!Present
  <1>9. ASSUME NEW limit \in 1..MaxLimit + 1, NEW d \in BOOLEAN,
               P!ListServers(d, limit) \/ P!ListEntitlements(d, limit)
        PROVE  WalkInv'
    BY <1>9, <1>2 DEF P!ListServers, P!ListEntitlements
  <1>10. CASE P!PruneFails \/ \E k \in P!SortKeys : P!PruneStart(k)
    BY <1>10, <1>8 DEF P!PruneFails, P!PruneStart
  <1>11. CASE UNCHANGED P!vars
    BY <1>11, <1>8 DEF P!vars
  <1> QED BY <1>1, <1>3, <1>5, <1>6, <1>7, <1>9, <1>10, <1>11 DEF P!Next

(* A walk that came to its end returned each row that stayed exactly once,  *)
(* for any number of rows, any page limits and any writes between pages:    *)
(* keysetTail's predicate, ORDER BY and cursor fit together, ties included. *)
THEOREM WalksAreComplete == P!Spec => []WalkComplete
  <1>1. P!Init => WalkInv
    <2> SUFFICES ASSUME P!Init PROVE WalkInv
      OBVIOUS
    <2>1. P!NoWalk \in Walks /\ P!NoWalk.pc = "idle" /\ P!NoWalk.stayed = {} /\ P!NoWalk.twice = {}
      BY DEF P!NoWalk, Walks
    <2> QED BY <2>1 DEF P!Init, WalkInv, WalkGood
  <1>2. WalkInv => WalkComplete
    BY DEF WalkInv, WalkGood, WalkComplete, P!WalkComplete
  <1> QED BY <1>1, <1>2, WalkStep, PTL DEF P!Spec

-----------------------------------------------------------------------------
(* The three together *)

(* What the model checker explores, one component while the others rest, is *)
(* a behaviour of each of them: the theorems above are about its runs too.  *)
LEMMA EachIsItself == TenancySpec => Spec /\ C!Spec /\ P!Spec
  <1>1. TenancyInit => Init /\ C!Init /\ P!Init
    BY DEF TenancyInit
  <1>2. [TenancyNext]_tenancyVars => [Next]_vars /\ [C!Next]_(C!vars) /\ [P!Next]_(P!vars)
    <2>1. UNCHANGED tenancyVars => UNCHANGED vars /\ UNCHANGED C!vars /\ UNCHANGED P!vars
      BY DEF tenancyVars, catalogVars, listVars, C!vars, P!vars
    <2>2. CatalogStep => C!Next
      BY DEF CatalogStep, C!Next
    <2> QED BY <2>1, <2>2 DEF TenancyNext, catalogVars, listVars, C!vars, P!vars
  <1> QED BY <1>1, <1>2, PTL DEF TenancySpec, Spec, C!Spec, P!Spec
=============================================================================
