------------------------- MODULE Distribution_proofs -------------------------
(***************************************************************************)
(* Revision numbers and the sync answer, proved for any number of           *)
(* artifacts, editors and payloads and for every retention setting.         *)
(*                                                                          *)
(* MAX(revision_num) + 1 is fresh because the newest revision of a row that *)
(* exists is never pruned (Filed) and no number above it was ever given out *)
(* (Numbered). The answer of handleSyncArtifacts is right for an artifact   *)
(* nobody touched because each of its statements was right about it and     *)
(* nothing either of them read has moved since (Current).                   *)
(***************************************************************************)
EXTENDS Distribution, FiniteSetTheorems, TLAPS

(* Revision t of the artifact is kept and none above it is. *)
Top(a, t) ==
    /\ t \in Revisions
    /\ revision[a][t] # None
    /\ \A n \in Revisions : revision[a][n] # None => n <= t

(* A row distributes what was saved last, under its newest revision; with   *)
(* the row went its revisions.                                              *)
Filed ==
    \A a \in Artifacts :
        IF row[a] = None THEN \A n \in Revisions : revision[a][n] = None
        ELSE /\ row[a].approved = row[a].live
             /\ Top(a, Newest(a))
             /\ <<a, Newest(a), row[a].live.payload>> \in named

(* Numbers were given out in order, and only to ids that were given out. *)
Numbered ==
    \A a \in Artifacts, n \in Revisions, c \in Payloads :
        <<a, n, c>> \in named => /\ a \in used
                                 /\ row[a] # None => n <= Newest(a)

(* What each of the two statements has to say of an artifact. *)
Own(a) ==
    IF a \in entitled /\ Distributed(a) /\ ~row[a].approved.org THEN {Item(a)} ELSE {}
Rule(a) ==
    IF Distributed(a) /\ row[a].approved.org /\ row[a].approved.rule THEN {Item(a)} ELSE {}

Current ==
    \A a \in Artifacts \ sync.touched :
        /\ sync.pc # "idle" => {i \in sync.items : i.art = a} = Own(a)
        /\ sync.pc = "rules" => sync.rules = {}
        /\ sync.pc = "done" => {i \in sync.rules : i.art = a} = Rule(a)

IInv == TypeOK /\ Filed /\ Numbered /\ RevisionNamesOnePayload /\ Current

-----------------------------------------------------------------------------
(* The operators *)

(* The maximum of a set is its greatest element. *)
LEMMA MaxIs ==
  ASSUME NEW S \in SUBSET Nat, NEW t \in S, \A n \in S : n <= t
  PROVE  Max(S) = t
  <1>1. \A x \in S : (\A y \in S : x >= y) => x = t
    OBVIOUS
  <1>2. \A y \in S : t >= y
    OBVIOUS
  <1> QED BY <1>1, <1>2 DEF Max

(* Newest is MAX(revision_num) of the revisions kept. *)
LEMMA NewestIs ==
  ASSUME NEW a, NEW t, Top(a, t)
  PROVE  Newest(a) = t
  <1>1. Kept(a) \in SUBSET Nat /\ t \in Kept(a) /\ \A n \in Kept(a) : n <= t
    BY DEF Top, Kept, Revisions
  <1> QED BY <1>1, MaxIs DEF Newest

(* And so it is after a step. *)
LEMMA NewestPrimeIs ==
  ASSUME NEW a, NEW t, Top(a, t)'
  PROVE  Newest(a)' = t
  <1>1. Kept(a)' \in SUBSET Nat /\ t \in Kept(a)' /\ \A n \in Kept(a)' : n <= t
    BY DEF Top, Kept, Revisions
  <1> QED BY <1>1, MaxIs DEF Newest

(* insertRevision: the new number is kept and is the newest. *)
LEMMA PrunedKeepsTop ==
  ASSUME NEW revs \in [Revisions -> Payloads \cup {None}], NEW top \in Revisions,
         NEW c \in Payloads, \A n \in Revisions : revs[n] # None => n < top
  PROVE  LET new == Pruned([revs EXCEPT ![top] = c], top) IN
         /\ new \in [Revisions -> Payloads \cup {None}]
         /\ new[top] = c
         /\ \A n \in Revisions : new[n] # None => n <= top
  <1> DEFINE mid == [revs EXCEPT ![top] = c]
             new == Pruned(mid, top)
  <1>1. mid \in [Revisions -> Payloads \cup {None}] /\ mid[top] = c
        /\ \A n \in Revisions : n # top => mid[n] = revs[n]
    OBVIOUS
  <1> HIDE DEF mid
  <1>2. new \in [Revisions -> Payloads \cup {None}]
    BY <1>1 DEF Pruned
  <1>3. new[top] = c
    BY <1>1, DistributionAssumption DEF Pruned, Revisions
  <1>4. \A n \in Revisions : new[n] # None => mid[n] # None
    BY <1>1 DEF Pruned
  <1>5. \A n \in Revisions : mid[n] # None => n <= top
    BY <1>1 DEF Revisions
  <1> QED BY <1>2, <1>3, <1>4, <1>5 DEF mid

(* No sync under way is a state of the answer. *)
LEMMA NoSyncType ==
  NoSync \in [pc : {"idle", "rules", "done"}, items : SUBSET Items,
              rules : SUBSET Items, touched : SUBSET Artifacts]
  BY DEF NoSync

(* Touching an artifact marks it in a sync under way and changes nothing    *)
(* else of it.                                                              *)
LEMMA TouchShape ==
  ASSUME TypeOK, NEW a \in Artifacts, Touch(a)
  PROVE  /\ sync' \in [pc : {"idle", "rules", "done"}, items : SUBSET Items,
                       rules : SUBSET Items, touched : SUBSET Artifacts]
         /\ sync'.pc = sync.pc /\ sync'.items = sync.items
         /\ sync'.rules = sync.rules /\ sync'.touched = sync.touched \cup {a}
  BY DEF TypeOK, Touch

(* The newest number of an artifact that exists, and 0 otherwise. *)
LEMMA NewestBounds ==
  ASSUME TypeOK, Filed, NEW a \in Artifacts
  PROVE  /\ Newest(a) \in 0..MaxRevision
         /\ \A n \in Revisions : revision[a][n] # None => n <= Newest(a)
         /\ row[a] = None => Newest(a) = 0
  <1>1. CASE row[a] = None
    <2>1. Kept(a) = {} /\ \A n \in Revisions : revision[a][n] = None
      BY <1>1 DEF Filed, Kept
    <2> QED BY <2>1, DistributionAssumption DEF Newest
  <1>2. CASE row[a] # None
    <2>1. Top(a, Newest(a))
      BY <1>2 DEF Filed
    <2> QED BY <1>2, <2>1, DistributionAssumption DEF Top, Revisions
  <1> QED BY <1>1, <1>2

(* What an artifact's revisions, row and grant alone decide. *)
LEMMA Unaltered ==
  ASSUME NEW a, row'[a] = row[a], revision'[a] = revision[a],
         a \in entitled' <=> a \in entitled
  PROVE  /\ Newest(a)' = Newest(a)
         /\ \A t : Top(a, t)' <=> Top(a, t)
         /\ Own(a)' = Own(a) /\ Rule(a)' = Rule(a)
  <1>1. Kept(a)' = Kept(a)
    BY DEF Kept
  <1>2. Newest(a)' = Newest(a)
    BY <1>1 DEF Newest
  <1>3. Item(a)' = Item(a) /\ (Distributed(a)' <=> Distributed(a))
    BY <1>2 DEF Item, Distributed
  <1>4. Own(a)' = Own(a)
    BY <1>3 DEF Own
  <1>5. Rule(a)' = Rule(a)
    BY <1>3 DEF Rule
  <1>6. \A t : Top(a, t)' <=> Top(a, t)
    BY DEF Top
  <1> QED BY <1>2, <1>4, <1>5, <1>6

(* A step that touches one artifact says nothing new of the others. *)
LEMMA TouchedCurrent ==
  ASSUME TypeOK, Current, NEW a \in Artifacts, Touch(a),
         \A b \in Artifacts \ {a} : /\ row'[b] = row[b] /\ revision'[b] = revision[b]
                                    /\ b \in entitled' <=> b \in entitled
  PROVE  Current'
  <1> SUFFICES ASSUME NEW b \in Artifacts \ sync'.touched
               PROVE  /\ sync'.pc # "idle" => {i \in sync'.items : i.art = b} = Own(b)'
                      /\ sync'.pc = "rules" => sync'.rules = {}
                      /\ sync'.pc = "done" => {i \in sync'.rules : i.art = b} = Rule(b)'
    BY DEF Current
  <1>1. b \in Artifacts \ sync.touched /\ b # a
    BY TouchShape
  <1>2. Own(b)' = Own(b) /\ Rule(b)' = Rule(b)
    BY <1>1, Unaltered
  <1> QED BY <1>1, <1>2, TouchShape DEF Current

(* A step that writes no row, revision or number. *)
LEMMA QuietStep ==
  ASSUME IInv, UNCHANGED <<row, revision, used, named>>
  PROVE  Filed' /\ Numbered' /\ RevisionNamesOnePayload'
  <1>1. \A a : Newest(a)' = Newest(a) /\ \A t : Top(a, t)' <=> Top(a, t)
    BY DEF Newest, Kept, Top
  <1>2. Filed'
    BY <1>1 DEF IInv, Filed
  <1>3. Numbered'
    BY <1>1 DEF IInv, Numbered
  <1> QED BY <1>2, <1>3 DEF IInv, RevisionNamesOnePayload

(* What a save leaves behind: the row as saved, and a revision number above *)
(* every one ever given out.                                                *)
LEMMA SaveEffect ==
  ASSUME IInv, NEW a \in Artifacts, NEW body \in Bodies, NEW ver \in Nat \ {0},
         row[a] # None \/ a \notin used, Save(a, body, ver), NEW t, t = Newest(a) + 1
  PROVE  /\ t \in Revisions
         /\ row' \in [Artifacts -> Rows \cup {None}]
         /\ row'[a] = [live |-> body, approved |-> body, ver |-> ver] /\ row'[a] # None
         /\ revision' \in [Artifacts -> [Revisions -> Payloads \cup {None}]]
         /\ \A b \in Artifacts \ {a} : row'[b] = row[b] /\ revision'[b] = revision[b]
         /\ Top(a, t)' /\ Newest(a)' = t
         /\ named' = named \cup {<<a, t, body.payload>>}
         /\ \A n \in Revisions, c \in Payloads : <<a, n, c>> \in named => n < t
  <1>0. TypeOK /\ Filed /\ Numbered
    BY DEF IInv
  <1>1. /\ Newest(a) \in 0..MaxRevision /\ t \in Revisions
        /\ \A n \in Revisions : revision[a][n] # None => n < t
    BY <1>0, NewestBounds, DistributionAssumption DEF Save, Revisions
  <1>2. body.payload \in Payloads /\ revision[a] \in [Revisions -> Payloads \cup {None}]
    BY <1>0 DEF Bodies, TypeOK
  <1> DEFINE rec == [live |-> body, approved |-> body, ver |-> ver]
             new == WithRevision(a, body.payload)
  <1>3. rec \in Rows /\ rec # None
    BY DistributionAssumption DEF Rows
  <1>4. /\ new \in [Revisions -> Payloads \cup {None}]
        /\ new[t] = body.payload
        /\ \A n \in Revisions : new[n] # None => n <= t
    BY <1>1, <1>2, PrunedKeepsTop DEF WithRevision
  <1>5. /\ row' = [row EXCEPT ![a] = rec] /\ revision' = [revision EXCEPT ![a] = new]
        /\ named' = named \cup {<<a, t, body.payload>>}
    BY DEF Save
  <1> HIDE DEF rec, new
  <1>6. /\ row' \in [Artifacts -> Rows \cup {None}] /\ row'[a] = rec
        /\ revision' \in [Artifacts -> [Revisions -> Payloads \cup {None}]]
        /\ revision'[a] = new
        /\ \A b \in Artifacts \ {a} : row'[b] = row[b] /\ revision'[b] = revision[b]
    BY <1>0, <1>3, <1>4, <1>5 DEF TypeOK
  <1>7. Top(a, t)'
    <2>1. body.payload # None
      BY <1>2, DistributionAssumption
    <2> QED BY <1>1, <1>4, <1>6, <2>1 DEF Top
  <1>8. Newest(a)' = t
    BY <1>7, NewestPrimeIs
  <1>9. \A n \in Revisions, c \in Payloads : <<a, n, c>> \in named => n < t
    BY <1>0, <1>1 DEF Numbered, Revisions
  <1> QED BY <1>1, <1>3, <1>5, <1>6, <1>7, <1>8, <1>9 DEF rec
-----------------------------------------------------------------------------
(* The steps *)

(* The transaction of a create or an update. *)
LEMMA SaveStep ==
  ASSUME IInv, NEW a \in Artifacts, NEW body \in Bodies, NEW ver \in Nat \ {0},
         row[a] # None \/ a \notin used, Save(a, body, ver),
         used' = used \cup {a}, entitled' = entitled,
         admin' \in [Admins -> [art : Artifacts, ver : Nat \ {0}] \cup {Quiet}],
         \A d \in Admins : admin'[d] = Quiet \/ admin'[d].art \in used'
  PROVE  IInv'
  <1>9. PICK t : t = Newest(a) + 1
    OBVIOUS
  <1>0. TypeOK /\ Filed /\ Numbered /\ RevisionNamesOnePayload /\ Current
    BY DEF IInv
  <1>1. /\ t \in Revisions
        /\ row' \in [Artifacts -> Rows \cup {None}]
        /\ row'[a] = [live |-> body, approved |-> body, ver |-> ver] /\ row'[a] # None
        /\ revision' \in [Artifacts -> [Revisions -> Payloads \cup {None}]]
        /\ \A b \in Artifacts \ {a} : row'[b] = row[b] /\ revision'[b] = revision[b]
        /\ Top(a, t)' /\ Newest(a)' = t
        /\ named' = named \cup {<<a, t, body.payload>>}
        /\ \A n \in Revisions, c \in Payloads : <<a, n, c>> \in named => n < t
    BY <1>9, SaveEffect
  <1>2. body.payload \in Payloads
    BY DEF Bodies
  <1>3. TypeOK'
    <2>1. sync' \in [pc : {"idle", "rules", "done"}, items : SUBSET Items,
                     rules : SUBSET Items, touched : SUBSET Artifacts]
      BY <1>0, TouchShape DEF Save
    <2>2. named' \in SUBSET (Artifacts \X Revisions \X Payloads)
      BY <1>0, <1>1, <1>2 DEF TypeOK
    <2>3. \A b \in Artifacts : row'[b] # None => b \in used'
      BY <1>0, <1>1 DEF TypeOK
    <2>4. \A b \in entitled' : row'[b] # None
      BY <1>0, <1>1 DEF TypeOK
    <2> QED BY <1>0, <1>1, <2>1, <2>2, <2>3, <2>4 DEF TypeOK
  <1>4. ASSUME NEW b \in Artifacts \ {a}
        PROVE  /\ row'[b] = row[b] /\ revision'[b] = revision[b]
               /\ Newest(b)' = Newest(b) /\ \A n : Top(b, n)' <=> Top(b, n)
    <2>1. row'[b] = row[b] /\ revision'[b] = revision[b] /\ (b \in entitled' <=> b \in entitled)
      BY <1>1
    <2> QED BY <2>1, Unaltered
  <1>5. Filed'
    <2> SUFFICES ASSUME NEW b \in Artifacts
                 PROVE  IF row'[b] = None THEN \A n \in Revisions : revision'[b][n] = None
                        ELSE /\ row'[b].approved = row'[b].live
                             /\ Top(b, Newest(b))'
                             /\ <<b, Newest(b)', row'[b].live.payload>> \in named'
      BY DEF Filed
    <2>1. CASE b = a
      BY <1>1, <2>1
    <2>2. CASE b # a
      BY <1>0, <1>1, <1>4, <2>2 DEF Filed, Top
    <2> QED BY <2>1, <2>2
  <1>6. Numbered'
    <2> SUFFICES ASSUME NEW b \in Artifacts, NEW n \in Revisions, NEW c \in Payloads,
                        <<b, n, c>> \in named'
                 PROVE  b \in used' /\ (row'[b] # None => n <= Newest(b)')
      BY DEF Numbered
    <2>1. CASE b = a
      <3>1. n <= t
        BY <1>1, <2>1 DEF Revisions
      <3> QED BY <1>1, <2>1, <3>1
    <2>2. CASE b # a
      <3>1. <<b, n, c>> \in named
        BY <1>1, <2>2
      <3>2. b \in used /\ (row[b] # None => n <= Newest(b))
        BY <1>0, <3>1 DEF Numbered
      <3> QED BY <1>4, <2>2, <3>2
    <2> QED BY <2>1, <2>2
  <1>7. RevisionNamesOnePayload'
    <2> SUFFICES ASSUME NEW x \in named', NEW y \in named', x[1] = y[1], x[2] = y[2]
                 PROVE  x[3] = y[3]
      BY DEF RevisionNamesOnePayload
    <2>1. \A z \in named : z[1] # a \/ z[2] # t
      <3> SUFFICES ASSUME NEW z \in named, z[1] = a PROVE z[2] # t
        OBVIOUS
      <3>1. z[2] \in Revisions /\ z[3] \in Payloads /\ z = <<a, z[2], z[3]>>
        BY <1>0 DEF TypeOK
      <3>2. z[2] < t
        BY <1>1, <3>1
      <3> QED BY <3>1, <3>2, <1>1 DEF Revisions
    <2> QED BY <1>0, <1>1, <2>1 DEF RevisionNamesOnePayload
  <1>8. Current'
    BY <1>0, <1>4, TouchedCurrent DEF Save
  <1> QED BY <1>3, <1>5, <1>6, <1>7, <1>8 DEF IInv

(* handleCreateArtifact keeps the invariant. *)
LEMMA CreateStep ==
  ASSUME IInv, NEW a \in Artifacts, NEW body \in Bodies, CreateArtifact(a, body)
  PROVE  IInv'
  <1>1. /\ admin' \in [Admins -> [art : Artifacts, ver : Nat \ {0}] \cup {Quiet}]
        /\ \A d \in Admins : admin'[d] = Quiet \/ admin'[d].art \in used'
    BY DEF CreateArtifact, IInv, TypeOK
  <1> QED BY <1>1, SaveStep DEF CreateArtifact

(* handleUpdateArtifact, under its If-Match, keeps the invariant. *)
LEMMA UpdateStep ==
  ASSUME IInv, NEW d \in Admins, NEW body \in Bodies, UpdateArtifact(d, body)
  PROVE  IInv'
  <1> DEFINE a == admin[d].art
  <1>1. /\ a # None /\ row[a] # None /\ row[a].ver = admin[d].ver
        /\ Save(a, body, row[a].ver + 2)
        /\ admin' = [admin EXCEPT ![d] = Quiet] /\ UNCHANGED <<used, entitled>>
    BY DEF UpdateArtifact
  <1>2. a \in used /\ a \in Artifacts /\ admin[d].ver \in Nat
    <2>1. admin[d] # Quiet
      BY <1>1 DEF Quiet
    <2> QED BY <2>1 DEF IInv, TypeOK
  <1> HIDE DEF a
  <1>3. row[a].ver + 2 \in Nat \ {0}
    BY <1>1, <1>2
  <1>4. /\ admin' \in [Admins -> [art : Artifacts, ver : Nat \ {0}] \cup {Quiet}]
        /\ \A e \in Admins : admin'[e] = Quiet \/ admin'[e].art \in used'
    BY <1>1 DEF IInv, TypeOK
  <1>5. used' = used \cup {a}
    BY <1>1, <1>2
  <1> QED BY <1>1, <1>2, <1>3, <1>4, <1>5, SaveStep

(* A deletion takes the revisions with the row and never frees the id. *)
LEMMA DeleteStep ==
  ASSUME IInv, NEW a \in Artifacts, DeleteArtifact(a)
  PROVE  IInv'
  <1> DEFINE blank == [n \in Revisions |-> None]
  <1>0. TypeOK /\ Filed /\ Numbered /\ RevisionNamesOnePayload /\ Current
    BY DEF IInv
  <1>1. /\ row' = [row EXCEPT ![a] = None] /\ revision' = [revision EXCEPT ![a] = blank]
        /\ entitled' = entitled \ {a} /\ Touch(a) /\ UNCHANGED <<used, admin, named>>
    BY DEF DeleteArtifact
  <1>2. blank \in [Revisions -> Payloads \cup {None}] /\ \A n \in Revisions : blank[n] = None
    OBVIOUS
  <1> HIDE DEF blank
  <1>3. /\ row' \in [Artifacts -> Rows \cup {None}] /\ row'[a] = None
        /\ revision' \in [Artifacts -> [Revisions -> Payloads \cup {None}]]
        /\ \A n \in Revisions : revision'[a][n] = None
        /\ \A b \in Artifacts \ {a} : row'[b] = row[b] /\ revision'[b] = revision[b]
    BY <1>0, <1>1, <1>2 DEF TypeOK
  <1>4. ASSUME NEW b \in Artifacts \ {a}
        PROVE  /\ row'[b] = row[b] /\ revision'[b] = revision[b]
               /\ Newest(b)' = Newest(b) /\ \A n : Top(b, n)' <=> Top(b, n)
               /\ b \in entitled' <=> b \in entitled
    BY <1>1, <1>3, Unaltered
  <1>5. TypeOK'
    <2>1. sync' \in [pc : {"idle", "rules", "done"}, items : SUBSET Items,
                     rules : SUBSET Items, touched : SUBSET Artifacts]
      BY <1>0, <1>1, TouchShape
    <2>2. \A b \in Artifacts : row'[b] # None => b \in used'
      BY <1>0, <1>1, <1>3 DEF TypeOK
    <2>3. \A b \in entitled' : row'[b] # None
      BY <1>0, <1>1, <1>3 DEF TypeOK
    <2> QED BY <1>0, <1>1, <1>3, <2>1, <2>2, <2>3 DEF TypeOK
  <1>6. Filed'
    <2> SUFFICES ASSUME NEW b \in Artifacts
                 PROVE  IF row'[b] = None THEN \A n \in Revisions : revision'[b][n] = None
                        ELSE /\ row'[b].approved = row'[b].live
                             /\ Top(b, Newest(b))'
                             /\ <<b, Newest(b)', row'[b].live.payload>> \in named'
      BY DEF Filed
    <2>1. CASE b = a
      BY <1>3, <2>1
    <2>2. CASE b # a
      BY <1>0, <1>1, <1>4, <2>2 DEF Filed, Top
    <2> QED BY <2>1, <2>2
  <1>7. Numbered'
    BY <1>0, <1>1, <1>3, <1>4 DEF Numbered
  <1>8. RevisionNamesOnePayload'
    BY <1>0, <1>1 DEF RevisionNamesOnePayload
  <1>9. Current'
    BY <1>0, <1>1, <1>4, TouchedCurrent
  <1> QED BY <1>5, <1>6, <1>7, <1>8, <1>9 DEF IInv

(* A grant made or revoked touches the artifact of a sync under way. *)
LEMMA EntitlementStep ==
  ASSUME IInv, NEW a \in Artifacts,
         CreateArtifactEntitlement(a) \/ DeleteArtifactEntitlement(a)
  PROVE  IInv'
  <1>0. TypeOK /\ Current
    BY DEF IInv
  <1>1. /\ UNCHANGED <<row, revision, used, admin, named>> /\ Touch(a)
        /\ (entitled' = entitled \cup {a} /\ row[a] # None) \/ entitled' = entitled \ {a}
    BY DEF CreateArtifactEntitlement, DeleteArtifactEntitlement
  <1>2. TypeOK'
    <2>1. sync' \in [pc : {"idle", "rules", "done"}, items : SUBSET Items,
                     rules : SUBSET Items, touched : SUBSET Artifacts]
      BY <1>0, <1>1, TouchShape
    <2>2. entitled' \in SUBSET Artifacts /\ \A b \in entitled' : row'[b] # None
      BY <1>0, <1>1 DEF TypeOK
    <2> QED BY <1>0, <1>1, <2>1, <2>2 DEF TypeOK
  <1>3. Current'
    <2>1. \A b \in Artifacts \ {a} : /\ row'[b] = row[b] /\ revision'[b] = revision[b]
                                     /\ b \in entitled' <=> b \in entitled
      BY <1>1
    <2> QED BY <1>0, <1>1, <2>1, TouchedCurrent
  <1> QED BY <1>1, <1>2, <1>3, QuietStep DEF IInv

(* An editor's GET remembers a version that exists. *)
LEMMA GetStep ==
  ASSUME IInv, NEW d \in Admins, NEW a \in Artifacts, GetArtifact(d, a)
  PROVE  IInv'
  <1> DEFINE held == [art |-> a, ver |-> row[a].ver]
  <1>0. TypeOK /\ Current
    BY DEF IInv
  <1>1. /\ row[a] # None /\ admin' = [admin EXCEPT ![d] = held]
        /\ UNCHANGED <<row, revision, used, entitled, sync, named>>
    BY DEF GetArtifact
  <1>2. a \in used /\ row[a].ver \in Nat \ {0}
    BY <1>0, <1>1 DEF TypeOK, Rows
  <1>3. held \in [art : Artifacts, ver : Nat \ {0}] /\ held.art = a
    BY <1>2
  <1> HIDE DEF held
  <1>4. /\ admin' \in [Admins -> [art : Artifacts, ver : Nat \ {0}] \cup {Quiet}]
        /\ \A e \in Admins : admin'[e] = Quiet \/ admin'[e].art \in used'
    BY <1>0, <1>1, <1>2, <1>3 DEF TypeOK
  <1>5. TypeOK'
    BY <1>0, <1>1, <1>4 DEF TypeOK
  <1>6. \A b \in Artifacts : Own(b)' = Own(b) /\ Rule(b)' = Rule(b)
    BY <1>1, Unaltered
  <1>7. Current'
    BY <1>0, <1>1, <1>6 DEF Current
  <1> QED BY <1>1, <1>5, <1>7, QuietStep DEF IInv

(* A distributed artifact has an entry, and it is the artifact's. *)
LEMMA ItemType ==
  ASSUME TypeOK, Filed, NEW a \in Artifacts, Distributed(a)
  PROVE  Item(a) \in Items /\ Item(a).art = a
  <1>1. row[a] \in Rows /\ row[a].approved = row[a].live /\ Newest(a) \in Revisions
    BY DEF Distributed, TypeOK, Filed, Top
  <1>2. row[a].approved.payload \in Payloads
    BY <1>1 DEF Rows, Bodies
  <1> QED BY <1>1, <1>2 DEF Item, Items

(* The statements of handleSyncArtifacts answer for each artifact apart.    *)
LEMMA StatementsExact ==
  ASSUME TypeOK, Filed
  PROVE  /\ EntitledArtifacts \in SUBSET Items /\ ActiveOrgRules \in SUBSET Items
         /\ \A a \in Artifacts : /\ {i \in EntitledArtifacts : i.art = a} = Own(a)
                                 /\ {i \in ActiveOrgRules : i.art = a} = Rule(a)
  <1>1. \A a \in entitled : a \in Artifacts
    BY DEF TypeOK
  <1>2. EntitledArtifacts \in SUBSET Items
    BY <1>1, ItemType DEF EntitledArtifacts
  <1>3. ActiveOrgRules \in SUBSET Items
    BY ItemType DEF ActiveOrgRules
  <1>4. ASSUME NEW a \in Artifacts PROVE {i \in EntitledArtifacts : i.art = a} = Own(a)
    BY <1>1, ItemType DEF EntitledArtifacts, Own
  <1>5. ASSUME NEW a \in Artifacts PROVE {i \in ActiveOrgRules : i.art = a} = Rule(a)
    BY ItemType DEF ActiveOrgRules, Rule
  <1> QED BY <1>2, <1>3, <1>4, <1>5

(* Each statement of the answer is right about what it reads. *)
LEMMA SyncStep ==
  ASSUME IInv, ListEntitledArtifacts \/ ListActiveOrgRules \/ EndSync
  PROVE  IInv'
  <1>0. TypeOK /\ Filed /\ Current
    BY DEF IInv
  <1>1. UNCHANGED <<row, revision, used, entitled, admin, named>>
    BY DEF ListEntitledArtifacts, ListActiveOrgRules, EndSync
  <1>2. \A a \in Artifacts : Own(a)' = Own(a) /\ Rule(a)' = Rule(a)
    BY <1>1, Unaltered
  <1>3. SUFFICES /\ sync' \in [pc : {"idle", "rules", "done"}, items : SUBSET Items,
                               rules : SUBSET Items, touched : SUBSET Artifacts]
                 /\ Current'
    <2>1. ASSUME sync' \in [pc : {"idle", "rules", "done"}, items : SUBSET Items,
                            rules : SUBSET Items, touched : SUBSET Artifacts]
          PROVE  TypeOK'
      BY <1>0, <1>1, <2>1 DEF TypeOK
    <2> QED BY <1>1, <2>1, QuietStep DEF IInv
  <1>4. CASE ListEntitledArtifacts
    <2>1. sync' = [pc |-> "rules", items |-> EntitledArtifacts, rules |-> {}, touched |-> {}]
      BY <1>4 DEF ListEntitledArtifacts
    <2> QED BY <1>0, <1>2, <2>1, StatementsExact DEF Current
  <1>5. CASE ListActiveOrgRules
    <2>1. /\ sync.pc = "rules"
          /\ sync' = [sync EXCEPT !.pc = "done", !.rules = ActiveOrgRules]
      BY <1>5 DEF ListActiveOrgRules
    <2>2. /\ sync' \in [pc : {"idle", "rules", "done"}, items : SUBSET Items,
                        rules : SUBSET Items, touched : SUBSET Artifacts]
          /\ sync'.pc = "done" /\ sync'.items = sync.items
          /\ sync'.rules = ActiveOrgRules /\ sync'.touched = sync.touched
      BY <1>0, <2>1, StatementsExact DEF TypeOK
    <2> QED BY <1>0, <1>2, <2>1, <2>2, StatementsExact DEF Current
  <1>6. CASE EndSync
    BY <1>6, NoSyncType DEF EndSync, Current, NoSync
  <1> QED BY <1>4, <1>5, <1>6

-----------------------------------------------------------------------------

(* The empty tables satisfy the invariant. *)
LEMMA InvInit == Init => IInv
  <1> SUFFICES ASSUME Init PROVE IInv
    OBVIOUS
  <1>1. /\ \A a \in Artifacts : row[a] = None /\ \A n \in Revisions : revision[a][n] = None
        /\ row \in [Artifacts -> Rows \cup {None}]
        /\ revision \in [Artifacts -> [Revisions -> Payloads \cup {None}]]
        /\ admin \in [Admins -> [art : Artifacts, ver : Nat \ {0}] \cup {Quiet}]
        /\ \A d \in Admins : admin[d] = Quiet
    BY DEF Init
  <1>2. sync = NoSync /\ sync.pc = "idle" /\ used = {} /\ entitled = {} /\ named = {}
    BY DEF Init, NoSync
  <1>3. TypeOK
    BY <1>1, <1>2, NoSyncType DEF TypeOK
  <1>4. Filed /\ Numbered /\ RevisionNamesOnePayload /\ Current
    BY <1>1, <1>2 DEF Filed, Numbered, RevisionNamesOnePayload, Current
  <1> QED BY <1>3, <1>4 DEF IInv

(* Every step keeps it. *)
LEMMA InvStep == IInv /\ [Next]_vars => IInv'
  <1> SUFFICES ASSUME IInv, [Next]_vars PROVE IInv'
    OBVIOUS
  <1>1. CASE UNCHANGED vars
    <2>1. UNCHANGED <<row, revision, used, entitled, admin, sync, named>>
      BY <1>1 DEF vars
    <2>2. \A a \in Artifacts : Own(a)' = Own(a) /\ Rule(a)' = Rule(a)
      BY <2>1, Unaltered
    <2>3. TypeOK' /\ Current'
      BY <2>1, <2>2 DEF IInv, TypeOK, Current
    <2> QED BY <2>1, <2>3, QuietStep DEF IInv
  <1>2. CASE Next
    BY <1>2, CreateStep, UpdateStep, DeleteStep, EntitlementStep, GetStep, SyncStep
       DEF Next
  <1> QED BY <1>1, <1>2

(* So it holds always. *)
LEMMA Invariance == Spec => []IInv
  BY InvInit, InvStep, PTL DEF Spec

(* Rows, revisions, grants, conversations and the answer keep their types. *)
THEOREM TypeCorrect == Spec => []TypeOK
  <1>1. IInv => TypeOK
    BY DEF IInv
  <1> QED BY <1>1, Invariance, PTL

(* insertRevision never hands out a number twice for two payloads, however  *)
(* many revisions the prune keeps and whoever edits, deletes or creates.    *)
THEOREM RevisionsNameOnePayload == Spec => []RevisionNamesOnePayload
  <1>1. IInv => RevisionNamesOnePayload
    BY DEF IInv
  <1> QED BY <1>1, Invariance, PTL

(* A finished answer that is current serves the untouched once. *)
LEMMA ServedOnce == IInv => UntouchedServedOnce
  <1> SUFFICES ASSUME IInv, sync.pc = "done", NEW a \in Artifacts \ sync.touched
               PROVE  LET due == row[a] # None /\ IF row[a].live.org THEN row[a].live.rule
                                                  ELSE a \in entitled IN
                      /\ Entries(a) = IF due THEN 1 ELSE 0
                      /\ due => \E i \in sync.items \cup sync.rules :
                                   /\ i.art = a
                                   /\ i.payload = row[a].live.payload
                                   /\ <<a, i.rev, i.payload>> \in named
    BY DEF UntouchedServedOnce
  <1> DEFINE due == row[a] # None /\ IF row[a].live.org THEN row[a].live.rule
                                     ELSE a \in entitled
             own == {i \in sync.items : i.art = a}
             rules == {i \in sync.rules : i.art = a}
  <1>1. own = Own(a) /\ rules = Rule(a)
    BY DEF IInv, Current
  <1>2. /\ row[a] # None => /\ row[a].approved = row[a].live /\ row[a].live # None
                            /\ <<a, Newest(a), row[a].live.payload>> \in named
        /\ Distributed(a) <=> row[a] # None
    <2>1. row[a] # None => row[a].live \in Bodies
      BY DEF IInv, TypeOK, Rows
    <2> QED BY <2>1, DistributionAssumption DEF IInv, Filed, Distributed
  <1>3. /\ Cardinality({}) = 0 /\ Cardinality({Item(a)}) = 1
    BY FS_EmptySet, FS_Singleton
  <1>4. Entries(a) = Cardinality(Own(a)) + Cardinality(Rule(a))
    BY <1>1, Zenon DEF Entries
  <1>5. CASE ~due
    <2>1. Own(a) = {} /\ Rule(a) = {}
      BY <1>2, <1>5 DEF Own, Rule
    <2>2. Entries(a) = 0
      BY <1>3, <1>4, <2>1
    <2> QED BY <1>5, <2>2
  <1>6. CASE due
    <2>1. \/ Own(a) = {Item(a)} /\ Rule(a) = {}
          \/ Own(a) = {} /\ Rule(a) = {Item(a)}
      BY <1>2, <1>6 DEF Own, Rule
    <2>2. \/ Cardinality(Own(a)) = 1 /\ Cardinality(Rule(a)) = 0
          \/ Cardinality(Own(a)) = 0 /\ Cardinality(Rule(a)) = 1
      BY <1>3, <2>1, Zenon
    <2>3. Entries(a) = 1
      BY <1>4, <2>2
    <2>4. Item(a) \in sync.items \cup sync.rules
      BY <1>1, <2>1
    <2>5. /\ Item(a).art = a /\ Item(a).payload = row[a].live.payload
          /\ <<a, Item(a).rev, Item(a).payload>> \in named
      BY <1>2, <1>6 DEF Item
    <2> QED BY <1>6, <2>3, <2>4, <2>5
  <1> QED BY <1>5, <1>6

(* The two statements of handleSyncArtifacts, with nothing around them,     *)
(* serve an artifact nobody touched meanwhile once or not at all, as its    *)
(* row and the caller's grants say, whatever was edited besides.            *)
THEOREM SyncServesOnce == Spec => []UntouchedServedOnce
  BY ServedOnce, Invariance, PTL

=============================================================================
