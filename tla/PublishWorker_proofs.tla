------------------------- MODULE PublishWorker_proofs -------------------------
(***************************************************************************)
(* The publisher loses no change and never takes the target back in time,   *)
(* proved for any number of changes, failures, crashes and foreign pushes.  *)
(*                                                                          *)
(* QuiescentIsPublished speaks of a sleeping worker only, so the proof      *)
(* follows an unpublished change through every place that can remember it   *)
(* (Remembered), and through a publish that has read the catalog already    *)
(* (AheadOfTarget): the snapshot is never older than what was pushed last,  *)
(* which is also why a push is a step of the abstract Marketplace.          *)
(***************************************************************************)
EXTENDS PublishWorker, TLAPS

(* The states of publishOnce in which the snapshot has been read. *)
Rendered == {"open", "commit", "push"}

(* What is not on the target is remembered: by a handler, by the token, by  *)
(* the worker before its snapshot or after a failure, by a snapshot that is *)
(* current, or by the Enqueue of the next process.                          *)
Remembered ==
    \/ floor = catalog
    \/ ch \/ handlers
    \/ pc \in {"debounce", "snapshot", "backoff", "stopped"}
    \/ pc \in Rendered /\ snap = catalog
    \/ pc = "record" /\ failures > 0

(* publishOnce renders one snapshot, no older than the last one pushed. *)
AheadOfTarget ==
    /\ floor <= catalog
    /\ pc \in Rendered => floor <= snap /\ snap <= catalog
    /\ pc = "push" => clone = snap

IInv == TypeOK /\ Remembered /\ AheadOfTarget

-----------------------------------------------------------------------------

(* The types hold at the start. *)
LEMMA TypeOKInit == Init => TypeOK
  <1> SUFFICES ASSUME Init PROVE TypeOK
    OBVIOUS
  <1>1. catalog \in Versions /\ snap \in Versions /\ failures \in 0..MaxFailures
    BY PublishAssumption DEF Init, Versions
  <1>2. state \in [commit : Versions \cup {Empty}, error : BOOLEAN]
    BY DEF Init
  <1> QED BY <1>1, <1>2 DEF Init, TypeOK

(* The process starts with an Enqueue, so an unpublished catalog is         *)
(* remembered.                                                              *)
LEMMA InvInit == Init => IInv
  <1>1. Init => Remembered
    BY DEF Init, Remembered
  <1>2. Init => AheadOfTarget
    BY DEF Init, AheadOfTarget, Rendered
  <1> QED BY <1>1, <1>2, TypeOKInit DEF IInv

(* Failed leaves a count that is within its cap and not zero. *)
LEMMA FailedCounts ==
  ASSUME failures \in 0..MaxFailures, Failed
  PROVE  failures' \in 0..MaxFailures /\ failures' > 0
  BY PublishAssumption DEF Failed

(* A push that landed published the snapshot. *)
LEMMA LandedSnapshot ==
  ASSUME IInv, pc = "push", Landed
  PROVE  /\ remote' = snap /\ floor' = snap
         /\ floor <= snap /\ snap <= catalog /\ snap \in Versions
         /\ UNCHANGED <<clone, based>>
  BY DEF IInv, TypeOK, AheadOfTarget, Rendered, Landed

USE DEF Versions, Publishing

(* Every step keeps the types. *)
LEMMA TypeOKStep == TypeOK /\ [Next]_vars => TypeOK'
  <1> SUFFICES ASSUME TypeOK, [Next]_vars PROVE TypeOK'
    OBVIOUS
  <1> USE PublishAssumption
  <1>1. CASE CommitChange
    BY <1>1 DEF CommitChange, gitVars, TypeOK
  <1>2. CASE Enqueue
    BY <1>2 DEF Enqueue, gitVars, TypeOK
  <1>3. CASE RequestPublish
    BY <1>3 DEF RequestPublish, gitVars, TypeOK
  <1>4. CASE TakeToken
    BY <1>4 DEF TakeToken, gitVars, TypeOK
  <1>5. CASE DebounceElapses
    BY <1>5 DEF DebounceElapses, Step, gitVars, TypeOK
  <1>6. CASE BackoffElapses
    BY <1>6 DEF BackoffElapses, Step, gitVars, TypeOK
  <1>7. CASE WorkerExits
    BY <1>7 DEF WorkerExits, gitVars, TypeOK
  <1>8. CASE Snapshot
    BY <1>8 DEF Snapshot, Step, gitVars, TypeOK
  <1>9. CASE Clone
    BY <1>9 DEF Clone, Step, TypeOK
  <1>10. CASE SyncToRemoteTip
    BY <1>10 DEF SyncToRemoteTip, Step, TypeOK
  <1>11. CASE Commit
    BY <1>11 DEF Commit, Step, TypeOK
  <1>12. CASE Push
    BY <1>12 DEF Push, Landed, Step, TypeOK
  <1>13. CASE PublishFails
    BY <1>13, FailedCounts DEF PublishFails, gitVars, TypeOK
  <1>22. CASE CreateRemoteFails
    BY <1>22, FailedCounts DEF CreateRemoteFails, Step, TypeOK
  <1>14. CASE PushAnswerLost
    BY <1>14, FailedCounts DEF PushAnswerLost, Landed, Step, TypeOK
  <1>15. CASE RecordResult
    <2>1. state' \in [commit : Versions \cup {Empty}, error : BOOLEAN]
      BY <1>15 DEF RecordResult, TypeOK
    <2>2. pc' \in {"wait", "backoff"}
      BY <1>15 DEF RecordResult, AfterRecord, Step
    <2> QED BY <1>15, <2>1, <2>2 DEF RecordResult, gitVars, TypeOK
  <1>16. CASE RecordLost
    <2>1. pc' \in {"wait", "backoff"}
      BY <1>16 DEF RecordLost, AfterRecord, Step
    <2> QED BY <1>16, <2>1 DEF RecordLost, gitVars, TypeOK
  <1>17. CASE StopWorker
    BY <1>17 DEF StopWorker, gitVars, TypeOK
  <1>18. ASSUME FreshProcess, based' \in BOOLEAN,
                clone' \in Versions \cup {Absent, Empty, Foreign, NoOrigin}
         PROVE  TypeOK'
    <2>1. failures' \in 0..MaxFailures /\ snap' \in Versions
      BY <1>18 DEF FreshProcess
    <2>3. handlers' \in BOOLEAN /\ ch' \in BOOLEAN /\ cancelled' \in BOOLEAN
      BY <1>18, Zenon DEF FreshProcess
    <2>2. UNCHANGED <<catalog, remote, state, floor>> /\ pc' = "wait"
      BY <1>18 DEF FreshProcess
    <2> QED BY <1>18, <2>1, <2>2, <2>3 DEF TypeOK
  <1>19. CASE Restart \/ Crash
    <2>1. FreshProcess
      BY <1>19 DEF Restart, Crash
    <2>2. clone' \in Versions \cup {Absent, Empty, Foreign, NoOrigin}
      BY <1>19 DEF Restart, Crash, TypeOK
    <2>3. based' \in BOOLEAN
      BY <1>19 DEF Restart, Crash, TypeOK
    <2> QED BY <1>18, <2>1, <2>2, <2>3
  <1>20. CASE ForeignPush
    BY <1>20 DEF ForeignPush, processVars, TypeOK
  <1>21. CASE UNCHANGED vars
    BY <1>21 DEF vars, TypeOK
  <1> QED BY <1>1, <1>2, <1>3, <1>4, <1>5, <1>6, <1>7, <1>8, <1>9, <1>10,
             <1>11, <1>12, <1>13, <1>14, <1>15, <1>16, <1>17, <1>19,
             <1>20, <1>21, <1>22 DEF Next

(* Every step keeps what is unpublished remembered. *)
LEMMA InvStep == IInv /\ [Next]_vars => IInv'
  <1> SUFFICES ASSUME IInv, [Next]_vars PROVE Remembered' /\ AheadOfTarget'
    BY TypeOKStep DEF IInv
  <1> USE PublishAssumption DEF Remembered, AheadOfTarget, Rendered
  <1>0. TypeOK /\ Remembered /\ AheadOfTarget
    BY DEF IInv
  <1>1. CASE CommitChange
    BY <1>0, <1>1 DEF CommitChange, gitVars, TypeOK
  <1>2. CASE Enqueue
    BY <1>0, <1>2 DEF Enqueue, gitVars
  <1>3. CASE RequestPublish
    BY <1>0, <1>3 DEF RequestPublish, gitVars
  <1>4. CASE TakeToken
    BY <1>0, <1>4 DEF TakeToken, gitVars
  <1>5. CASE DebounceElapses
    BY <1>0, <1>5 DEF DebounceElapses, Step, gitVars
  <1>6. CASE BackoffElapses
    BY <1>0, <1>6 DEF BackoffElapses, Step, gitVars
  <1>7. CASE WorkerExits
    BY <1>0, <1>7 DEF WorkerExits, gitVars
  <1>8. CASE Snapshot
    BY <1>0, <1>8 DEF Snapshot, Step, gitVars, TypeOK
  <1>9. CASE Clone
    BY <1>0, <1>9 DEF Clone, Step
  <1>10. CASE SyncToRemoteTip
    BY <1>0, <1>10 DEF SyncToRemoteTip, Step
  <1>11. CASE Commit
    BY <1>0, <1>11 DEF Commit, Step
  (* The one step where the change may leave its last memory: what landed   *)
  (* is the snapshot, and a snapshot behind the catalog has a token or a    *)
  (* handler behind it.                                                     *)
  <1>12. CASE Push
    <2>1. /\ floor' = snap /\ floor <= snap /\ snap <= catalog
          /\ UNCHANGED <<catalog, ch, handlers, clone, snap>> /\ pc = "push" /\ pc' = "record"
      BY <1>12, LandedSnapshot DEF Push, Step
    <2> QED BY <1>0, <2>1 DEF TypeOK
  <1>13. CASE PublishFails
    <2>1. failures' > 0
      BY <1>0, <1>13, FailedCounts DEF PublishFails, TypeOK
    <2> QED BY <1>0, <1>13, <2>1 DEF PublishFails, gitVars
  <1>22. CASE CreateRemoteFails
    <2>1. failures' > 0
      BY <1>0, <1>22, FailedCounts DEF CreateRemoteFails, TypeOK
    <2> QED BY <1>0, <1>22, <2>1 DEF CreateRemoteFails, Step
  <1>14. CASE PushAnswerLost
    <2>1. failures' > 0
      BY <1>0, <1>14, FailedCounts DEF PushAnswerLost, TypeOK
    <2>2. /\ floor' = snap /\ floor <= snap /\ snap <= catalog
          /\ UNCHANGED catalog /\ pc' = "record"
      BY <1>14, LandedSnapshot DEF PushAnswerLost, Step
    <2> QED BY <2>1, <2>2
  <1>15. CASE RecordResult
    BY <1>0, <1>15 DEF RecordResult, AfterRecord, Step, gitVars
  <1>16. CASE RecordLost
    BY <1>0, <1>16 DEF RecordLost, AfterRecord, Step, gitVars
  <1>17. CASE StopWorker
    BY <1>0, <1>17 DEF StopWorker, gitVars
  <1>18. CASE Restart
    BY <1>0, <1>18 DEF Restart, FreshProcess
  <1>19. CASE Crash
    BY <1>0, <1>19 DEF Crash, FreshProcess
  <1>20. CASE ForeignPush
    BY <1>0, <1>20 DEF ForeignPush, processVars
  <1>21. CASE UNCHANGED vars
    BY <1>0, <1>21 DEF vars
  <1> QED BY <1>1, <1>2, <1>3, <1>4, <1>5, <1>6, <1>7, <1>8, <1>9, <1>10,
             <1>11, <1>12, <1>13, <1>14, <1>15, <1>16, <1>17, <1>18, <1>19,
             <1>20, <1>21, <1>22 DEF Next

(* Worker, clone, target and publish_state stay within their types. *)
THEOREM TypeCorrect == Spec => []TypeOK
  BY TypeOKInit, TypeOKStep, PTL DEF Spec

(* So it holds always. *)
LEMMA Invariance == Spec => []IInv
  BY InvInit, InvStep, PTL DEF Spec

(* However changes, requests, failures, lost answers, crashes and restarts  *)
(* interleave with Worker.Start, a worker asleep with nothing queued has    *)
(* put the catalog's current version on the target.                         *)
THEOREM NothingUnpublished == Spec => []QuiescentIsPublished
  <1>1. IInv => QuiescentIsPublished
    BY DEF IInv, Remembered, Rendered, QuiescentIsPublished
  <1> QED BY <1>1, Invariance, PTL

-----------------------------------------------------------------------------
(* The refinement *)

(* The publisher starts where the abstract marketplace does. *)
LEMMA RefinementInit == Init => M!AInit
  BY DEF Init, M!AInit

(* A commit is an edit, a push that lands is a publish whether or not its   *)
(* answer arrives, and every other step is invisible to the marketplace.    *)
LEMMA RefinementStep ==
  ASSUME IInv, [Next]_vars
  PROVE  [M!ANext]_(M!abstractVars)
  <1> USE DEF M!ANext, M!abstractVars
  <1>1. CASE CommitChange
    BY <1>1 DEF CommitChange, gitVars, M!AEdit
  <1>2. CASE Push \/ PushAnswerLost
    <2>1. /\ remote' = snap /\ floor' = snap /\ UNCHANGED catalog
          /\ floor <= snap /\ snap <= catalog /\ snap \in Versions
      BY <1>2, LandedSnapshot DEF Push, PushAnswerLost, Step
    <2>2. snap \in floor..catalog /\ snap >= 0
      BY <2>1, PublishAssumption DEF IInv, TypeOK
    <2>3. M!APublish
      BY <2>1, <2>2 DEF M!APublish
    <2> QED BY <2>3
  <1>3. CASE ForeignPush
    BY <1>3 DEF ForeignPush, M!AForeignPush
  <1>4. CASE UNCHANGED <<catalog, remote, floor>>
    BY <1>4
  <1>5. ASSUME Enqueue \/ RequestPublish \/ TakeToken \/ DebounceElapses
                 \/ BackoffElapses \/ WorkerExits \/ Snapshot
        PROVE  UNCHANGED <<catalog, remote, floor>>
    BY <1>5 DEF Enqueue, RequestPublish, TakeToken, DebounceElapses,
                BackoffElapses, WorkerExits, Snapshot, gitVars
  <1>6. ASSUME Clone \/ SyncToRemoteTip \/ Commit \/ PublishFails
                 \/ CreateRemoteFails \/ RecordResult \/ RecordLost
        PROVE  UNCHANGED <<catalog, remote, floor>>
    BY <1>6 DEF Clone, SyncToRemoteTip, Commit, PublishFails, CreateRemoteFails,
                RecordResult, RecordLost, gitVars
  <1>7. ASSUME StopWorker \/ Restart \/ Crash \/ UNCHANGED vars
        PROVE  UNCHANGED <<catalog, remote, floor>>
    BY <1>7 DEF StopWorker, Restart, Crash, FreshProcess, gitVars, vars
  <1> QED BY <1>1, <1>2, <1>3, <1>4, <1>5, <1>6, <1>7 DEF Next

(* The worker, its clone and its retries implement the abstract             *)
(* marketplace: the target moves only forward through the catalog's         *)
(* versions, whatever else happens to it.                                   *)
THEOREM Refinement == Spec => MarketplaceSpec
  <1>1. IInv /\ [Next]_vars => [M!ANext]_(M!abstractVars)
    BY RefinementStep
  <1> QED BY <1>1, RefinementInit, Invariance, PTL DEF Spec, MarketplaceSpec, M!ASpec

=============================================================================
