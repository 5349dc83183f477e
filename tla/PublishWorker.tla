--------------------------- MODULE PublishWorker ---------------------------
(***************************************************************************)
(* The marketplace publisher (internal/publish/publish.go) and the process  *)
(* around it (cmd/api/main.go): API handlers that commit a change and then  *)
(* Enqueue, a worker that debounces, publishes and retries, and a git       *)
(* target reached through a local clone. The channel of capacity one, the   *)
(* clone and the target are all that remembers an unpublished change.       *)
(*                                                                          *)
(* Artifact contents are abstracted to the version of the catalog, one more *)
(* with each committed change. The target is a remote with one branch.      *)
(***************************************************************************)
EXTENDS Integers

CONSTANTS
    MaxVersion,   \* bound on the number of catalog changes
    MaxFailures,  \* failures saturates here: nextRetryDelay is at its cap
    Empty,        \* remote: no branch; clone: a repository with no commit
    Foreign,      \* a commit somebody else pushed
    Absent,       \* no clone in the work-dir
    NoOrigin      \* clone: a repository whose remote was never written

ASSUME PublishAssumption ==
    /\ MaxVersion \in Nat /\ MaxFailures \in Nat \ {0}
    /\ {Empty, Foreign, Absent, NoOrigin} \cap Int = {}
    /\ NoOrigin \notin {Empty, Foreign, Absent}

VARIABLES
    catalog,    \* version in the database
    handlers,   \* a handler has committed and not yet called Enqueue
    ch,         \* the token in Worker.ch
    cancelled,  \* workerCtx has been cancelled
    pc,         \* where Worker.Start is
    failures,   \* Start's local variable
    snap,       \* the version publishOnce rendered
    clone,      \* what HEAD of the work-dir clone holds
    based,      \* HEAD of the clone descends from the remote's tip
    remote,     \* what the tip of the remote branch holds
    state,      \* publish_state: last_commit and whether last_error is set
    floor       \* history: the last version this system put on the remote

vars == <<catalog, handlers, ch, cancelled, pc, failures, snap, clone, based,
          remote, state, floor>>

gitVars == <<clone, based, remote, floor>>
processVars == <<handlers, ch, cancelled, pc, failures, snap>>

Versions == 0..MaxVersion
Publishing == {"snapshot", "open", "commit", "push"}

TypeOK ==
    /\ catalog \in Versions
    /\ handlers \in BOOLEAN /\ ch \in BOOLEAN /\ cancelled \in BOOLEAN
    /\ pc \in {"wait", "debounce", "backoff", "record", "stopped"} \cup Publishing
    /\ failures \in 0..MaxFailures
    /\ snap \in Versions
    /\ clone \in Versions \cup {Absent, Empty, Foreign, NoOrigin}
    /\ based \in BOOLEAN
    /\ remote \in Versions \cup {Empty, Foreign}
    /\ state \in [commit : Versions \cup {Empty}, error : BOOLEAN]
    /\ floor \in Versions \cup {-1}

(* main: start the worker, then Enqueue once. *)
Init ==
    /\ catalog = 0
    /\ handlers = FALSE /\ ch = TRUE /\ cancelled = FALSE
    /\ pc = "wait" /\ failures = 0 /\ snap = 0
    /\ clone = Absent /\ based = FALSE
    /\ remote \in {Empty, Foreign}
    /\ state = [commit |-> Empty, error |-> FALSE]
    /\ floor = -1

-----------------------------------------------------------------------------
(* API handlers *)

(* auditedTx commits a create, update or delete of an artifact. *)
CommitChange ==
    /\ ~cancelled /\ pc # "stopped"
    /\ catalog < MaxVersion
    /\ catalog' = catalog + 1
    /\ handlers' = TRUE
    /\ UNCHANGED <<ch, cancelled, pc, failures, snap, state, gitVars>>

(* Mutant: the token is dropped when the worker is busy. *)
Enqueue_DropsWhenBusy ==
    /\ handlers
    /\ handlers' = FALSE
    /\ ch' = (ch \/ pc = "wait")
    /\ UNCHANGED <<catalog, cancelled, pc, failures, snap, state, gitVars>>

(* Worker.Enqueue: never blocks, and a token already there stands for all.  *)
Enqueue ==
    /\ handlers
    /\ handlers' = FALSE
    /\ ch' = TRUE
    /\ UNCHANGED <<catalog, cancelled, pc, failures, snap, state, gitVars>>

(* handleMarketplacePublish enqueues with no change behind it. *)
RequestPublish ==
    /\ ~cancelled /\ pc # "stopped"
    /\ ch' = TRUE
    /\ UNCHANGED <<catalog, handlers, cancelled, pc, failures, snap, state, gitVars>>

-----------------------------------------------------------------------------
(* Worker.Start *)

Step(from, to) == pc = from /\ pc' = to

(* Start with no failure outstanding, or waitBeforeRetry: take the token.   *)
TakeToken ==
    /\ ch /\ pc \in {"wait", "backoff"}
    /\ ch' = FALSE
    /\ pc' = "debounce"
    /\ UNCHANGED <<catalog, handlers, cancelled, failures, snap, state, gitVars>>

DebounceElapses ==
    /\ Step("debounce", "snapshot")
    /\ UNCHANGED <<catalog, handlers, ch, cancelled, failures, snap, state, gitVars>>

(* Mutant: nothing but an Enqueue ends a backoff. *)
BackoffElapses_Never ==
    /\ FALSE
    /\ UNCHANGED vars

BackoffElapses ==
    /\ Step("backoff", "snapshot")
    /\ UNCHANGED <<catalog, handlers, ch, cancelled, failures, snap, state, gitVars>>

(* ctx.Done() in any of the waits: Start returns. *)
WorkerExits ==
    /\ cancelled
    /\ pc \in {"wait", "debounce", "backoff"}
    /\ pc' = "stopped"
    /\ UNCHANGED <<catalog, handlers, ch, cancelled, failures, snap, state, gitVars>>

-----------------------------------------------------------------------------
(* Publisher.publishOnce *)

(* Mutant: the snapshot also sees a change that has not been committed. *)
Snapshot_Uncommitted ==
    /\ Step("snapshot", "open")
    /\ snap' = IF catalog < MaxVersion THEN catalog + 1 ELSE catalog
    /\ UNCHANGED <<catalog, handlers, ch, cancelled, failures, state, gitVars>>

Snapshot ==
    /\ Step("snapshot", "open")
    /\ snap' = catalog
    /\ UNCHANGED <<catalog, handlers, ch, cancelled, failures, state, gitVars>>

(* openTarget with no work-dir: a clone, or an empty repository when the    *)
(* remote is empty.                                                         *)
Clone ==
    /\ clone = Absent
    /\ Step("open", "commit")
    /\ clone' = remote
    /\ based' = TRUE
    /\ UNCHANGED <<catalog, handlers, ch, cancelled, failures, snap, state,
                   remote, floor>>

(* syncToRemoteTip: fetch, then a hard reset unless HEAD has no commit or   *)
(* the remote has no branch. A repository without an origin opens and can   *)
(* never fetch: there only PublishFails is left.                            *)
SyncToRemoteTip ==
    /\ clone \notin {Absent, NoOrigin}
    /\ Step("open", "commit")
    /\ IF clone = Empty \/ remote = Empty
         THEN UNCHANGED <<clone, based>>
         ELSE clone' = remote /\ based' = TRUE
    /\ UNCHANGED <<catalog, handlers, ch, cancelled, failures, snap, state,
                   remote, floor>>

(* Clear, render, add; a commit when the tree is not clean. *)
Commit ==
    /\ Step("commit", "push")
    /\ clone' = snap
    /\ UNCHANGED <<catalog, handlers, ch, cancelled, failures, snap, state,
                   based, remote, floor>>

Landed ==
    /\ based
    /\ remote' = clone
    /\ floor' = clone
    /\ UNCHANGED <<clone, based>>

(* The remote accepts a fast-forward, or is up to date already. *)
Push ==
    /\ Step("push", "record")
    /\ Landed
    /\ failures' = 0
    /\ UNCHANGED <<catalog, handlers, ch, cancelled, snap, state>>

Failed == failures' = IF failures < MaxFailures THEN failures + 1 ELSE failures

(* Any step fails, on its own, by Config.Timeout or by a cancelled context. *)
(* A push of a clone that is not based on the remote's tip always does.     *)
PublishFails ==
    /\ pc \in Publishing
    /\ pc' = "record"
    /\ Failed
    /\ UNCHANGED <<catalog, handlers, ch, cancelled, snap, state, gitVars>>

(* The remote is empty, PlainInit made the work-dir a repository and        *)
(* CreateRemote fails: what it leaves is opened by every later attempt.     *)
CreateRemoteFails ==
    /\ Step("open", "record")
    /\ clone = Absent /\ remote = Empty
    /\ clone' = NoOrigin /\ based' = FALSE
    /\ Failed
    /\ UNCHANGED <<catalog, handlers, ch, cancelled, snap, state, remote, floor>>

(* The remote took the push and the answer was lost. *)
PushAnswerLost ==
    /\ Step("push", "record")
    /\ Landed
    /\ Failed
    /\ UNCHANGED <<catalog, handlers, ch, cancelled, snap, state>>

AfterRecord == IF failures = 0 THEN "wait" ELSE "backoff"

(* RecordResult: a failure leaves last_commit alone. *)
RecordResult ==
    /\ Step("record", AfterRecord)
    /\ ~cancelled
    /\ state' = IF failures = 0 THEN [commit |-> snap, error |-> FALSE]
                               ELSE [state EXCEPT !.error = TRUE]
    /\ UNCHANGED <<catalog, handlers, ch, cancelled, failures, snap, gitVars>>

(* The database refuses, or the context is cancelled: logged and forgotten. *)
RecordLost ==
    /\ Step("record", AfterRecord)
    /\ UNCHANGED <<catalog, handlers, ch, cancelled, failures, snap, state, gitVars>>

-----------------------------------------------------------------------------
(* The process and the rest of the world *)

(* stopWorker after SIGTERM: cancelWorker(), then wait for Start to return. *)
StopWorker ==
    /\ ~cancelled /\ pc # "stopped"
    /\ cancelled' = TRUE
    /\ UNCHANGED <<catalog, handlers, ch, pc, failures, snap, state, gitVars>>

FreshProcess ==
    /\ handlers' = FALSE /\ ch' = TRUE /\ cancelled' = FALSE
    /\ pc' = "wait" /\ failures' = 0 /\ snap' = 0
    /\ UNCHANGED <<catalog, remote, state, floor>>

(* The supervisor starts the process again; the work-dir under TempDir may  *)
(* or may not have survived.                                                *)
Restart ==
    /\ pc = "stopped"
    /\ FreshProcess
    /\ \/ UNCHANGED <<clone, based>>
       \/ clone' = Absent /\ based' = FALSE

(* The process dies at any point and is started again. A clone it was in    *)
(* the middle of is left without a commit, or, if it died between PlainInit *)
(* and the origin being written (inside PlainClone too), without an origin. *)
Crash ==
    /\ FreshProcess
    /\ \/ UNCHANGED <<clone, based>>
       \/ clone' = Absent /\ based' = FALSE
       \/ /\ pc = "open" /\ clone = Absent
          /\ clone' \in {Empty, NoOrigin}
          /\ based' = (clone' = Empty /\ remote = Empty)

(* Somebody else pushes to the target. *)
ForeignPush ==
    /\ remote' = Foreign
    /\ based' = FALSE
    /\ UNCHANGED <<catalog, clone, state, floor, processVars>>

-----------------------------------------------------------------------------

Next ==
    \/ CommitChange \/ Enqueue \/ RequestPublish
    \/ TakeToken \/ DebounceElapses \/ BackoffElapses \/ WorkerExits
    \/ Snapshot \/ Clone \/ SyncToRemoteTip \/ Commit
    \/ Push \/ PublishFails \/ CreateRemoteFails \/ PushAnswerLost
    \/ RecordResult \/ RecordLost
    \/ StopWorker \/ Restart \/ Crash \/ ForeignPush

Spec == Init /\ [][Next]_vars

PublishStep == Snapshot \/ Clone \/ SyncToRemoteTip \/ Commit \/ Push
               \/ PublishFails \/ CreateRemoteFails \/ PushAnswerLost

Recorded == RecordResult \/ RecordLost

(* The goroutine is scheduled, timers fire, a handler that committed goes   *)
(* on to Enqueue, and every step of a publish ends, by Config.Timeout if    *)
(* not before. A step that is tried again and again succeeds in the end:    *)
(* without that no retry can help.                                          *)
Fairness ==
    /\ WF_vars(Enqueue) /\ WF_vars(TakeToken) /\ WF_vars(DebounceElapses)
    /\ WF_vars(BackoffElapses) /\ WF_vars(Recorded) /\ WF_vars(Restart)
    /\ WF_vars(WorkerExits) /\ WF_vars(PublishStep)
    /\ SF_vars(Snapshot) /\ SF_vars(Clone) /\ SF_vars(SyncToRemoteTip)
    /\ SF_vars(Commit) /\ SF_vars(Push)

FairSpec == Spec /\ Fairness

-----------------------------------------------------------------------------
(* Properties *)

(* A worker that sleeps with no token, no retry outstanding and no handler  *)
(* about to enqueue has put the catalog's current version on the target:    *)
(* coalescing, debouncing, retrying and restarting lose no change. (What    *)
(* somebody else pushed over it since, it cannot know.)                     *)
QuiescentIsPublished ==
    (pc = "wait" /\ ~ch /\ ~handlers) => floor = catalog

(* The publisher refines the abstract marketplace: readers of the target    *)
(* never see it go back to an older version of the catalog.                 *)
M == INSTANCE Marketplace WITH target <- remote
MarketplaceSpec == M!ASpec

(* Once other writers leave the target alone and the process stays up, the  *)
(* catalog's last version reaches the target, after however many failures,  *)
(* and nothing the publisher does takes it off again. (A foreign commit     *)
(* pushed over it later stays until the next change: nothing watches.) The  *)
(* one state it never leaves by itself is a work-dir without an origin,     *)
(* which openTarget accepts and syncToRemoteTip fails on every time: only   *)
(* somebody who deletes the directory gets the publisher out of it.         *)
Disturbance == ForeignPush \/ StopWorker \/ Crash
Converges ==
    []<><<Disturbance>>_vars
        \/ <>[](floor = catalog /\ remote \in {catalog, Foreign})
        \/ <>[](clone = NoOrigin)

=============================================================================
