--------------------------- MODULE SyncReconcile ---------------------------
(***************************************************************************)
(* orbeat-sync's file reconciler (internal/syncclient/reconcile.go) under   *)
(* the run lock of syncOnce (cmd/orbeat-sync/main.go): skills and subagents *)
(* written beneath ~/.claude, and the ledger that says which of the files   *)
(* there orbeat owns. The files change one by one and the ledger is saved   *)
(* once, at the end, so a crash or a failed save leaves the two apart; the  *)
(* developer edits the same directory, during a run too.                    *)
(*                                                                          *)
(* A path stands for the one artifact that renders to it. Contents are      *)
(* opaque; the developer writes Mine, or by chance what orbeat would, or    *)
(* makes the path a link that does not resolve beneath the root. The ledger *)
(* is a file anybody can edit, so an entry may also lead out of the root.   *)
(***************************************************************************)
EXTENDS FiniteSets

CONSTANTS
    Paths,          \* paths a file-backed artifact renders to
    Contents,       \* artifact contents the server may serve
    Mine,           \* a content of the developer's own
    Link,           \* the developer's too: a symbolic link that stat fails on
    Outside,        \* a ledger entry that escapes the sync root
    Runs,           \* orbeat-sync processes
    None            \* no file, no artifact, no process

ASSUME SyncAssumption ==
    /\ IsFiniteSet(Paths)
    /\ Mine \notin Contents /\ Link \notin Contents \cup {Mine}
    /\ None \notin Contents \cup {Mine, Link}
    /\ Outside \notin Paths
    /\ None \notin Runs /\ None \notin Paths /\ None \notin {"orbeat", "user"}

VARIABLES
    disk,      \* the content of the file at each path
    author,    \* history: who wrote it
    ledger,    \* manifest.Files on disk
    lock,      \* the process holding the run lock
    run,       \* each process's variables
    unsaved,   \* history: orbeat's files a run wrote and no ledger names
    touched    \* history: paths the developer changed since the run looked

vars == <<disk, author, ledger, lock, run, unsaved, touched>>

Entries == Paths \cup {Outside}
Files == Contents \cup {Mine, Link, None}

Served == [Paths -> Contents \cup {None}]

NotRunning == [pc |-> "idle", want |-> [p \in Paths |-> None], old |-> {},
               todo |-> {}, cur |-> None, managed |-> {}, clean |-> TRUE]

RunState ==
    [pc : {"idle", "fetch", "load", "write", "rename", "remove", "save", "done"},
     want : Served, old : SUBSET Entries, todo : SUBSET Entries,
     cur : Paths \cup {None}, managed : SUBSET Paths, clean : BOOLEAN]

TypeOK ==
    /\ disk \in [Paths -> Files]
    /\ author \in [Paths -> {"orbeat", "user", None}]
    /\ \A p \in Paths : (disk[p] = None) <=> (author[p] = None)
    /\ ledger \subseteq Entries /\ unsaved \subseteq Paths /\ touched \subseteq Paths
    /\ lock \in Runs \cup {None}
    /\ run \in [Runs -> RunState]

Init ==
    /\ disk = [p \in Paths |-> None] /\ author = [p \in Paths |-> None]
    /\ ledger = {} /\ unsaved = {} /\ touched = {}
    /\ lock = None
    /\ run = [r \in Runs |-> NotRunning]

-----------------------------------------------------------------------------

At(r, pc) == run[r].pc = pc

Put(p, c, who) ==
    /\ disk' = [disk EXCEPT ![p] = c]
    /\ author' = [author EXCEPT ![p] = IF c = None THEN None ELSE who]

(* Orbeat's files that the given ledger does not name. *)
Unnamed(names) == {p \in Paths : author[p] = "orbeat" /\ p \notin names}

(* syncOnce: a process that finds the lock taken gives up (ErrLocked). *)
AcquireLock(r) ==
    /\ At(r, "idle") /\ lock = None
    /\ lock' = r
    /\ run' = [run EXCEPT ![r].pc = "fetch"]
    /\ touched' = {}
    /\ UNCHANGED <<disk, author, ledger, unsaved>>

(* What the server serves may differ from one run to the next in anything.  *)
FetchArtifacts(r) ==
    /\ At(r, "fetch")
    /\ \E served \in Served :
         run' = [run EXCEPT ![r].pc = "load", ![r].want = served]
    /\ UNCHANGED <<disk, author, ledger, lock, unsaved, touched>>

Desired(r) == {p \in Paths : run[r].want[p] # None}

LoadManifest(r) ==
    /\ At(r, "load")
    /\ run' = [run EXCEPT ![r].pc = "write", ![r].old = ledger,
                          ![r].todo = Desired(r)]
    /\ UNCHANGED <<disk, author, ledger, lock, unsaved, touched>>

(* An error before the write loop ends the run: no token, no answer from    *)
(* the server, a ledger that cannot be read.                                *)
Abort(r) ==
    /\ run[r].pc \in {"fetch", "load"}
    /\ lock' = None
    /\ run' = [run EXCEPT ![r] = NotRunning]
    /\ touched' = {}
    /\ UNCHANGED <<disk, author, ledger, unsaved>>

(* The bytes already match: unchanged, or adopted if the ledger did not     *)
(* name the path.                                                           *)
Unchanged(r, p) ==
    /\ At(r, "write") /\ p \in run[r].todo
    /\ disk[p] = run[r].want[p]
    /\ run' = [run EXCEPT ![r].todo = @ \ {p}, ![r].managed = @ \cup {p}]
    /\ touched' = touched \ {p}
    /\ UNCHANGED <<disk, author, ledger, lock, unsaved>>

(* A file the ledger does not name and whose content differs is somebody's. *)
Skip(r, p) ==
    /\ At(r, "write") /\ p \in run[r].todo
    /\ disk[p] \notin {None, Link, run[r].want[p]} /\ p \notin run[r].old
    /\ run' = [run EXCEPT ![r].todo = @ \ {p}]
    /\ touched' = touched \ {p}
    /\ UNCHANGED <<disk, author, ledger, lock, unsaved>>

(* Mutant: overwrite whatever is there. *)
DecideWrite_Clobbers(r, p) ==
    /\ At(r, "write") /\ p \in run[r].todo
    /\ disk[p] # run[r].want[p]
    /\ run' = [run EXCEPT ![r].pc = "rename", ![r].cur = p]
    /\ touched' = touched \ {p}
    /\ UNCHANGED <<disk, author, ledger, lock, unsaved>>

(* Nothing that stat can see, or a managed file with other bytes:           *)
(* writeAtomic begins.                                                      *)
DecideWrite(r, p) ==
    /\ At(r, "write") /\ p \in run[r].todo
    /\ disk[p] # run[r].want[p]
    /\ disk[p] \in {None, Link} \/ p \in run[r].old
    /\ run' = [run EXCEPT ![r].pc = "rename", ![r].cur = p]
    /\ touched' = touched \ {p}
    /\ UNCHANGED <<disk, author, ledger, lock, unsaved>>

(* writeAtomic's rename replaces whatever is at the path by now. *)
Rename(r) ==
    /\ At(r, "rename")
    /\ LET p == run[r].cur IN
       /\ Put(p, run[r].want[p], "orbeat")
       /\ run' = [run EXCEPT ![r].pc = "write", ![r].cur = None,
                             ![r].todo = @ \ {p}, ![r].managed = @ \cup {p}]
    /\ touched' = touched \ {run[r].cur}
    /\ UNCHANGED <<ledger, lock, unsaved>>

(* Mutant: a failed write is not reported. *)
WriteFails_Silent(r) ==
    /\ At(r, "rename")
    /\ LET p == run[r].cur IN
       run' = [run EXCEPT ![r].pc = "write", ![r].cur = None,
                          ![r].todo = @ \ {p},
                          ![r].managed = @ \cup ({p} \cap run[r].old)]
    /\ UNCHANGED <<disk, author, ledger, lock, unsaved, touched>>

(* The write fails and the old bytes stay: a managed path stays managed.    *)
WriteFails(r) ==
    /\ At(r, "rename")
    /\ LET p == run[r].cur IN
       run' = [run EXCEPT ![r].pc = "write", ![r].cur = None,
                          ![r].todo = @ \ {p},
                          ![r].managed = @ \cup ({p} \cap run[r].old),
                          ![r].clean = FALSE]
    /\ UNCHANGED <<disk, author, ledger, lock, unsaved, touched>>

EndWrites(r) ==
    /\ At(r, "write") /\ run[r].todo = {}
    /\ run' = [run EXCEPT ![r].pc = "remove", ![r].todo = run[r].old \ Desired(r)]
    /\ UNCHANGED <<disk, author, ledger, lock, unsaved, touched>>

(* A managed path that is no longer desired; a missing file is no failure.  *)
Remove(r, p) ==
    /\ At(r, "remove") /\ p \in run[r].todo
    /\ Put(p, None, None)
    /\ run' = [run EXCEPT ![r].todo = @ \ {p}]
    /\ touched' = touched \ {p}
    /\ UNCHANGED <<ledger, lock, unsaved>>

(* Mutant: a file that could not be removed is forgotten. *)
RemoveFails_Forgets(r, p) ==
    /\ At(r, "remove") /\ p \in run[r].todo
    /\ disk[p] # None
    /\ run' = [run EXCEPT ![r].todo = @ \ {p}, ![r].clean = FALSE]
    /\ UNCHANGED <<disk, author, ledger, lock, unsaved, touched>>

RemoveFails(r, p) ==
    /\ At(r, "remove") /\ p \in run[r].todo
    /\ disk[p] # None
    /\ run' = [run EXCEPT ![r].todo = @ \ {p}, ![r].managed = @ \cup {p},
                          ![r].clean = FALSE]
    /\ UNCHANGED <<disk, author, ledger, lock, unsaved, touched>>

(* The removal loop meets an entry that escapes the root (resolveContained) *)
(* and the run ends there, its writes done and its ledger not saved.        *)
AbortRemoval(r) ==
    /\ At(r, "remove") /\ Outside \in run[r].todo
    /\ lock' = None
    /\ run' = [run EXCEPT ![r] = NotRunning]
    /\ unsaved' = unsaved \cup Unnamed(ledger)
    /\ touched' = {}
    /\ UNCHANGED <<disk, author, ledger>>

EndRemoves(r) ==
    /\ At(r, "remove") /\ run[r].todo = {}
    /\ run' = [run EXCEPT ![r].pc = "save"]
    /\ UNCHANGED <<disk, author, ledger, lock, unsaved, touched>>

SaveManifest(r) ==
    /\ At(r, "save")
    /\ ledger' = run[r].managed
    /\ unsaved' = unsaved \ run[r].managed
    /\ run' = [run EXCEPT ![r].pc = "done"]
    /\ UNCHANGED <<disk, author, lock, touched>>

SaveFails(r) ==
    /\ At(r, "save")
    /\ unsaved' = unsaved \cup Unnamed(ledger)
    /\ run' = [run EXCEPT ![r].pc = "done", ![r].clean = FALSE]
    /\ UNCHANGED <<disk, author, ledger, lock, touched>>

ReleaseLock(r) ==
    /\ At(r, "done")
    /\ lock' = None
    /\ run' = [run EXCEPT ![r] = NotRunning]
    /\ touched' = {}
    /\ UNCHANGED <<disk, author, ledger, unsaved>>

(* The process dies. flock goes with it. *)
Crash(r) ==
    /\ ~At(r, "idle")
    /\ lock' = None
    /\ run' = [run EXCEPT ![r] = NotRunning]
    /\ unsaved' = unsaved \cup Unnamed(ledger)
    /\ touched' = {}
    /\ UNCHANGED <<disk, author, ledger>>

-----------------------------------------------------------------------------
(* The developer *)

UserWrites(p, c) ==
    /\ disk[p] # c
    /\ Put(p, c, "user")
    /\ touched' = IF lock = None THEN {} ELSE touched \cup {p}
    /\ UNCHANGED <<ledger, lock, run, unsaved>>

(* The remedy doctor suggests for a broken ledger: delete it and sync.      *)
UserDeletesLedger ==
    /\ ledger # {}
    /\ ledger' = {}
    /\ unsaved' = unsaved \cup Unnamed({})
    /\ UNCHANGED <<disk, author, lock, run, touched>>

(* Somebody edits the ledger: its entries are untrusted (reconcile.go:310). *)
UserEditsLedger ==
    /\ Outside \notin ledger
    /\ ledger' = ledger \cup {Outside}
    /\ UNCHANGED <<disk, author, lock, run, unsaved, touched>>

-----------------------------------------------------------------------------

PathStep(r, p) == Unchanged(r, p) \/ Skip(r, p) \/ DecideWrite(r, p)
                  \/ Remove(r, p) \/ RemoveFails(r, p)

RunStep(r) ==
    \/ AcquireLock(r) \/ FetchArtifacts(r) \/ LoadManifest(r) \/ Abort(r)
    \/ \E p \in Paths : PathStep(r, p)
    \/ Rename(r) \/ WriteFails(r) \/ EndWrites(r) \/ EndRemoves(r) \/ AbortRemoval(r)
    \/ SaveManifest(r) \/ SaveFails(r) \/ ReleaseLock(r)
    \/ Crash(r)

Next ==
    \/ \E r \in Runs : RunStep(r)
    \/ \E p \in Paths, c \in Files : UserWrites(p, c)
    \/ UserDeletesLedger \/ UserEditsLedger

Spec == Init /\ [][Next]_vars

-----------------------------------------------------------------------------
(* Properties *)

(* Reconcile: "It NEVER modifies or deletes a file it does not manage". A   *)
(* run changes an existing file only at a path of the ledger it loaded, or  *)
(* where the developer has put one since the run checked that the path was  *)
(* free: writeAtomic renames over whatever is there by then. A link that    *)
(* stat fails on does not count as existing: TestReconcileDanglingLeaf-     *)
(* SymlinkStaysContained pins that the artifact replaces it.                *)
UnmanagedUntouched ==
    [][\A r \in Runs, p \in Paths :
         (disk[p] \notin {None, Link} /\ disk'[p] # disk[p] /\ RunStep(r))
           => p \in run[r].old \cup touched]_vars

(* Between runs every file orbeat wrote is named by the ledger, whatever    *)
(* failed on the way, unless a run died, could not save its ledger, or was  *)
(* ended in its removal loop by an entry that escapes the root.             *)
NothingForgotten == lock = None => Unnamed(ledger) \subseteq unsaved

Delivered(r, p) == author[p] = "user" \/ disk[p] = run[r].want[p]

(* A run that reports no failure has delivered: every path holds what the   *)
(* server served, and nothing where it served nothing, except the           *)
(* developer's own files, the files an earlier run wrote and lost, and what *)
(* the developer changed behind the run.                                    *)
CleanRunDelivers ==
    \A r \in Runs : (At(r, "done") /\ run[r].clean) =>
        \A p \in Paths \ (unsaved \cup touched) : Delivered(r, p)

=============================================================================
