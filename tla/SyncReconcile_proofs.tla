------------------------- MODULE SyncReconcile_proofs -------------------------
(***************************************************************************)
(* The reconciler against a developer who edits the same files and a run    *)
(* that may fail or die anywhere, proved for any number of paths, contents  *)
(* and processes.                                                           *)
(*                                                                          *)
(* The properties speak of the time between runs and of a finished run. The *)
(* proof says what is true at every step between: where each file of        *)
(* orbeat's is remembered (Recalled) and which paths are settled already    *)
(* (Settled). The run lock leaves one process to reason about.              *)
(***************************************************************************)
EXTENDS SyncReconcile, TLAPS

(* The path holds what the run was served, or the developer has been there. *)
Settled(r, p) == p \in touched \/ Delivered(r, p)

(* Each of orbeat's files is named by one of these, or lost already. *)
Recalled(names) == \A p \in Paths : author[p] = "orbeat" => p \in unsaved \cup names

(* A clean run has settled the files it manages, and every path of the set  *)
(* unless an earlier run lost the file there.                               *)
SettledRun(r, paths) ==
    run[r].clean => /\ \A p \in run[r].managed : Settled(r, p)
                    /\ \A p \in paths : p \in unsaved \/ Settled(r, p)

Starting(r) ==
    run[r].pc \in {"fetch", "load"} => Recalled(ledger) /\ run[r].managed = {}

(* The write loop: the old ledger still stands for what it has not reached. *)
Writing(r) ==
    run[r].pc \in {"write", "rename"} =>
        /\ run[r].todo \subseteq Desired(r)
        /\ run[r].managed \subseteq Desired(r) \ run[r].todo
        /\ Recalled(run[r].managed \cup (run[r].old \cap run[r].todo)
                                   \cup (run[r].old \ Desired(r)))
        /\ SettledRun(r, Desired(r) \ run[r].todo)

(* DecideWrite saw nothing there, a link, or a managed file. *)
Renaming(r) ==
    run[r].pc = "rename" =>
        /\ run[r].cur \in run[r].todo
        /\ disk[run[r].cur] \in {None, Link} \/ run[r].cur \in run[r].old \cup touched

Removing(r) ==
    run[r].pc = "remove" =>
        /\ run[r].todo \subseteq run[r].old \ Desired(r)
        /\ Recalled(run[r].managed \cup run[r].todo)
        /\ SettledRun(r, Paths \ run[r].todo)

Saving(r) ==
    run[r].pc = "save" => Recalled(run[r].managed) /\ SettledRun(r, Paths)

Finished(r) ==
    run[r].pc = "done" =>
        /\ Recalled(ledger)
        /\ run[r].clean => \A p \in Paths : p \in unsaved \/ Settled(r, p)

Frame(r) ==
    /\ run[r].pc = "idle" => run[r] = NotRunning
    /\ run[r].pc # "idle" => lock = r
    /\ Starting(r) /\ Writing(r) /\ Renaming(r) /\ Removing(r)
    /\ Saving(r) /\ Finished(r)

IInv ==
    /\ TypeOK
    /\ \A r \in Runs : Frame(r)
    /\ lock = None => Recalled(ledger)
-----------------------------------------------------------------------------

(* The run lock: while one process runs, or may start, the others are idle. *)
LEMMA OthersIdle ==
  ASSUME IInv, NEW r \in Runs, lock = None \/ run[r].pc # "idle", NEW s \in Runs \ {r}
  PROVE  run[s].pc = "idle" /\ run[s] = NotRunning
  BY SyncAssumption DEF IInv, Frame

(* A process that does not run owes nothing. *)
LEMMA IdleFrame ==
  ASSUME NEW s \in Runs, run'[s] = NotRunning
  PROVE  Frame(s)'
  <1>1. run'[s].pc = "idle"
    BY DEF NotRunning
  <1> QED BY <1>1 DEF Frame, Starting, Writing, Renaming, Removing, Saving, Finished

(* A process that does not run has a state. *)
LEMMA NotRunningType == NotRunning \in RunState /\ NotRunning.pc = "idle"
                        /\ NotRunning.managed = {}
  <1>1. [p \in Paths |-> None] \in Served
    BY DEF Served
  <1> QED BY <1>1 DEF NotRunning, RunState

(* A step of one process moves its own variables only. *)
LEMMA Move ==
  ASSUME IInv, NEW r \in Runs, NEW new \in RunState, run' = [run EXCEPT ![r] = new]
  PROVE  /\ run' \in [Runs -> RunState] /\ run'[r] = new
         /\ \A s \in Runs \ {r} : run'[s] = run[s]
  BY DEF IInv, TypeOK

(* A step of the process that holds the lock: its own frame is all there is *)
(* to show.                                                                 *)
LEMMA RunStepInv ==
  ASSUME IInv, NEW r \in Runs, lock = None \/ run[r].pc # "idle",
         \A s \in Runs \ {r} : run'[s] = run[s],
         TypeOK', Frame(r)', lock' = None => Recalled(ledger)'
  PROVE  IInv'
  <1>1. ASSUME NEW s \in Runs \ {r} PROVE Frame(s)'
    BY OthersIdle, IdleFrame
  <1> QED BY <1>1 DEF IInv

(* What a process knows at each pc, from the invariant. *)
LEMMA Know ==
  ASSUME IInv, NEW r \in Runs
  PROVE  /\ TypeOK /\ Frame(r) /\ run[r] \in RunState
         /\ run[r].pc # "idle" => lock = r /\ lock # None
  BY SyncAssumption DEF IInv, TypeOK, Frame

(* The run lock is taken: the run starts from what was recalled. *)
LEMMA AcquireStep ==
  ASSUME IInv, NEW r \in Runs, AcquireLock(r)
  PROVE  IInv'
  <1> DEFINE new == [run[r] EXCEPT !.pc = "fetch"]
  <1>1. /\ run[r].pc = "idle" /\ lock = None /\ lock' = r /\ touched' = {}
        /\ run' = [run EXCEPT ![r] = new]
        /\ UNCHANGED <<disk, author, ledger, unsaved>>
    BY DEF AcquireLock, At
  <1>2. run[r] = NotRunning
    BY <1>1 DEF IInv, Frame
  <1>3. new \in RunState /\ new.pc = "fetch" /\ new.managed = {}
    BY <1>2, NotRunningType DEF RunState
  <1> HIDE DEF new
  <1>4. run' \in [Runs -> RunState] /\ run'[r] = new /\ \A s \in Runs \ {r} : run'[s] = run[s]
    BY <1>1, <1>3, Move
  <1>5. TypeOK'
    BY <1>1, <1>4 DEF IInv, TypeOK
  <1>6. Recalled(ledger)'
    BY <1>1 DEF IInv, Recalled
  <1>7. Frame(r)'
    BY <1>1, <1>3, <1>4, <1>6
       DEF Frame, Starting, Writing, Renaming, Removing, Saving, Finished
  <1> QED BY <1>1, <1>4, <1>5, <1>6, <1>7, RunStepInv

(* FetchArtifacts stores what was served. *)
LEMMA FetchStep ==
  ASSUME IInv, NEW r \in Runs, FetchArtifacts(r)
  PROVE  IInv'
  <1>0. PICK served \in Served : run' = [run EXCEPT ![r].pc = "load", ![r].want = served]
    BY DEF FetchArtifacts
  <1> DEFINE new == [run[r] EXCEPT !.pc = "load", !.want = served]
  <1>1. /\ run[r].pc = "fetch" /\ run' = [run EXCEPT ![r] = new]
        /\ UNCHANGED <<disk, author, ledger, lock, unsaved, touched>>
    BY <1>0 DEF FetchArtifacts, At
  <1>2. lock = r /\ lock # None /\ Recalled(ledger) /\ run[r].managed = {}
    BY <1>1, Know DEF Frame, Starting
  <1>3. new \in RunState /\ new.pc = "load" /\ new.managed = {}
    BY <1>2, Know DEF RunState
  <1> HIDE DEF new
  <1>4. run' \in [Runs -> RunState] /\ run'[r] = new /\ \A s \in Runs \ {r} : run'[s] = run[s]
    BY <1>1, <1>3, Move
  <1>5. TypeOK'
    BY <1>1, <1>4 DEF IInv, TypeOK
  <1>6. Recalled(ledger)'
    BY <1>1, <1>2 DEF Recalled
  <1>7. Frame(r)'
    BY <1>1, <1>2, <1>3, <1>4, <1>6
       DEF Frame, Starting, Writing, Renaming, Removing, Saving, Finished
  <1> QED BY <1>1, <1>4, <1>5, <1>6, <1>7, RunStepInv

(* LoadManifest: the old ledger names all there is. *)
LEMMA LoadStep ==
  ASSUME IInv, NEW r \in Runs, LoadManifest(r)
  PROVE  IInv'
  <1> DEFINE new == [run[r] EXCEPT !.pc = "write", !.old = ledger, !.todo = Desired(r)]
  <1>1. /\ run[r].pc = "load" /\ run' = [run EXCEPT ![r] = new]
        /\ UNCHANGED <<disk, author, ledger, lock, unsaved, touched>>
    BY DEF LoadManifest, At
  <1>2. lock = r /\ lock # None /\ Recalled(ledger) /\ run[r].managed = {}
    BY <1>1, Know DEF Frame, Starting
  <1>3. /\ new \in RunState /\ new.pc = "write" /\ new.managed = {}
        /\ new.want = run[r].want /\ new.old = ledger /\ new.todo = Desired(r)
    BY <1>2, Know DEF RunState, TypeOK, Desired, Entries
  <1> HIDE DEF new
  <1>4. run' \in [Runs -> RunState] /\ run'[r] = new /\ \A s \in Runs \ {r} : run'[s] = run[s]
    BY <1>1, <1>3, Move
  <1>5. TypeOK'
    BY <1>1, <1>4 DEF IInv, TypeOK
  <1>6. Desired(r)' = Desired(r)
    BY <1>3, <1>4 DEF Desired
  <1>7. Recalled(run[r].managed \cup (run[r].old \cap run[r].todo)
                                \cup (run[r].old \ Desired(r)))'
    BY <1>1, <1>2, <1>3, <1>4, <1>6 DEF Recalled
  <1>8. SettledRun(r, Desired(r) \ run[r].todo)'
    BY <1>3, <1>4, <1>6 DEF SettledRun
  <1>9. Frame(r)'
    BY <1>1, <1>2, <1>3, <1>4, <1>6, <1>7, <1>8
       DEF Frame, Starting, Writing, Renaming, Removing, Saving, Finished
  <1> QED BY <1>1, <1>2, <1>4, <1>5, <1>9, RunStepInv

(* Abort, ReleaseLock, Crash and an abort in the removal loop: the process  *)
(* is gone and the lock is free.                                            *)
LEMMA EndStep ==
  ASSUME IInv, NEW r \in Runs, Abort(r) \/ ReleaseLock(r) \/ Crash(r) \/ AbortRemoval(r)
  PROVE  IInv'
  <1>1. /\ run[r].pc # "idle" /\ lock' = None /\ touched' = {}
        /\ run' = [run EXCEPT ![r] = NotRunning]
        /\ UNCHANGED <<disk, author, ledger>>
    BY DEF Abort, ReleaseLock, Crash, AbortRemoval, At
  <1>2. /\ run' \in [Runs -> RunState] /\ run'[r] = NotRunning
        /\ \A s \in Runs \ {r} : run'[s] = run[s]
    BY <1>1, NotRunningType, Move
  <1>3. unsaved' \subseteq Paths /\ unsaved \subseteq unsaved'
    BY DEF Abort, ReleaseLock, Crash, AbortRemoval, Unnamed, IInv, TypeOK
  <1>4. Recalled(ledger)'
    <2>1. CASE Abort(r) \/ ReleaseLock(r)
      <3>1. Recalled(ledger)
        BY <2>1, Know DEF Abort, ReleaseLock, At, Frame, Starting, Finished
      <3> QED BY <1>1, <1>3, <3>1 DEF Recalled
    <2>2. CASE Crash(r) \/ AbortRemoval(r)
      BY <1>1, <2>2 DEF Crash, AbortRemoval, Unnamed, Recalled
    <2> QED BY <2>1, <2>2
  <1>5. TypeOK'
    BY <1>1, <1>2, <1>3 DEF IInv, TypeOK
  <1>6. Frame(r)'
    BY <1>2, IdleFrame
  <1> QED BY <1>1, <1>2, <1>4, <1>5, <1>6, RunStepInv

(* A path of the write loop is done with: what holds for the others holds   *)
(* still, and the path itself is settled, or lost before this run.          *)
LEMMA PathWritten ==
  ASSUME IInv, NEW r \in Runs, run[r].pc \in {"write", "rename"}, NEW p \in run[r].todo,
         NEW new \in RunState, run' = [run EXCEPT ![r] = new], new.pc = "write",
         new.want = run[r].want, new.old = run[r].old, new.todo = run[r].todo \ {p},
         new.managed \subseteq run[r].managed \cup {p}, run[r].managed \subseteq new.managed,
         new.clean => run[r].clean,
         \A q \in Paths \ {p} : /\ disk'[q] = disk[q] /\ author'[q] = author[q]
                                /\ q \in touched => q \in touched',
         TypeOK', UNCHANGED <<ledger, lock, unsaved>>,
         author'[p] = "orbeat" => p \in unsaved \cup new.managed,
         new.clean => /\ p \in unsaved \/ p \in touched' \/ author'[p] = "user"
                           \/ disk'[p] = new.want[p]
                      /\ p \in new.managed =>
                           p \in touched' \/ author'[p] = "user" \/ disk'[p] = new.want[p]
  PROVE  IInv'
  <1>1. /\ lock = r /\ lock # None /\ run[r].pc # "idle"
        /\ run[r].todo \subseteq Desired(r)
        /\ run[r].managed \subseteq Desired(r) \ run[r].todo
        /\ Recalled(run[r].managed \cup (run[r].old \cap run[r].todo)
                                   \cup (run[r].old \ Desired(r)))
        /\ SettledRun(r, Desired(r) \ run[r].todo)
    BY Know DEF Frame, Writing
  <1>2. /\ run'[r] = new /\ \A s \in Runs \ {r} : run'[s] = run[s]
    BY Move
  <1>3. Desired(r)' = Desired(r) /\ Desired(r) \subseteq Paths
    BY <1>2 DEF Desired
  <1>4. new.todo \subseteq Desired(r) /\ new.managed \subseteq Desired(r) \ new.todo
    BY <1>1
  <1>5. Recalled(run[r].managed \cup (run[r].old \cap run[r].todo)
                                \cup (run[r].old \ Desired(r)))'
    <2> SUFFICES ASSUME NEW q \in Paths, author'[q] = "orbeat"
                 PROVE  q \in unsaved' \cup run'[r].managed
                              \cup (run'[r].old \cap run'[r].todo)
                              \cup (run'[r].old \ Desired(r)')
      BY DEF Recalled
    <2>1. CASE q = p
      BY <1>2, <2>1
    <2>2. CASE q # p
      BY <1>1, <1>2, <1>3, <2>2 DEF Recalled
    <2> QED BY <2>1, <2>2
  <1>6. ASSUME NEW q \in Paths \ {p}, Settled(r, q) PROVE Settled(r, q)'
    BY <1>2, <1>6 DEF Settled, Delivered
  <1>7. SettledRun(r, Desired(r) \ run[r].todo)'
    <2> SUFFICES ASSUME new.clean
                 PROVE  /\ \A q \in new.managed : Settled(r, q)'
                        /\ \A q \in Desired(r) \ new.todo : q \in unsaved \/ Settled(r, q)'
      BY <1>2, <1>3 DEF SettledRun
    <2>1. p \in Paths /\ (p \in unsaved \/ Settled(r, p)') /\ (p \in new.managed => Settled(r, p)')
      BY <1>1, <1>2, <1>3 DEF Settled, Delivered
    <2>2. ASSUME NEW q \in new.managed, q # p PROVE Settled(r, q)'
      <3>1. q \in run[r].managed /\ q \in Paths
        BY <1>1, <1>3, <2>2
      <3> QED BY <1>1, <1>6, <2>2, <3>1 DEF SettledRun
    <2>3. ASSUME NEW q \in Desired(r) \ new.todo, q # p PROVE q \in unsaved \/ Settled(r, q)'
      <3>1. q \in Desired(r) \ run[r].todo /\ q \in Paths
        BY <1>3, <2>3
      <3> QED BY <1>1, <1>6, <2>3, <3>1 DEF SettledRun
    <2> QED BY <2>1, <2>2, <2>3
  <1>8. Frame(r)'
    BY <1>1, <1>2, <1>3, <1>4, <1>5, <1>7
       DEF Frame, Starting, Writing, Renaming, Removing, Saving, Finished
  <1> QED BY <1>1, <1>2, <1>8, RunStepInv

(* A file that has its content already is managed as it is. *)
LEMMA UnchangedStep ==
  ASSUME IInv, NEW r \in Runs, NEW p \in Paths, Unchanged(r, p)
  PROVE  IInv'
  <1> DEFINE new == [run[r] EXCEPT !.todo = @ \ {p}, !.managed = @ \cup {p}]
  <1>1. /\ run[r].pc = "write" /\ p \in run[r].todo /\ disk[p] = run[r].want[p]
        /\ run' = [run EXCEPT ![r] = new] /\ touched' = touched \ {p}
        /\ UNCHANGED <<disk, author, ledger, lock, unsaved>>
    BY DEF Unchanged, At
  <1>2. /\ new \in RunState /\ new.pc = "write" /\ new.want = run[r].want
        /\ new.old = run[r].old /\ new.todo = run[r].todo \ {p}
        /\ new.managed = run[r].managed \cup {p} /\ new.clean = run[r].clean
    BY <1>1, Know DEF RunState
  <1> HIDE DEF new
  <1>3. TypeOK'
    BY <1>1, <1>2, Move DEF IInv, TypeOK
  <1> QED BY <1>1, <1>2, <1>3, PathWritten

(* A file of the developer's is left alone. *)
LEMMA SkipStep ==
  ASSUME IInv, NEW r \in Runs, NEW p \in Paths, Skip(r, p)
  PROVE  IInv'
  <1> DEFINE new == [run[r] EXCEPT !.todo = @ \ {p}]
  <1>1. /\ run[r].pc = "write" /\ p \in run[r].todo /\ p \notin run[r].old
        /\ disk[p] # None
        /\ run' = [run EXCEPT ![r] = new] /\ touched' = touched \ {p}
        /\ UNCHANGED <<disk, author, ledger, lock, unsaved>>
    BY DEF Skip, At
  <1>2. /\ new \in RunState /\ new.pc = "write" /\ new.want = run[r].want
        /\ new.old = run[r].old /\ new.todo = run[r].todo \ {p}
        /\ new.managed = run[r].managed /\ new.clean = run[r].clean
    BY <1>1, Know DEF RunState
  <1> HIDE DEF new
  <1>3. TypeOK'
    BY <1>1, <1>2, Move DEF IInv, TypeOK
  (* The ledger does not name the path, so a file of orbeat's was lost. *)
  <1>4. p \notin run[r].managed /\ (author[p] = "orbeat" => p \in unsaved)
    BY <1>1, Know DEF Frame, Writing, Recalled
  <1>5. author[p] \in {"orbeat", "user"}
    BY <1>1 DEF IInv, TypeOK
  <1> QED BY <1>1, <1>2, <1>3, <1>4, <1>5, PathWritten

(* The path may be written: free, or in the old ledger. *)
LEMMA DecideStep ==
  ASSUME IInv, NEW r \in Runs, NEW p \in Paths, DecideWrite(r, p)
  PROVE  IInv'
  <1> DEFINE new == [run[r] EXCEPT !.pc = "rename", !.cur = p]
  <1>1. /\ run[r].pc = "write" /\ p \in run[r].todo
        /\ disk[p] \in {None, Link} \/ p \in run[r].old
        /\ run' = [run EXCEPT ![r] = new] /\ touched' = touched \ {p}
        /\ UNCHANGED <<disk, author, ledger, lock, unsaved>>
    BY DEF DecideWrite, At
  <1>2. /\ new \in RunState /\ new.pc = "rename" /\ new.cur = p /\ new.want = run[r].want
        /\ new.old = run[r].old /\ new.todo = run[r].todo
        /\ new.managed = run[r].managed /\ new.clean = run[r].clean
    BY <1>1, Know DEF RunState
  <1> HIDE DEF new
  <1>3. run' \in [Runs -> RunState] /\ run'[r] = new /\ \A s \in Runs \ {r} : run'[s] = run[s]
    BY <1>1, <1>2, Move
  <1>4. TypeOK'
    BY <1>1, <1>3 DEF IInv, TypeOK
  <1>5. /\ lock = r /\ lock # None /\ Writing(r)
    BY <1>1, Know DEF Frame
  <1>6. Desired(r)' = Desired(r) /\ Desired(r) \subseteq Paths
    BY <1>2, <1>3 DEF Desired
  <1>7. ASSUME NEW q \in Paths \ {p}, Settled(r, q) PROVE Settled(r, q)'
    BY <1>1, <1>2, <1>3, <1>7 DEF Settled, Delivered
  <1>8. SettledRun(r, Desired(r) \ run[r].todo)'
    <2>1. p \notin run[r].managed /\ run[r].managed \subseteq Paths
          /\ SettledRun(r, Desired(r) \ run[r].todo)
      BY <1>1, <1>5, <1>6 DEF Writing
    <2> QED BY <1>1, <1>2, <1>3, <1>6, <1>7, <2>1 DEF SettledRun
  <1>9. Writing(r)'
    BY <1>1, <1>2, <1>3, <1>5, <1>6, <1>8 DEF Writing, Recalled
  <1>10. Frame(r)'
    BY <1>1, <1>2, <1>3, <1>5, <1>9
       DEF Frame, Starting, Renaming, Removing, Saving, Finished
  <1> QED BY <1>1, <1>3, <1>4, <1>5, <1>10, RunStepInv

(* The rename puts the served content in place. *)
LEMMA RenameStep ==
  ASSUME IInv, NEW r \in Runs, Rename(r)
  PROVE  IInv'
  <1> DEFINE p == run[r].cur
             new == [run[r] EXCEPT !.pc = "write", !.cur = None, !.todo = @ \ {p},
                                   !.managed = @ \cup {p}]
  <1>1. /\ run[r].pc = "rename" /\ Put(p, run[r].want[p], "orbeat")
        /\ run' = [run EXCEPT ![r] = new] /\ touched' = touched \ {p}
        /\ UNCHANGED <<ledger, lock, unsaved>>
    BY DEF Rename, At
  <1>2. /\ p \in run[r].todo /\ p \in Paths
        /\ run[r].want[p] \in Contents /\ run[r].want[p] # None
    <2>1. p \in run[r].todo /\ p \in Desired(r)
      BY <1>1, Know DEF Frame, Renaming, Writing
    <2>2. run[r].want \in [Paths -> Contents \cup {None}]
      BY Know DEF RunState, Served
    <2> QED BY <2>1, <2>2 DEF Desired
  <1>3. /\ new \in RunState /\ new.pc = "write" /\ new.want = run[r].want
        /\ new.old = run[r].old /\ new.todo = run[r].todo \ {p}
        /\ new.managed = run[r].managed \cup {p} /\ new.clean = run[r].clean
    BY <1>1, <1>2, Know DEF RunState
  <1> HIDE DEF new, p
  <1>4. /\ disk' = [disk EXCEPT ![p] = run[r].want[p]]
        /\ author' = [author EXCEPT ![p] = "orbeat"]
    BY <1>1, <1>2 DEF Put
  <1>5. TypeOK'
    <2>1. run' \in [Runs -> RunState]
      BY <1>1, <1>3, Move
    <2>2. /\ disk' \in [Paths -> Files]
          /\ author' \in [Paths -> {"orbeat", "user", None}]
      BY <1>2, <1>4 DEF IInv, TypeOK, Files
    <2>3. \A q \in Paths : (disk'[q] = None) <=> (author'[q] = None)
      BY <1>2, <1>4, SyncAssumption DEF IInv, TypeOK
    <2> QED BY <1>1, <2>1, <2>2, <2>3 DEF IInv, TypeOK
  <1>6. /\ disk'[p] = new.want[p]
        /\ \A q \in Paths \ {p} : disk'[q] = disk[q] /\ author'[q] = author[q]
    BY <1>2, <1>3, <1>4 DEF IInv, TypeOK
  <1> QED BY <1>1, <1>2, <1>3, <1>5, <1>6, PathWritten

(* A write that fails leaves the old ledger's claim on the path. *)
LEMMA WriteFailsStep ==
  ASSUME IInv, NEW r \in Runs, WriteFails(r)
  PROVE  IInv'
  <1> DEFINE p == run[r].cur
             new == [run[r] EXCEPT !.pc = "write", !.cur = None, !.todo = @ \ {p},
                                   !.managed = @ \cup ({p} \cap run[r].old), !.clean = FALSE]
  <1>1. /\ run[r].pc = "rename" /\ run' = [run EXCEPT ![r] = new]
        /\ UNCHANGED <<disk, author, ledger, lock, unsaved, touched>>
    BY DEF WriteFails, At
  <1>2. p \in run[r].todo /\ p \in Desired(r) /\ p \in Paths
    BY <1>1, Know DEF Frame, Renaming, Writing, Desired
  <1>3. /\ new \in RunState /\ new.pc = "write" /\ new.want = run[r].want
        /\ new.old = run[r].old /\ new.todo = run[r].todo \ {p}
        /\ new.managed = run[r].managed \cup ({p} \cap run[r].old) /\ ~new.clean
    BY <1>1, <1>2, Know DEF RunState
  <1> HIDE DEF new, p
  <1>4. TypeOK'
    BY <1>1, <1>3, Move DEF IInv, TypeOK
  <1>5. author[p] = "orbeat" => p \in unsaved \cup new.managed
    BY <1>1, <1>2, <1>3, Know DEF Frame, Writing, Recalled
  <1> QED BY <1>1, <1>2, <1>3, <1>4, <1>5, PathWritten

(* The old paths nobody asked for any more come next. What is neither       *)
(* desired nor in the old ledger is not orbeat's, or was lost before.       *)
LEMMA EndWritesStep ==
  ASSUME IInv, NEW r \in Runs, EndWrites(r)
  PROVE  IInv'
  <1> DEFINE new == [run[r] EXCEPT !.pc = "remove", !.todo = run[r].old \ Desired(r)]
  <1>1. /\ run[r].pc = "write" /\ run[r].todo = {} /\ run' = [run EXCEPT ![r] = new]
        /\ UNCHANGED <<disk, author, ledger, lock, unsaved, touched>>
    BY DEF EndWrites, At
  <1>2. /\ lock = r /\ lock # None
        /\ run[r].managed \subseteq Desired(r)
        /\ Recalled(run[r].managed \cup (run[r].old \ Desired(r)))
        /\ SettledRun(r, Desired(r))
    BY <1>1, Know DEF Frame, Writing, Recalled, SettledRun
  <1>3. /\ new \in RunState /\ new.pc = "remove" /\ new.want = run[r].want
        /\ new.old = run[r].old /\ new.todo = run[r].old \ Desired(r)
        /\ new.managed = run[r].managed /\ new.clean = run[r].clean
    BY <1>1, Know DEF RunState
  <1> HIDE DEF new
  <1>4. run' \in [Runs -> RunState] /\ run'[r] = new /\ \A s \in Runs \ {r} : run'[s] = run[s]
    BY <1>1, <1>3, Move
  <1>5. TypeOK'
    BY <1>1, <1>4 DEF IInv, TypeOK
  <1>6. Desired(r)' = Desired(r)
    BY <1>3, <1>4 DEF Desired
  <1>7. \A q \in Paths : Settled(r, q)' <=> Settled(r, q)
    BY <1>1, <1>3, <1>4 DEF Settled, Delivered
  <1>8. ASSUME NEW q \in Paths, q \notin Desired(r), q \notin run[r].old
        PROVE  q \in unsaved \/ Settled(r, q)
    <2>1. run[r].want[q] = None
      BY <1>8 DEF Desired
    <2>2. author[q] = "orbeat" => q \in unsaved
      BY <1>2, <1>8 DEF Recalled
    <2>3. author[q] \in {"orbeat", "user", None} /\ (author[q] = None => disk[q] = None)
      BY <1>8, Know DEF TypeOK
    <2> QED BY <2>1, <2>2, <2>3 DEF Settled, Delivered
  <1>9. SettledRun(r, Paths \ run[r].todo)'
    <2> SUFFICES ASSUME run[r].clean
                 PROVE  /\ \A q \in run[r].managed : Settled(r, q)'
                        /\ \A q \in Paths \ (run[r].old \ Desired(r)) :
                              q \in unsaved \/ Settled(r, q)'
      BY <1>1, <1>3, <1>4 DEF SettledRun
    <2>1. run[r].managed \subseteq Paths
      BY Know DEF RunState
    <2> QED BY <1>2, <1>7, <1>8, <2>1 DEF SettledRun
  <1>10. Recalled(run[r].managed \cup run[r].todo)'
    BY <1>1, <1>2, <1>3, <1>4 DEF Recalled
  <1>11. Frame(r)'
    BY <1>1, <1>2, <1>3, <1>4, <1>6, <1>9, <1>10
       DEF Frame, Starting, Writing, Renaming, Removing, Saving, Finished
  <1> QED BY <1>1, <1>2, <1>4, <1>5, <1>11, RunStepInv

(* A path of the remove loop is done with. *)
LEMMA PathRemoved ==
  ASSUME IInv, NEW r \in Runs, run[r].pc = "remove", NEW p \in run[r].todo,
         p \in Paths,
         NEW new \in RunState, run' = [run EXCEPT ![r] = new], new.pc = "remove",
         new.want = run[r].want, new.old = run[r].old, new.todo = run[r].todo \ {p},
         new.managed \subseteq run[r].managed \cup {p}, run[r].managed \subseteq new.managed,
         new.clean => run[r].clean,
         \A q \in Paths \ {p} : /\ disk'[q] = disk[q] /\ author'[q] = author[q]
                                /\ q \in touched => q \in touched',
         TypeOK', UNCHANGED <<ledger, lock, unsaved>>,
         author'[p] = "orbeat" => p \in unsaved \cup new.managed,
         new.clean => disk'[p] = None
  PROVE  IInv'
  <1>1. /\ lock = r /\ lock # None /\ run[r].pc # "idle"
        /\ run[r].todo \subseteq run[r].old \ Desired(r)
        /\ Recalled(run[r].managed \cup run[r].todo)
        /\ SettledRun(r, Paths \ run[r].todo)
        /\ run[r].managed \subseteq Paths
    BY Know DEF Frame, Removing, RunState
  <1>2. /\ run'[r] = new /\ \A s \in Runs \ {r} : run'[s] = run[s]
    BY Move
  <1>3. Desired(r)' = Desired(r)
    BY <1>2 DEF Desired
  <1>4. Recalled(run[r].managed \cup run[r].todo)'
    <2> SUFFICES ASSUME NEW q \in Paths, author'[q] = "orbeat"
                 PROVE  q \in unsaved \cup new.managed \cup new.todo
      BY <1>2 DEF Recalled
    <2>1. CASE q = p
      BY <2>1
    <2>2. CASE q # p
      BY <1>1, <2>2 DEF Recalled
    <2> QED BY <2>1, <2>2
  <1>5. ASSUME NEW q \in Paths \ {p}, Settled(r, q) PROVE Settled(r, q)'
    BY <1>2, <1>5 DEF Settled, Delivered
  <1>6. SettledRun(r, Paths \ run[r].todo)'
    <2> SUFFICES ASSUME new.clean
                 PROVE  /\ \A q \in new.managed : Settled(r, q)'
                        /\ \A q \in Paths \ new.todo : q \in unsaved \/ Settled(r, q)'
      BY <1>2 DEF SettledRun
    <2>1. Settled(r, p)'
      <3>1. new.want[p] = None
        BY <1>1 DEF Desired
      <3> QED BY <1>2, <3>1 DEF Settled, Delivered
    <2>2. ASSUME NEW q \in new.managed, q # p PROVE Settled(r, q)'
      <3>1. q \in run[r].managed /\ q \in Paths
        BY <1>1, <2>2
      <3> QED BY <1>1, <1>5, <2>2, <3>1 DEF SettledRun
    <2>3. ASSUME NEW q \in Paths \ new.todo, q # p PROVE q \in unsaved \/ Settled(r, q)'
      <3>1. q \in Paths \ run[r].todo
        BY <2>3
      <3> QED BY <1>1, <1>5, <2>3, <3>1 DEF SettledRun
    <2> QED BY <2>1, <2>2, <2>3
  <1>7. new.todo \subseteq new.old \ Desired(r)
    BY <1>1
  <1>8. Frame(r)'
    BY <1>1, <1>2, <1>3, <1>4, <1>6, <1>7
       DEF Frame, Starting, Writing, Renaming, Removing, Saving, Finished
  <1> QED BY <1>1, <1>2, <1>8, RunStepInv

(* A file that is no longer served is removed. *)
LEMMA RemoveStep ==
  ASSUME IInv, NEW r \in Runs, NEW p \in Paths, Remove(r, p)
  PROVE  IInv'
  <1> DEFINE new == [run[r] EXCEPT !.todo = @ \ {p}]
  <1>1. /\ run[r].pc = "remove" /\ p \in run[r].todo
        /\ disk' = [disk EXCEPT ![p] = None] /\ author' = [author EXCEPT ![p] = None]
        /\ run' = [run EXCEPT ![r] = new] /\ touched' = touched \ {p}
        /\ UNCHANGED <<ledger, lock, unsaved>>
    BY DEF Remove, Put, At
  <1>2. /\ new \in RunState /\ new.pc = "remove" /\ new.want = run[r].want
        /\ new.old = run[r].old /\ new.todo = run[r].todo \ {p}
        /\ new.managed = run[r].managed /\ new.clean = run[r].clean
    BY <1>1, Know DEF RunState
  <1> HIDE DEF new
  <1>3. TypeOK'
    <2>1. run' \in [Runs -> RunState]
      BY <1>1, <1>2, Move
    <2>2. /\ disk' \in [Paths -> Files]
          /\ author' \in [Paths -> {"orbeat", "user", None}]
          /\ \A q \in Paths : (disk'[q] = None) <=> (author'[q] = None)
      BY <1>1 DEF IInv, TypeOK, Files
    <2> QED BY <1>1, <2>1, <2>2 DEF IInv, TypeOK
  <1>4. /\ disk'[p] = None /\ author'[p] # "orbeat"
        /\ \A q \in Paths \ {p} : disk'[q] = disk[q] /\ author'[q] = author[q]
    BY <1>1, SyncAssumption DEF IInv, TypeOK
  <1> QED BY <1>1, <1>2, <1>3, <1>4, PathRemoved

(* A removal that fails keeps the file in the ledger. *)
LEMMA RemoveFailsStep ==
  ASSUME IInv, NEW r \in Runs, NEW p \in Paths, RemoveFails(r, p)
  PROVE  IInv'
  <1> DEFINE new == [run[r] EXCEPT !.todo = @ \ {p}, !.managed = @ \cup {p}, !.clean = FALSE]
  <1>1. /\ run[r].pc = "remove" /\ p \in run[r].todo
        /\ run' = [run EXCEPT ![r] = new]
        /\ UNCHANGED <<disk, author, ledger, lock, unsaved, touched>>
    BY DEF RemoveFails, At
  <1>2. /\ new \in RunState /\ new.pc = "remove" /\ new.want = run[r].want
        /\ new.old = run[r].old /\ new.todo = run[r].todo \ {p}
        /\ new.managed = run[r].managed \cup {p} /\ ~new.clean
    BY <1>1, Know DEF RunState
  <1> HIDE DEF new
  <1>3. TypeOK'
    BY <1>1, <1>2, Move DEF IInv, TypeOK
  <1> QED BY <1>1, <1>2, <1>3, PathRemoved

(* Every path has been visited. *)
LEMMA EndRemovesStep ==
  ASSUME IInv, NEW r \in Runs, EndRemoves(r)
  PROVE  IInv'
  <1> DEFINE new == [run[r] EXCEPT !.pc = "save"]
  <1>1. /\ run[r].pc = "remove" /\ run[r].todo = {} /\ run' = [run EXCEPT ![r] = new]
        /\ UNCHANGED <<disk, author, ledger, lock, unsaved, touched>>
    BY DEF EndRemoves, At
  <1>2. /\ lock = r /\ lock # None
        /\ Recalled(run[r].managed) /\ SettledRun(r, Paths)
    BY <1>1, Know DEF Frame, Removing, Recalled, SettledRun
  <1>3. /\ new \in RunState /\ new.pc = "save" /\ new.want = run[r].want
        /\ new.managed = run[r].managed /\ new.clean = run[r].clean
    BY Know DEF RunState
  <1> HIDE DEF new
  <1>4. run' \in [Runs -> RunState] /\ run'[r] = new /\ \A s \in Runs \ {r} : run'[s] = run[s]
    BY <1>1, <1>3, Move
  <1>5. TypeOK'
    BY <1>1, <1>4 DEF IInv, TypeOK
  <1>6. Recalled(run[r].managed)' /\ SettledRun(r, Paths)'
    BY <1>1, <1>2, <1>3, <1>4 DEF Recalled, SettledRun, Settled, Delivered
  <1>7. Frame(r)'
    BY <1>1, <1>2, <1>3, <1>4, <1>6
       DEF Frame, Starting, Writing, Renaming, Removing, Saving, Finished
  <1> QED BY <1>1, <1>2, <1>4, <1>5, <1>7, RunStepInv

(* What the saved ledger takes off the lost files, the run has settled. *)
LEMMA SaveStep ==
  ASSUME IInv, NEW r \in Runs, SaveManifest(r)
  PROVE  IInv'
  <1> DEFINE new == [run[r] EXCEPT !.pc = "done"]
  <1>1. /\ run[r].pc = "save" /\ run' = [run EXCEPT ![r] = new]
        /\ ledger' = run[r].managed /\ unsaved' = unsaved \ run[r].managed
        /\ UNCHANGED <<disk, author, lock, touched>>
    BY DEF SaveManifest, At
  <1>2. /\ lock = r /\ lock # None /\ run[r].managed \subseteq Paths
        /\ Recalled(run[r].managed) /\ SettledRun(r, Paths)
    BY <1>1, Know DEF Frame, Saving, RunState
  <1>3. /\ new \in RunState /\ new.pc = "done" /\ new.want = run[r].want
        /\ new.clean = run[r].clean
    BY Know DEF RunState
  <1> HIDE DEF new
  <1>4. run' \in [Runs -> RunState] /\ run'[r] = new /\ \A s \in Runs \ {r} : run'[s] = run[s]
    BY <1>1, <1>3, Move
  <1>5. TypeOK'
    BY <1>1, <1>2, <1>4 DEF IInv, TypeOK, Entries
  <1>6. Recalled(ledger)'
    BY <1>1, <1>2 DEF Recalled
  <1>7. run'[r].clean => \A q \in Paths : q \in unsaved' \/ Settled(r, q)'
    BY <1>1, <1>2, <1>3, <1>4 DEF SettledRun, Settled, Delivered
  <1>8. Frame(r)'
    BY <1>1, <1>2, <1>3, <1>4, <1>6, <1>7
       DEF Frame, Starting, Writing, Renaming, Removing, Saving, Finished
  <1> QED BY <1>1, <1>2, <1>4, <1>5, <1>8, RunStepInv

(* A ledger that cannot be saved loses what the run wrote, and the run is   *)
(* not clean.                                                               *)
LEMMA SaveFailsStep ==
  ASSUME IInv, NEW r \in Runs, SaveFails(r)
  PROVE  IInv'
  <1> DEFINE new == [run[r] EXCEPT !.pc = "done", !.clean = FALSE]
  <1>1. /\ run[r].pc = "save" /\ run' = [run EXCEPT ![r] = new]
        /\ unsaved' = unsaved \cup Unnamed(ledger)
        /\ UNCHANGED <<disk, author, ledger, lock, touched>>
    BY DEF SaveFails, At
  <1>2. lock = r /\ lock # None
    BY <1>1, Know
  <1>3. new \in RunState /\ new.pc = "done" /\ ~new.clean
    BY Know DEF RunState
  <1> HIDE DEF new
  <1>4. run' \in [Runs -> RunState] /\ run'[r] = new /\ \A s \in Runs \ {r} : run'[s] = run[s]
    BY <1>1, <1>3, Move
  <1>5. TypeOK'
    BY <1>1, <1>4 DEF IInv, TypeOK, Unnamed
  <1>6. Recalled(ledger)'
    BY <1>1 DEF Recalled, Unnamed
  <1>7. Frame(r)'
    BY <1>1, <1>2, <1>3, <1>4, <1>6
       DEF Frame, Starting, Writing, Renaming, Removing, Saving, Finished
  <1> QED BY <1>1, <1>2, <1>4, <1>5, <1>7, RunStepInv

-----------------------------------------------------------------------------
(* The developer *)

(* A step outside the processes keeps every frame if what was recalled is   *)
(* recalled and what was settled is settled, and the file a rename is about *)
(* to replace was touched if it was changed.                                *)
LEMMA OutsideStep ==
  ASSUME IInv, TypeOK', UNCHANGED <<lock, run>>, unsaved \subseteq unsaved',
         \A p \in Paths : author'[p] = "orbeat" => author[p] = "orbeat",
         Recalled(ledger) => Recalled(ledger)',
         lock # None => \A p \in Paths : \/ disk'[p] = disk[p] /\ author'[p] = author[p]
                                         \/ p \in touched',
         lock # None => touched \subseteq touched'
  PROVE  IInv'
  <1> SUFFICES ASSUME NEW r \in Runs PROVE Frame(r)'
    BY DEF IInv
  <1>1. CASE run[r].pc = "idle"
    BY <1>1, IdleFrame DEF IInv, Frame
  <1>2. CASE run[r].pc # "idle"
    <2>1. TypeOK /\ Frame(r) /\ run[r] \in RunState /\ lock # None
      BY <1>2, Know
    <2>2. Desired(r)' = Desired(r)
      BY DEF Desired
    <2>3. ASSUME NEW S PROVE Recalled(S) => \A p \in Paths : author'[p] = "orbeat" => p \in unsaved' \cup S
      BY DEF Recalled
    <2>4. ASSUME NEW p \in Paths, Settled(r, p) PROVE Settled(r, p)'
      BY <2>1, <2>4 DEF Settled, Delivered
    <2>5. ASSUME NEW S \in SUBSET Paths, SettledRun(r, S)
          PROVE  run[r].clean => /\ \A p \in run[r].managed : Settled(r, p)'
                                 /\ \A p \in S : p \in unsaved' \/ Settled(r, p)'
      <3>1. run[r].managed \subseteq Paths
        BY <2>1 DEF RunState
      <3> QED BY <2>4, <2>5, <3>1 DEF SettledRun
    <2>6. Starting(r)'
      BY <2>1 DEF Frame, Starting
    <2>7. Writing(r)'
      <3> SUFFICES ASSUME run[r].pc \in {"write", "rename"}
                   PROVE  /\ Recalled(run[r].managed \cup (run[r].old \cap run[r].todo)
                                                     \cup (run[r].old \ Desired(r)))'
                          /\ SettledRun(r, Desired(r) \ run[r].todo)'
        BY <2>1, <2>2 DEF Frame, Writing
      <3>1. Recalled(run[r].managed \cup (run[r].old \cap run[r].todo)
                                    \cup (run[r].old \ Desired(r)))'
        BY <2>1, <2>2, <2>3 DEF Frame, Writing, Recalled
      <3>2. SettledRun(r, Desired(r) \ run[r].todo)'
        <4>1. Desired(r) \ run[r].todo \in SUBSET Paths
          BY DEF Desired
        <4> QED BY <2>1, <2>2, <2>5, <4>1 DEF Frame, Writing, SettledRun
      <3> QED BY <3>1, <3>2
    <2>8. Renaming(r)'
      <3> SUFFICES ASSUME run[r].pc = "rename"
                   PROVE  /\ run[r].cur \in run[r].todo
                          /\ \/ disk'[run[r].cur] \in {None, Link}
                             \/ run[r].cur \in run[r].old \cup touched'
        BY DEF Renaming
      <3>1. /\ run[r].cur \in run[r].todo /\ run[r].cur \in Paths
            /\ \/ disk[run[r].cur] \in {None, Link}
               \/ run[r].cur \in run[r].old \cup touched
        BY <2>1 DEF Frame, Renaming, Writing, Desired
      <3> QED BY <2>1, <3>1
    <2>9. Removing(r)'
      <3>1. run[r].pc = "remove" => SettledRun(r, Paths \ run[r].todo)'
        BY <2>1, <2>5 DEF Frame, Removing, SettledRun
      <3> QED BY <2>1, <2>2, <2>3, <3>1 DEF Frame, Removing, Recalled
    <2>10. Saving(r)'
      <3>1. run[r].pc = "save" => SettledRun(r, Paths)'
        BY <2>1, <2>5 DEF Frame, Saving, SettledRun
      <3> QED BY <2>1, <2>3, <3>1 DEF Frame, Saving, Recalled
    <2>11. Finished(r)'
      BY <2>1, <2>4 DEF Frame, Finished
    <2>12. run'[r].pc # "idle" => lock' = r
      BY <2>1 DEF Frame
    <2> QED BY <1>2, <2>6, <2>7, <2>8, <2>9, <2>10, <2>11, <2>12 DEF Frame
  <1> QED BY <1>1, <1>2

(* The developer writes or removes a file, which a run in progress counts   *)
(* as touched.                                                              *)
LEMMA UserStep ==
  ASSUME IInv, NEW p \in Paths, NEW c \in Files, UserWrites(p, c)
  PROVE  IInv'
  <1> DEFINE who == IF c = None THEN None ELSE "user"
  <1>0. TypeOK
    BY DEF IInv
  <1>1. /\ disk' = [disk EXCEPT ![p] = c] /\ author' = [author EXCEPT ![p] = who]
        /\ lock = None => touched' = {}
        /\ lock # None => touched' = touched \cup {p}
        /\ UNCHANGED <<ledger, lock, run, unsaved>>
    BY DEF UserWrites, Put
  <1>2. who \in {"user", None} /\ (c = None <=> who = None) /\ who # "orbeat"
    BY SyncAssumption
  <1> HIDE DEF who
  <1>3. /\ disk'[p] = c /\ author'[p] = who
        /\ \A q \in Paths \ {p} : disk'[q] = disk[q] /\ author'[q] = author[q]
        /\ disk' \in [Paths -> Files]
        /\ author' \in [Paths -> {"orbeat", "user", None}]
    BY <1>0, <1>1, <1>2 DEF TypeOK
  <1>4. TypeOK'
    BY <1>0, <1>1, <1>2, <1>3 DEF TypeOK
  <1>5. \A q \in Paths : author'[q] = "orbeat" => author[q] = "orbeat"
    BY <1>2, <1>3
  <1>6. Recalled(ledger) => Recalled(ledger)'
    BY <1>1, <1>5 DEF Recalled
  <1>7. lock # None => \A q \in Paths : \/ disk'[q] = disk[q] /\ author'[q] = author[q]
                                        \/ q \in touched'
    BY <1>1, <1>3
  <1> QED BY <1>1, <1>4, <1>5, <1>6, <1>7, OutsideStep

(* The developer deletes the ledger: all it named is lost. *)
LEMMA LedgerDeletedStep ==
  ASSUME IInv, UserDeletesLedger
  PROVE  IInv'
  <1>1. /\ ledger' = {} /\ unsaved' = unsaved \cup Unnamed({})
        /\ UNCHANGED <<disk, author, lock, run, touched>>
    BY DEF UserDeletesLedger
  <1>2. TypeOK'
    BY <1>1 DEF IInv, TypeOK, Unnamed
  <1>3. Recalled(ledger)'
    BY <1>1 DEF Recalled, Unnamed
  <1> QED BY <1>1, <1>2, <1>3, OutsideStep

(* An entry that leads out of the root takes no file off the ledger. *)
LEMMA LedgerEditedStep ==
  ASSUME IInv, UserEditsLedger
  PROVE  IInv'
  <1>1. /\ ledger' = ledger \cup {Outside}
        /\ UNCHANGED <<disk, author, lock, run, unsaved, touched>>
    BY DEF UserEditsLedger
  <1>2. TypeOK'
    BY <1>1 DEF IInv, TypeOK, Entries
  <1>3. Recalled(ledger) => Recalled(ledger)'
    BY <1>1 DEF Recalled
  <1> QED BY <1>1, <1>2, <1>3, OutsideStep

-----------------------------------------------------------------------------

(* At the start orbeat has written nothing. *)
LEMMA InvInit == Init => IInv
  <1> SUFFICES ASSUME Init PROVE IInv
    OBVIOUS
  <1>1. /\ run \in [Runs -> RunState] /\ \A r \in Runs : run[r] = NotRunning
    BY NotRunningType DEF Init
  <1>2. TypeOK
    BY <1>1 DEF Init, TypeOK, Files, Entries
  <1>3. ASSUME NEW r \in Runs PROVE Frame(r)
    BY <1>1, NotRunningType
       DEF Frame, Starting, Writing, Renaming, Removing, Saving, Finished
  <1>4. Recalled(ledger)
    BY SyncAssumption DEF Init, Recalled
  <1> QED BY <1>2, <1>3, <1>4 DEF IInv

(* Every step keeps the invariant. *)
LEMMA InvStep == IInv /\ [Next]_vars => IInv'
  <1> SUFFICES ASSUME IInv, [Next]_vars PROVE IInv'
    OBVIOUS
  <1>1. ASSUME NEW r \in Runs, RunStep(r) PROVE IInv'
    <2>1. ASSUME NEW p \in Paths, PathStep(r, p) PROVE IInv'
      BY <2>1, UnchangedStep, SkipStep, DecideStep, RemoveStep, RemoveFailsStep DEF PathStep
    <2> QED BY <1>1, <2>1, AcquireStep, FetchStep, LoadStep, EndStep, RenameStep,
               WriteFailsStep, EndWritesStep, EndRemovesStep, SaveStep, SaveFailsStep
            DEF RunStep
  <1>2. CASE UNCHANGED vars
    <2>1. UNCHANGED <<disk, author, ledger, lock, run, unsaved, touched>>
      BY <1>2 DEF vars
    <2>2. TypeOK'
      BY <2>1 DEF IInv, TypeOK
    <2> QED BY <2>1, <2>2, OutsideStep DEF Recalled
  <1> QED BY <1>1, <1>2, UserStep, LedgerDeletedStep, LedgerEditedStep DEF Next

(* So it holds always. *)
LEMMA Invariance == Spec => []IInv
  BY InvInit, InvStep, PTL DEF Spec

(* Files, ledger, lock and the processes' variables keep their types. *)
THEOREM TypeCorrect == Spec => []TypeOK
  <1>1. IInv => TypeOK
    BY DEF IInv
  <1> QED BY <1>1, Invariance, PTL

(* Reconcile forgets no file it wrote: what a failed write or removal left  *)
(* behind stays in the ledger, and only a run that died, could not save, or *)
(* met an entry that escapes the root leaves a file no ledger names.        *)
THEOREM LedgerComplete == Spec => []NothingForgotten
  <1>1. IInv => NothingForgotten
    BY DEF IInv, NothingForgotten, Unnamed, Recalled
  <1> QED BY <1>1, Invariance, PTL

(* A run of syncOnce that reports no failure has brought every path to what *)
(* it was served, whoever else wrote there before.                          *)
THEOREM CleanRunsDeliver == Spec => []CleanRunDelivers
  <1>1. IInv => CleanRunDelivers
    BY DEF IInv, Frame, Finished, Settled, CleanRunDelivers, At
  <1> QED BY <1>1, Invariance, PTL

(* Of the steps of a run only the rename and the removal change a file. *)
LEMMA ManagedOnly ==
  ASSUME IInv, NEW r \in Runs, NEW p \in Paths, RunStep(r),
         disk[p] \notin {None, Link}, disk'[p] # disk[p]
  PROVE  p \in run[r].old \cup touched
  <1>1. CASE Rename(r)
    <2>1. run[r].cur = p
      BY <1>1 DEF Rename, Put, IInv, TypeOK
    <2> QED BY <1>1, <2>1, Know DEF Rename, At, Frame, Renaming
  <1>2. ASSUME NEW q \in Paths, Remove(r, q) PROVE p \in run[r].old
    <2>1. q = p
      BY <1>2 DEF Remove, Put, IInv, TypeOK
    <2> QED BY <1>2, <2>1, Know DEF Remove, At, Frame, Removing
  <1>3. ASSUME NEW q \in Paths, PathStep(r, q), ~Remove(r, q) PROVE disk' = disk
    BY <1>3 DEF PathStep, Unchanged, Skip, DecideWrite, RemoveFails
  <1>4. ASSUME RunStep(r), ~Rename(r), \A q \in Paths : ~PathStep(r, q) PROVE disk' = disk
    BY <1>4 DEF RunStep, AcquireLock, FetchArtifacts, LoadManifest, Abort, WriteFails,
                EndWrites, EndRemoves, AbortRemoval, SaveManifest, SaveFails, ReleaseLock, Crash
  <1> QED BY <1>1, <1>2, <1>3, <1>4

(* No run changes a file it does not manage, unless the developer put it    *)
(* there while writeAtomic was under way, or it is a link stat fails on.    *)
THEOREM UnmanagedSafe == Spec => UnmanagedUntouched
  <1>1. IInv /\ [Next]_vars =>
          [\A r \in Runs, p \in Paths :
             (disk[p] \notin {None, Link} /\ disk'[p] # disk[p] /\ RunStep(r))
               => p \in run[r].old \cup touched]_vars
    BY ManagedOnly
  <1> QED BY <1>1, Invariance, PTL DEF Spec, UnmanagedUntouched

=============================================================================
