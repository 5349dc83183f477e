----------------------------- MODULE SyncBlocks -----------------------------
(***************************************************************************)
(* The blocks orbeat-sync keeps inside files the developer owns: the rules  *)
(* in a project's AGENTS.md and CLAUDE.md and in the user-level files       *)
(* (internal/syncclient/rules.go, rules_global.go), the memory seeds in     *)
(* MEMORY.md (seed.go), the projects file they depend on (projects.go,      *)
(* runProject in cmd/orbeat-sync/main.go) and what doctor says about them   *)
(* (doctor.go). A file is never deleted; a block is merged in or stripped   *)
(* out, and the manifest's ledgers say where one may be. Blocks change file *)
(* by file, a ledger is saved once at the end of its pass, any write may    *)
(* fail, any process may die, volumes come and go, and the developer edits  *)
(* the same files meanwhile.                                                *)
(*                                                                          *)
(* A file is <<root, name>>. A ledger entry is a project for its two rules  *)
(* files, and the file itself for a seed or a user-level file. The seeds    *)
(* are those of one subagent. Reading, merging and renaming one file is one *)
(* step. The skills and subagents of the same run are in SyncReconcile.     *)
(***************************************************************************)
EXTENDS Naturals, FiniteSets

CONSTANTS
    Projects,       \* directories a developer may register
    Home, Codex,    \* ~/.claude and ~/.codex
    Bodies,         \* rendered bodies of rules and seeds
    Import,         \* the body of a project's CLAUDE.md block
    Edited,         \* a block that no longer matches the sha in its marker
    Broken,         \* duplicate markers, or a BEGIN that has no END
    Headless,       \* a seed's END whose BEGIN line is gone
    Entitlements,   \* what the server may serve
    Procs,          \* orbeat-sync processes
    None,
    MaxEvents       \* bound: faults, developer's and administrator's acts

Seeds == {<<root, "MEMORY.md">> : root \in Projects \cup {Home}}
Globals == {<<Home, "CLAUDE.md">>, <<Codex, "AGENTS.md">>}
Entries == Projects \cup Seeds \cup Globals

(* rulesManagedFiles, the file of a seed, the file of a global target. *)
FilesOf(e) == IF e \in Projects THEN {<<e, "AGENTS.md">>, <<e, "CLAUDE.md">>}
                                ELSE {e}
Files == UNION {FilesOf(e) : e \in Entries}
Root(f) == f[1]
EntryOf(f) == CHOOSE e \in Entries : f \in FilesOf(e)
Under(p) == {f \in Files : Root(f) = p}

Served == [rule : Bodies \cup {None}, targets : SUBSET Projects,
           global : Bodies \cup {None},
           seed : Bodies \cup {None}, scope : {"user", "project"}]

ASSUME BlocksAssumption ==
    /\ IsFiniteSet(Projects)
    /\ {Home, Codex, None} \cap Projects = {} /\ Home # Codex
    /\ \A root \in Projects \cup {Home, Codex}, name \in {"AGENTS.md", "CLAUDE.md", "MEMORY.md"} :
          <<root, name>> \notin Projects
    /\ Entitlements \subseteq Served
    /\ {Import, Edited, Broken, Headless, None} \cap Bodies = {}
    /\ None \notin {Import, Edited, Broken, Headless}
    /\ {Broken, Headless} \cap {Import, Edited} = {}
    /\ Import # Edited /\ Broken # Headless
    /\ None \notin Procs /\ MaxEvents \in Nat

VARIABLES
    entitled,    \* what the server would serve now
    registered,  \* projects.json
    present,     \* projects that can be reached, and Codex if installed
    block,       \* the block each file carries
    ledger,      \* the manifest's Rules, Seeds and Globals
    lock,        \* the process holding the run lock
    run,         \* each process's variables
    events,      \* events so far
    untracked,   \* history: entries a fault or the developer left unledgered
    left,        \* history: files that the removal of a project did not reach
    unseen       \* history: files changed behind the run's back, or passed
                 \* by in a directory it could not read

vars == <<entitled, registered, present, block, ledger, lock, run, events,
          untracked, left, unseen>>

disk == <<registered, block, ledger>>
world == <<entitled, present, events>>
history == <<untracked, left, unseen>>

NoRules == [rule |-> None, targets |-> {}, global |-> None,
            seed |-> None, scope |-> "user"]

NotRunning == [pc |-> "idle", cmd |-> None, want |-> NoRules, projs |-> {},
               live |-> {}, old |-> {}, todo |-> {}, keep |-> {}, hold |-> {},
               stat |-> None, clean |-> TRUE]

Contents == Bodies \cup {Import, Edited, Broken, Headless, None}

Runs == [pc : {"idle", "fetch", "seeds", "swrite", "sstrip", "rules", "rwrite", "gwrite",
               "gstrip", "rstrip", "report", "pseeds", "prules", "drop"},
         cmd : Projects \cup {None}, want : Served, projs : SUBSET Projects,
         live : SUBSET (Projects \cup {Codex}),
         old : SUBSET Entries, todo : SUBSET Entries, keep : SUBSET Entries, hold : SUBSET Entries,
         stat : Projects \cup {None}, clean : BOOLEAN]

TypeOK ==
    /\ entitled \in Entitlements
    /\ registered \subseteq Projects /\ present \subseteq Projects \cup {Codex}
    /\ block \in [Files -> Contents]
    /\ ledger \subseteq Entries /\ untracked \subseteq Entries
    /\ left \subseteq Files /\ unseen \subseteq Files
    /\ lock \in Procs \cup {None} /\ events \in 0..MaxEvents
    /\ run \in [Procs -> Runs]

Init ==
    /\ entitled \in Entitlements
    /\ registered = {} /\ present = Projects \cup {Codex}
    /\ block = [f \in Files |-> None]
    /\ ledger = {} /\ untracked = {} /\ left = {} /\ unseen = {}
    /\ lock = None /\ events = 0
    /\ run = [r \in Procs |-> NotRunning]

-----------------------------------------------------------------------------
(* What a run wants and what it may reach. *)

At(r, pc) == run[r].pc = pc

Reachable(root) == root = Home \/ root \in present

(* rulesFor: the rules without tags, or with one of the project's. *)
RuleApplies(w, p) == w.rule # None /\ p \in w.targets

(* The block each file should carry, given what is served and the roots the *)
(* pass found live: seeds by scope, global rules, a project's rules and the *)
(* import of its AGENTS.md.                                                 *)
Desired(w, live, f) ==
    IF Root(f) # Home /\ Root(f) \notin live THEN None
    ELSE IF f \in Seeds
         THEN IF (w.scope = "user") <=> (Root(f) = Home) THEN w.seed ELSE None
    ELSE IF f \in Globals THEN w.global
    ELSE IF ~RuleApplies(w, Root(f)) THEN None
    ELSE IF f[2] = "AGENTS.md" THEN w.rule ELSE Import

Wanted(r, f) == Desired(run[r].want, run[r].live, f)

Targets(kind, w, live) ==
    {e \in kind : \E f \in FilesOf(e) : Desired(w, live, f) # None}

(* trustedSeedBoundary, trustedProjects, isTrustedGlobalRulesPath: what the *)
(* registered projects and the user's own directories vouch for.            *)
TrustedRoot(projs, root) == root \in projs \cup {Home, Codex}
Trusted(projs, e) == \A f \in FilesOf(e) : TrustedRoot(projs, Root(f))

(* scanSeedFiles under the sync root and the registered projects. A         *)
(* directory or file that cannot be read is passed by without a word.       *)
Scanned(projs, unread) ==
    {f \in Seeds \ unread : TrustedRoot(projs, Root(f)) /\ Reachable(Root(f))}

(* Entries with a block on disk that the given ledger does not name. *)
Unledgered(b, l) == {e \in Entries \ l : \E f \in FilesOf(e) : b[f] # None}

(* rulesMarkersHealthy, seedMarkersHealthy: a BEGIN with its END, or none.  *)
Healthy(c) == c \notin {Broken, Headless}
Malformed(e) == \E f \in FilesOf(e) : ~Healthy(block[f])

(* seedNamesIn, seedBeginRe: a seed is looked for by its BEGIN alone.       *)
HasBegin(c) == c \notin {None, Headless}

(* The strips warn of broken markers, but of a seed only if it has a BEGIN. *)
Refused(e) == \E f \in FilesOf(e) : /\ ~Healthy(block[f])
                                     /\ f \in Seeds => HasBegin(block[f])

(* The seed that a strip passes by, and takes to be gone. *)
Overlooked(e) == {f \in {e} \cap Seeds : block[f] = Headless}

(* Mutant: a block whose marker looks right is taken for unchanged. *)
mergeRules_TrustsMarker(c, body) == IF c = Edited THEN c ELSE body

(* The block is spliced in where there was none, and replaced when its body *)
(* or the sha in its marker is not the one wanted: an edit is undone.       *)
mergeRules(c, body) == body
mergeSeed(c, body) == body

(* What a file that could be read and written carries after a merge, and    *)
(* after a strip: broken markers are left as they are.                      *)
mergeFile(f, body) ==
    IF ~Healthy(block[f]) THEN block[f]
    ELSE IF f \in Seeds THEN mergeSeed(block[f], body) ELSE mergeRules(block[f], body)

stripFile(f) == IF Healthy(block[f]) THEN None ELSE block[f]

(* One entry's files, each on its own; bad are the ones that failed. *)
Merged(r, e, bad) ==
    [f \in Files |-> IF f \in FilesOf(e) \ bad THEN mergeFile(f, Wanted(r, f))
                                               ELSE block[f]]
Stripped(e, bad) ==
    [f \in Files |-> IF f \in FilesOf(e) \ bad THEN stripFile(f) ELSE block[f]]

(* A fault counts as an event; a root out of reach fails by itself. *)
Fault(bad) ==
    /\ bad # {} => events < MaxEvents
    /\ events' = IF bad = {} THEN events ELSE events + 1

End(r) ==
    /\ lock' = None
    /\ run' = [run EXCEPT ![r] = NotRunning]

-----------------------------------------------------------------------------
(* One sync: syncOnce, reconcileAll, ReconcileSeeds, ReconcileRules.        *)

(* syncOnce takes the run lock; a process that finds it taken gives up.     *)
BeginSync(r) ==
    /\ At(r, "idle") /\ lock = None
    /\ lock' = r
    /\ run' = [run EXCEPT ![r].pc = "fetch"]
    /\ unseen' = {}
    /\ UNCHANGED <<disk, world, untracked, left>>

(* FetchArtifacts and LoadProjects; the file reconciler runs next.          *)
Fetch(r) ==
    /\ At(r, "fetch")
    /\ run' = [run EXCEPT ![r].pc = "seeds", ![r].want = entitled,
                          ![r].projs = registered]
    /\ UNCHANGED <<disk, world, lock, history>>

(* No token, no answer, an unreadable projects file or manifest: the run    *)
(* ends before the pass writes anything.                                    *)
Abort(r) ==
    /\ run[r].pc \in {"fetch", "seeds", "rules"}
    /\ events < MaxEvents /\ events' = events + 1
    /\ End(r)
    /\ UNCHANGED <<entitled, present, disk, history>>

(* A registered project that cannot be reached is skipped with a warning.   *)
Live(r) == present \cap (run[r].projs \cup {Codex})

BeginSeeds(r) ==
    /\ At(r, "seeds")
    /\ run' = [run EXCEPT
          ![r].pc = "swrite", ![r].live = Live(r), ![r].old = ledger,
          ![r].todo = Targets(Seeds, run[r].want, Live(r)),
          ![r].keep = {}, ![r].hold = {},
          ![r].clean = run[r].projs \subseteq present]
    /\ UNCHANGED <<disk, world, lock, history>>

(* Mutant: a failed write gives up the entry. *)
KeptAfterWrite_Forgets(r, e, ok) == IF ok THEN {e} ELSE {}

(* What a write leaves in the ledger: a failed rules write keeps its entry  *)
(* always, a failed seed only one it had.                                   *)
KeptAfterWrite(r, e, ok) == IF ok \/ e \notin Seeds THEN {e} ELSE {e} \cap run[r].old

(* Mutant: a project whose write failed is open to the strip pass. *)
HeldFromStrip_OnlyWritten(e, ok) == IF ok THEN {e} ELSE {}

(* What the strip pass must not visit: what was written, and what failed,   *)
(* but not a user-level file that failed.                                   *)
HeldFromStrip(e, ok) == IF ok \/ e \notin Globals THEN {e} ELSE {}

WriteEntry(r, e, bad) ==
    /\ e \in run[r].todo
    /\ block' = Merged(r, e, bad)
    /\ run' = [run EXCEPT
          ![r].todo = @ \ {e},
          ![r].keep = @ \cup KeptAfterWrite(r, e, bad = {}),
          ![r].hold = @ \cup HeldFromStrip(e, bad = {}),
          ![r].clean = @ /\ bad = {} /\ ~Malformed(e)]
    /\ UNCHANGED <<entitled, registered, present, ledger, lock, history>>

(* openRootedOptional: the directory is there. *)
InReach(e) == \A f \in FilesOf(e) : Reachable(Root(f))

(* A write that succeeds or fails, file by file; no file of a root that     *)
(* vanished since the pass began can be written.                            *)
WriteOrFail(r, e) ==
    IF InReach(e)
    THEN \E bad \in SUBSET FilesOf(e) : Fault(bad) /\ WriteEntry(r, e, bad)
    ELSE WriteEntry(r, e, FilesOf(e)) /\ UNCHANGED events

WriteSeed(r, e) == At(r, "swrite") /\ WriteOrFail(r, e)
WriteRulesToProject(r, p) == At(r, "rwrite") /\ WriteOrFail(r, p)
WriteGlobalRules(r, e) == At(r, "gwrite") /\ WriteOrFail(r, e)

BeginSeedStrip(r) ==
    /\ At(r, "swrite") /\ run[r].todo = {}
    /\ LET mine == run[r].old \cap Seeds
           strange == {e \in mine : ~Trusted(run[r].projs, e)}
           strays == Scanned(run[r].projs, {}) \ (run[r].old \cup run[r].hold)
       IN  \E unread \in SUBSET strays :
              /\ Fault(unread)
              /\ unseen' = unseen \cup unread
              /\ run' = [run EXCEPT
                    ![r].pc = "sstrip",
                    ![r].todo = ((mine \ strange) \cup Scanned(run[r].projs, unread))
                                    \ run[r].hold,
                    ![r].keep = @ \cup strange,
                    ![r].clean = @ /\ strange = {}]
    /\ UNCHANGED <<entitled, present, disk, lock, untracked, left>>

(* An entry is dropped when no file of it failed or was warned of. *)
StripEntry(r, e, bad) ==
    /\ e \in run[r].todo
    /\ block' = Stripped(e, bad)
    /\ LET left_ == bad # {} \/ Refused(e) IN
       /\ run' = [run EXCEPT
             ![r].todo = @ \ {e}, ![r].stat = None,
             ![r].keep = @ \cup (IF left_ THEN {e} \cap run[r].old ELSE {}),
             ![r].clean = @ /\ ~left_]
       /\ untracked' = IF left_ THEN untracked ELSE untracked \cup Overlooked(e)
    /\ UNCHANGED <<entitled, registered, present, ledger, lock, left, unseen>>

StripOrFail(r, e) ==
    /\ InReach(e)
    /\ \E bad \in SUBSET FilesOf(e) : Fault(bad) /\ StripEntry(r, e, bad)

StripSeed(r, e) == At(r, "sstrip") /\ StripOrFail(r, e)
StripGlobalRules(r, e) == At(r, "gstrip") /\ StripOrFail(r, e)
StripRulesFromProject(r, p) ==
    /\ At(r, "rstrip") /\ run[r].stat = p
    /\ StripOrFail(r, p)

(* The seed of an unreachable project stays in the ledger. *)
SeedRootGone(r, e) ==
    /\ At(r, "sstrip") /\ e \in run[r].todo /\ ~InReach(e)
    /\ run' = [run EXCEPT ![r].todo = @ \ {e}, ![r].clean = FALSE,
                          ![r].keep = @ \cup ({e} \cap run[r].old)]
    /\ UNCHANGED <<disk, world, lock, history>>

(* saveManifest at the end of a pass replaces that pass's part. *)
Saved(r) == IF At(r, "sstrip") THEN (run[r].old \ Seeds) \cup run[r].keep
                               ELSE (run[r].old \cap Seeds) \cup run[r].keep

PassDone(r) == /\ run[r].pc \in {"sstrip", "rstrip"}
               /\ run[r].todo = {} /\ run[r].stat = None

AfterPass(r) == IF At(r, "sstrip") THEN "rules" ELSE "report"

SaveManifest(r) ==
    /\ PassDone(r)
    /\ ledger' = Saved(r)
    /\ untracked' = untracked \cap Unledgered(block, ledger')
    /\ run' = [run EXCEPT ![r].pc = AfterPass(r), ![r].old = {},
                          ![r].keep = {}, ![r].hold = {}]
    /\ UNCHANGED <<world, registered, block, lock, left, unseen>>

SaveFails(r) ==
    /\ PassDone(r)
    /\ events < MaxEvents /\ events' = events + 1
    /\ untracked' = untracked \cup Unledgered(block, ledger)
    /\ run' = [run EXCEPT ![r].pc = AfterPass(r), ![r].old = {},
                          ![r].keep = {}, ![r].hold = {}, ![r].clean = FALSE]
    /\ UNCHANGED <<entitled, present, disk, lock, left, unseen>>

(* A registered project out of reach keeps its entry and is not stripped.   *)
BeginRules(r) ==
    /\ At(r, "rules")
    /\ LET away == (ledger \cap run[r].projs) \ present IN
       run' = [run EXCEPT
          ![r].pc = "rwrite", ![r].live = Live(r), ![r].old = ledger,
          ![r].todo = Targets(Projects, run[r].want, Live(r)),
          ![r].keep = away, ![r].hold = away,
          ![r].clean = @ /\ run[r].projs \subseteq present]
    /\ UNCHANGED <<disk, world, lock, history>>

(* reconcileGlobalRules: ~/.codex is a target only while it exists. *)
BeginGlobals(r) ==
    /\ At(r, "rwrite") /\ run[r].todo = {}
    /\ LET live == (run[r].live \ {Codex}) \cup (present \cap {Codex}) IN
       run' = [run EXCEPT ![r].pc = "gwrite", ![r].live = live,
                          ![r].todo = Targets(Globals, run[r].want, live)]
    /\ UNCHANGED <<disk, world, lock, history>>

BeginGlobalStrip(r) ==
    /\ At(r, "gwrite") /\ run[r].todo = {}
    /\ run' = [run EXCEPT ![r].pc = "gstrip",
                          ![r].todo = (run[r].old \cap Globals) \ run[r].hold]
    /\ UNCHANGED <<disk, world, lock, history>>

(* stripGlobalRules: the tool was uninstalled and the block went with it. *)
GlobalRootGone(r, e) ==
    /\ At(r, "gstrip") /\ e \in run[r].todo /\ ~InReach(e)
    /\ run' = [run EXCEPT ![r].todo = @ \ {e}]
    /\ UNCHANGED <<disk, world, lock, history>>

(* The strip pass over m.Rules: an entry for a project that is not          *)
(* registered is kept and not touched.                                     *)
BeginRuleStrip(r) ==
    /\ At(r, "gstrip") /\ run[r].todo = {}
    /\ LET mine == (run[r].old \cap Projects) \ run[r].hold
           strange == {e \in mine : ~Trusted(run[r].projs, e)}
       IN  run' = [run EXCEPT ![r].pc = "rstrip", ![r].todo = mine \ strange,
                              ![r].keep = @ \cup strange,
                              ![r].clean = @ /\ strange = {}]
    /\ UNCHANGED <<disk, world, lock, history>>

StatProject(r, p) ==
    /\ At(r, "rstrip") /\ p \in run[r].todo /\ run[r].stat = None
    /\ run' = IF Reachable(p)
              THEN [run EXCEPT ![r].stat = p]
              ELSE [run EXCEPT ![r].todo = @ \ {p}, ![r].keep = @ \cup {p},
                               ![r].clean = FALSE]
    /\ UNCHANGED <<disk, world, lock, history>>

(* The project went away between the stat and the open: stripRulesFromProject *)
(* takes it for a project with nothing to strip, and the entry is dropped.  *)
ProjectGone(r, p) ==
    /\ At(r, "rstrip") /\ run[r].stat = p /\ ~Reachable(p)
    /\ run' = [run EXCEPT ![r].todo = @ \ {p}, ![r].stat = None]
    /\ untracked' = untracked \cup {p}
    /\ UNCHANGED <<disk, world, lock, left, unseen>>

(* The outcome is reported and the lock released; --watch syncs again.      *)
Finish(r) ==
    /\ At(r, "report")
    /\ End(r)
    /\ UNCHANGED <<disk, world, history>>

-----------------------------------------------------------------------------
(* orbeat-sync project add and project remove.                              *)

AddProject(r, p) ==
    /\ At(r, "idle") /\ lock = None
    /\ Reachable(p)
    /\ registered' = registered \cup {p}
    /\ left' = left \ Under(p)
    /\ UNCHANGED <<world, block, ledger, lock, run, untracked, unseen>>

(* Strip before de-registering; a project out of reach is only dropped.     *)
BeginRemove(r, p) ==
    /\ At(r, "idle") /\ lock = None /\ p \in registered
    /\ lock' = r
    /\ run' = [run EXCEPT ![r].cmd = p, ![r].clean = Reachable(p),
                          ![r].pc = IF Reachable(p) THEN "pseeds" ELSE "drop"]
    /\ UNCHANGED <<disk, world, history>>

(* Mutant: the command goes on after a strip that failed. *)
StripForRemoval_GoesOn(r, e, next) ==
    /\ InReach(e)
    /\ \E bad \in SUBSET FilesOf(e) :
          /\ Fault(bad)
          /\ block' = Stripped(e, bad)
          /\ left' = {f \in left : block'[f] # None}
          /\ ledger' = IF bad # {} \/ Refused(e) THEN ledger ELSE ledger \ {e}
    /\ run' = [run EXCEPT ![r].pc = next]
    /\ UNCHANGED <<entitled, present, registered, lock, untracked, unseen>>

(* Every file is tried, the manifest is saved in any case, and an error     *)
(* ends the command before the project is dropped. A seed without a ledger  *)
(* entry is found only if its directory can be read.                        *)
StripForRemoval(r, e, next) ==
    /\ InReach(e)
    /\ \E bad \in SUBSET FilesOf(e), saves \in BOOLEAN, unread \in SUBSET (({e} \cap Seeds) \ ledger) :
          /\ Fault(IF saves THEN bad \cup unread ELSE {e})
          /\ block' = Stripped(e, bad \cup unread)
          /\ left' = {f \in left \cup unread : block'[f] # None}
          /\ LET kept == bad # {} \/ Refused(e) \/ ~saves IN
             /\ ledger' = IF kept THEN ledger ELSE ledger \ {e}
             /\ untracked' = IF kept THEN untracked ELSE untracked \cup Overlooked(e)
          /\ IF bad = {} /\ saves
             THEN run' = [run EXCEPT ![r].pc = next] /\ UNCHANGED lock
             ELSE End(r)
    /\ UNCHANGED <<entitled, present, registered, unseen>>

(* The root vanished after the stat: nothing is stripped, no error, and the *)
(* entry goes.                                                              *)
RemovalRootGone(r, e, next) ==
    /\ ~InReach(e)
    /\ ledger' = ledger \ {e}
    /\ untracked' = untracked \cup {e}
    /\ run' = [run EXCEPT ![r].pc = next, ![r].clean = FALSE]
    /\ UNCHANGED <<world, registered, block, lock, left, unseen>>

StripProjectSeeds(r) ==
    LET e == <<run[r].cmd, "MEMORY.md">> IN
    /\ At(r, "pseeds")
    /\ StripForRemoval(r, e, "prules") \/ RemovalRootGone(r, e, "prules")

StripProjectRules(r) ==
    LET e == run[r].cmd IN
    /\ At(r, "prules")
    /\ StripForRemoval(r, e, "drop") \/ RemovalRootGone(r, e, "drop")

DropProject(r) ==
    /\ At(r, "drop")
    /\ registered' = registered \ {run[r].cmd}
    /\ left' = IF run[r].clean THEN left ELSE left \cup Under(run[r].cmd)
    /\ End(r)
    /\ UNCHANGED <<world, block, ledger, untracked, unseen>>

-----------------------------------------------------------------------------
(* The world around it. *)

Event == events < MaxEvents /\ events' = events + 1

(* The kernel releases a dead process's flock. *)
Crash(r) ==
    /\ ~At(r, "idle") /\ Event
    /\ End(r)
    /\ untracked' = untracked \cup Unledgered(block, ledger)
    /\ UNCHANGED <<entitled, present, disk, left, unseen>>

(* A crash between a project's AGENTS.md and its CLAUDE.md. *)
CrashMidProject(r, p) ==
    /\ At(r, "rwrite") /\ p \in run[r].todo /\ Reachable(p) /\ Event
    /\ block' = Merged(r, p, {<<p, "CLAUDE.md">>})
    /\ End(r)
    /\ untracked' = untracked \cup Unledgered(block', ledger)
    /\ UNCHANGED <<entitled, present, registered, ledger, left, unseen>>

(* The developer edits a block, mangles its markers, repairs or deletes it, *)
(* or a checkout brings one into a project.                                 *)
DeveloperEdits(f, c) ==
    /\ Reachable(Root(f)) /\ block[f] # c /\ Event
    /\ IF block[f] = None
       THEN c \in Bodies /\ Root(f) \in Projects
       ELSE c \in {Edited, Broken, None} \cup {d \in {Headless} : f \in Seeds}
    /\ block' = [block EXCEPT ![f] = c]
    /\ untracked' = IF block[f] = None THEN untracked \cup {EntryOf(f)} ELSE untracked
    /\ left' = left \cup {f}
    /\ unseen' = unseen \cup {f}
    /\ UNCHANGED <<entitled, present, registered, ledger, lock, run>>

(* A volume is mounted or unmounted; Codex is installed, or uninstalled     *)
(* with everything in its directory.                                        *)
RootChanges(x) ==
    /\ Event
    /\ present' = IF x \in present THEN present \ {x} ELSE present \cup {x}
    /\ block' = IF x = Codex /\ x \in present
                THEN [block EXCEPT ![<<Codex, "AGENTS.md">>] = None] ELSE block
    /\ unseen' = unseen \cup Under(x)
    /\ UNCHANGED <<entitled, registered, ledger, lock, run, untracked, left>>

EntitlementChanges ==
    /\ Event
    /\ entitled' \in Entitlements \ {entitled}
    /\ UNCHANGED <<present, disk, lock, run, history>>

SyncStep(r) ==
    \/ BeginSync(r) \/ Fetch(r) \/ Abort(r)
    \/ BeginSeeds(r) \/ BeginSeedStrip(r) \/ BeginRules(r) \/ BeginGlobals(r)
    \/ BeginGlobalStrip(r) \/ BeginRuleStrip(r)
    \/ \E e \in Seeds : WriteSeed(r, e) \/ StripSeed(r, e) \/ SeedRootGone(r, e)
    \/ \E e \in Globals : WriteGlobalRules(r, e) \/ StripGlobalRules(r, e)
                          \/ GlobalRootGone(r, e)
    \/ \E p \in Projects : WriteRulesToProject(r, p) \/ StatProject(r, p)
                           \/ StripRulesFromProject(r, p) \/ ProjectGone(r, p)
    \/ SaveManifest(r) \/ SaveFails(r) \/ Finish(r)

CommandStep(r) ==
    \/ \E p \in Projects : AddProject(r, p) \/ BeginRemove(r, p)
    \/ StripProjectSeeds(r) \/ StripProjectRules(r) \/ DropProject(r)

Next ==
    \/ \E r \in Procs : SyncStep(r) \/ CommandStep(r) \/ Crash(r)
                        \/ \E p \in Projects : CrashMidProject(r, p)
    \/ \E f \in Files, c \in Contents : DeveloperEdits(f, c)
    \/ \E x \in Projects \cup {Codex} : RootChanges(x)
    \/ EntitlementChanges

Spec == Init /\ [][Next]_vars

-----------------------------------------------------------------------------
(* orbeat-sync doctor: Diagnose, over what is on disk, where it can read.   *)

UnreachableProjects == registered \ present

(* checkStrandedEntries walks the Seeds ledger only. *)
StrandedSeeds == {f \in Seeds \cap ledger : /\ ~Trusted(registered, f)
                                            /\ Reachable(Root(f))
                                            /\ HasBegin(block[f])}

PreservedRoots == {p \in Projects \ present :
                      (p \in ledger \/ <<p, "MEMORY.md">> \in ledger)}

RulesFiles == UNION {FilesOf(p) : p \in registered \cap present}

OrphanedSeeds == {f \in Scanned(registered, {}) \ ledger : HasBegin(block[f])}

(* Mutant: the project is looked up under its file's name. *)
OrphanedRules_ByFile == {f \in RulesFiles : /\ HasBegin(block[f]) /\ Healthy(block[f])
                                            /\ f \in ledger}

OrphanedRules == {f \in RulesFiles : /\ HasBegin(block[f]) /\ Healthy(block[f])
                                     /\ Root(f) \notin ledger}

(* checkMarkers goes through the ledger; a seed without an entry gets its   *)
(* finding with that of the orphan.                                         *)
BadMarkers == {f \in RulesFiles \cup OrphanedSeeds
                     \cup {e \in Seeds \cap ledger : Reachable(Root(e))} :
                  ~Healthy(block[f])}

Named(f) ==
    \/ Root(f) \in UnreachableProjects \cup PreservedRoots
    \/ f \in StrandedSeeds \cup OrphanedSeeds \cup OrphanedRules \cup BadMarkers

-----------------------------------------------------------------------------
(* Properties. *)

Quiet == lock = None

(* The ledger is all the rules strip pass has: between runs every block on  *)
(* disk is named by it, unless a crash, a failed save, a root that vanished *)
(* under the strip or the developer left it out, or the strip overlooked a  *)
(* seed that had lost its BEGIN line. A failed or skipped write, an         *)
(* unreachable or unknown project, other bad markers never lose an entry.   *)
BlocksTracked ==
    Quiet => \A e \in Unledgered(block, ledger) : e \in untracked

(* A project leaves projects.json only once its blocks are stripped: after  *)
(* it, none is intact unless the project, or the directory of a seed that   *)
(* had no ledger entry, could not be read or the developer put it back. No  *)
(* sync writes into a project being removed.                                *)
RemovedIsClean ==
    \A p \in Projects \ registered : \A f \in Under(p) :
        block[f] = None \/ ~Healthy(block[f]) \/ f \in left

(* A run that ends without a failure and without a warning leaves every     *)
(* file it is responsible for with exactly the block that is served, no     *)
(* block where nothing is. Two leftovers pass without a warning: a seed     *)
(* whose BEGIN line is gone, which the strip does not see, and a block that *)
(* the ledger had lost, where the strip works from the ledger alone or, for *)
(* a seed, its scan could not read the directory (unseen).                  *)
CleanRunSettles ==
    \A r \in Procs : At(r, "report") /\ run[r].clean =>
        \A f \in Files \ unseen :
            Root(f) \in run[r].live \cup {Home} =>
                \/ block[f] = Wanted(r, f)
                \/ /\ Wanted(r, f) = None
                   /\ IF f \in Seeds THEN block[f] = Headless
                      ELSE EntryOf(f) \in untracked

StripsWanted(kind) ==
    \E r \in Procs : \E f \in kind :
        /\ run[r].pc \in {"sstrip", "gstrip", "rstrip"} /\ run'[r].pc = run[r].pc
        /\ block[f] # None /\ block'[f] = None
        /\ run'[r].todo # run[r].todo
        /\ Wanted(r, f) # None

(* A sync never takes away a project's block or a seed that it was served   *)
(* and should have written, however the write went.                         *)
EntitledKept == [][~StripsWanted(Files \ Globals)]_vars

(* The same of the user-level files (reconcileGlobalRules).                 *)
GlobalsKept == [][~StripsWanted(Globals)]_vars

(* Between runs, a block in a registered project or under the sync root, or *)
(* a seed the ledger names, is one the next sync can strip, or doctor names *)
(* the file or its project. (Rules in a project that is not registered, the *)
(* user-level files, and a seed without BEGIN line and without a ledger     *)
(* entry are outside doctor's checks.)                                      *)
DoctorComplete ==
    Quiet => \A f \in Files \ Globals :
        /\ block[f] # None
        /\ TrustedRoot(registered, Root(f)) \/ f \in ledger
        /\ f \in Seeds /\ block[f] = Headless => f \in ledger
        => \/ /\ TrustedRoot(registered, Root(f)) /\ Reachable(Root(f))
              /\ Healthy(block[f])
              /\ EntryOf(f) \in ledger \/ f \in Seeds
           \/ Named(f)
=============================================================================
