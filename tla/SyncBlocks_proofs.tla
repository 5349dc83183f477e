------------------------- MODULE SyncBlocks_proofs -------------------------
(***************************************************************************)
(* The blocks in the developer's files, proved for any number of projects,  *)
(* processes and faults: the ledger names every block, a removed project is *)
(* clean, a clean run delivers what is served, a sync takes nothing away    *)
(* that it was served, and doctor names what no sync will strip.            *)
(*                                                                          *)
(* A run keeps its own account of a pass (todo, keep, hold) and the ledger  *)
(* is saved at its end, so the invariant says for each phase what that      *)
(* account is worth: RunInv, of the one process that holds the lock.        *)
(***************************************************************************)
EXTENDS SyncBlocks, TLAPS

-----------------------------------------------------------------------------
(* Entries and files *)

(* The three kinds of ledger entries have nothing in common. *)
LEMMA KindsApart ==
  /\ Seeds \cap Projects = {} /\ Globals \cap Projects = {} /\ Seeds \cap Globals = {}
  /\ Seeds \subseteq Entries /\ Globals \subseteq Entries /\ Projects \subseteq Entries
  /\ \A e \in Entries : e \in Projects \/ e \in Seeds \/ e \in Globals
  <1>1. Seeds \cap Projects = {} /\ Globals \cap Projects = {}
    BY BlocksAssumption DEF Seeds, Globals
  <1>2. Seeds \cap Globals = {}
    BY DEF Seeds, Globals
  <1> QED BY <1>1, <1>2 DEF Entries

(* A project's two rules files are in it; any other entry is its own file. *)
LEMMA FilesOfEntry ==
  /\ \A p \in Projects : /\ FilesOf(p) = {<<p, "AGENTS.md">>, <<p, "CLAUDE.md">>}
                         /\ \A f \in FilesOf(p) : Root(f) = p
  /\ \A e \in Seeds \cup Globals : FilesOf(e) = {e}
  /\ \A e \in Seeds : Root(e) \in Projects \cup {Home}
  /\ \A e \in Globals : Root(e) \in {Home, Codex}
  /\ \A e \in Entries : FilesOf(e) \subseteq Files /\ FilesOf(e) # {}
  <1>1. \A p \in Projects : /\ FilesOf(p) = {<<p, "AGENTS.md">>, <<p, "CLAUDE.md">>}
                            /\ \A f \in FilesOf(p) : Root(f) = p
    BY DEF FilesOf, Root
  <1>2. \A e \in Seeds \cup Globals : FilesOf(e) = {e}
    BY KindsApart DEF FilesOf
  <1>3. \A e \in Seeds : Root(e) \in Projects \cup {Home}
    BY DEF Seeds, Root
  <1>4. \A e \in Globals : Root(e) \in {Home, Codex}
    BY DEF Globals, Root
  <1>5. \A e \in Entries : FilesOf(e) \subseteq Files
    BY DEF Files
  <1>6. \A e \in Entries : FilesOf(e) # {}
    BY DEF FilesOf
  <1> QED BY <1>1, <1>2, <1>3, <1>4, <1>5, <1>6

(* No file belongs to two entries. *)
LEMMA FileHasOneEntry ==
  ASSUME NEW d \in Entries, NEW e \in Entries, NEW f \in FilesOf(d), f \in FilesOf(e)
  PROVE  d = e
  <1>1. CASE d \in Projects /\ e \in Projects
    BY <1>1, FilesOfEntry
  <1>2. CASE d \in Seeds \cup Globals /\ e \in Seeds \cup Globals
    BY <1>2, FilesOfEntry
  <1>3. \A p \in Projects, g \in Seeds \cup Globals : g \notin FilesOf(p)
    <2> SUFFICES ASSUME NEW p \in Projects, NEW g \in Seeds \cup Globals, g \in FilesOf(p)
                 PROVE  FALSE
      OBVIOUS
    <2>1. g \in {<<p, "AGENTS.md">>, <<p, "CLAUDE.md">>} /\ Root(g) = p
      BY FilesOfEntry
    <2>2. CASE g \in Seeds
      BY <2>1, <2>2 DEF Seeds
    <2>3. CASE g \in Globals
      BY <2>1, <2>3, FilesOfEntry, BlocksAssumption
    <2> QED BY <2>2, <2>3
  <1> QED BY <1>1, <1>2, <1>3, KindsApart, FilesOfEntry

(* EntryOf finds it. *)
LEMMA EntryOfFile ==
  /\ \A f \in Files : EntryOf(f) \in Entries /\ f \in FilesOf(EntryOf(f))
  /\ \A e \in Entries : \A f \in FilesOf(e) : EntryOf(f) = e
  <1>1. \A f \in Files : \E e \in Entries : f \in FilesOf(e)
    BY DEF Files
  <1>2. \A f \in Files : EntryOf(f) \in Entries /\ f \in FilesOf(EntryOf(f))
    BY <1>1 DEF EntryOf
  <1> QED BY <1>2, FileHasOneEntry, FilesOfEntry

(* The files of a project's directory: its rules files and its seed. *)
LEMMA FilesUnder ==
  ASSUME NEW p \in Projects, NEW f \in Files
  PROVE  Root(f) = p <=> f \in FilesOf(p) \cup {<<p, "MEMORY.md">>}
  <1>1. EntryOf(f) \in Entries /\ f \in FilesOf(EntryOf(f))
    BY EntryOfFile
  <1>2. CASE EntryOf(f) \in Projects
    <2>1. f \in FilesOf(p) <=> EntryOf(f) = p
      BY <1>1, EntryOfFile, KindsApart
    <2>2. Root(f) = EntryOf(f)
      BY <1>1, <1>2, FilesOfEntry
    <2>3. f # <<p, "MEMORY.md">>
      BY <1>1, <1>2, FilesOfEntry
    <2> QED BY <2>1, <2>2, <2>3
  <1>3. CASE EntryOf(f) \in Seeds
    <2>1. f \in Seeds
      BY <1>1, <1>3, FilesOfEntry
    <2>2. PICK root \in Projects \cup {Home} : f = <<root, "MEMORY.md">>
      BY <2>1 DEF Seeds
    <2>3. Root(f) = root
      BY <2>2 DEF Root
    <2>4. f \notin FilesOf(p)
      BY <2>2, FilesOfEntry
    <2> QED BY <2>2, <2>3, <2>4
  <1>4. CASE EntryOf(f) \in Globals
    <2>1. f \in Globals
      BY <1>1, <1>4, FilesOfEntry
    <2>2. Root(f) # p
      BY <2>1, FilesOfEntry, BlocksAssumption
    <2>3. f # <<p, "MEMORY.md">> /\ f \notin FilesOf(p)
      BY <2>1, <2>2, FilesOfEntry DEF Globals
    <2> QED BY <2>2, <2>3
  <1> QED BY <1>1, <1>2, <1>3, <1>4, KindsApart

(* What is desired in a file is a body or nothing, and only under a root    *)
(* that is live. It depends on the live roots only through the file's own.  *)
LEMMA DesiredFacts ==
  ASSUME NEW w \in Served, NEW f \in Files
  PROVE  /\ \A live : Desired(w, live, f) \in Bodies \cup {Import, None}
         /\ \A live : Desired(w, live, f) # None => Root(f) \in live \cup {Home}
         /\ \A l, m : (Root(f) \in l <=> Root(f) \in m) => Desired(w, l, f) = Desired(w, m, f)
  <1>1. w.rule \in Bodies \cup {None} /\ w.global \in Bodies \cup {None} /\ w.seed \in Bodies \cup {None}
    BY DEF Served
  <1>2. \A live : Desired(w, live, f) \in Bodies \cup {Import, None}
    BY <1>1 DEF Desired
  <1>3. \A live : Desired(w, live, f) # None => Root(f) \in live \cup {Home}
    BY DEF Desired
  <1>4. \A l, m : (Root(f) \in l <=> Root(f) \in m) => Desired(w, l, f) = Desired(w, m, f)
    BY DEF Desired
  <1> QED BY <1>2, <1>3, <1>4

(* An entry is a target when any of its files is to carry a block; all of   *)
(* them are then.                                                           *)
LEMMA TargetFiles ==
  ASSUME NEW w \in Served, NEW live, NEW kind, kind \subseteq Entries,
         NEW e \in kind, NEW f \in FilesOf(e)
  PROVE  e \in Targets(kind, w, live) <=> Desired(w, live, f) # None
  <1>1. CASE e \in Projects
    <2>1. \A g \in FilesOf(e) : g \notin Seeds /\ g \notin Globals /\ Root(g) = e
      BY <1>1, FilesOfEntry, EntryOfFile, KindsApart
    <2>2. \A g \in FilesOf(e) : Desired(w, live, g) # None <=>
            (e = Home \/ e \in live) /\ RuleApplies(w, e)
      BY <2>1, BlocksAssumption DEF Desired, RuleApplies
    <2> QED BY <2>2 DEF Targets
  <1>2. CASE e \in Seeds \cup Globals
    BY <1>2, FilesOfEntry DEF Targets
  <1> QED BY <1>1, <1>2, KindsApart

-----------------------------------------------------------------------------
(* The invariant *)

(* Entries with a block on disk. *)
HasBlock(e) == \E f \in FilesOf(e) : block[f] # None

Writing == {"swrite", "rwrite", "gwrite"}
Stripping == {"sstrip", "gstrip", "rstrip"}
Passing == Writing \cup Stripping

(* From BeginSeeds and from BeginRules on. *)
AfterSeeds == {"rules", "rwrite", "gwrite", "gstrip", "rstrip", "report"}
RulesPass == {"rwrite", "gwrite", "gstrip", "rstrip"}

(* The kind of entry a phase goes through, and the kinds that the pass's    *)
(* strip phases have taken up so far.                                       *)
KindOf(pc) == IF pc \in {"swrite", "sstrip"} THEN Seeds
              ELSE IF pc \in {"gwrite", "gstrip"} THEN Globals ELSE Projects

Visited(pc) == IF pc = "sstrip" THEN Seeds
               ELSE IF pc = "gstrip" THEN Globals
               ELSE IF pc = "rstrip" THEN Globals \cup Projects ELSE {}

Wants(x, kind) == Targets(kind, x.want, x.live)

(* The run x holds the lock of r, or does nothing. *)
Holds(r) == /\ run[r].pc # "idle" => lock = r
            /\ run[r].pc = "idle" => run[r] = NotRunning

(* In a pass, an entry with a block is going to be in the ledger, or was in *)
(* it and has yet to be visited.                                            *)
Tracked(x) ==
    \A e \in Entries : HasBlock(e) =>
        \/ e \in x.keep \cup untracked
        \/ e \in x.old /\ (e \notin Visited(x.pc) \/ e \in x.todo)

PassInv(x) ==
    x.pc \in Passing =>
        /\ x.old = ledger
        /\ x.hold \cap x.old \subseteq x.keep
        /\ x.todo \subseteq KindOf(x.pc)
        /\ x.pc \in Writing => x.todo \subseteq Wants(x, KindOf(x.pc))
        /\ Tracked(x)

(* Between passes it is in the ledger. *)
Accounted == \A e \in Entries : HasBlock(e) => e \in ledger \cup untracked

BetweenPasses == (\A r \in Procs : run[r].pc \notin Passing) => Accounted

(* Codex is uninstalled with what is in its directory. *)
CodexGone == Codex \notin present => block[<<Codex, "AGENTS.md">>] = None

(* What is entitled is written or held back from the strip. *)
HeldInv(x) ==
    /\ x.pc = "swrite" => Wants(x, Seeds) \subseteq x.todo \cup x.hold
    /\ x.pc = "sstrip" => x.todo \cap Wants(x, Seeds) = {}
    /\ x.pc = "rwrite" => Wants(x, Projects) \subseteq x.todo \cup x.hold
    /\ x.pc \in {"gwrite", "gstrip"} => Wants(x, Projects) \subseteq x.hold
    /\ x.pc = "rstrip" => x.todo \cap Wants(x, Projects) = {}

(* A sync works on registered projects. *)
ScopeInv(x) ==
    /\ x.pc \in Passing \cup AfterSeeds \cup {"seeds"} => x.projs \subseteq registered
    /\ x.pc \in Passing \cup AfterSeeds => x.live \subseteq x.projs \cup {Codex}

(* A file with no intact block, or one that is accounted for. *)
Cleared(f) == block[f] = None \/ ~Healthy(block[f]) \/ f \in left

(* A removal knows its project, and what it stripped stays so. *)
Commanded(x) == x.pc \in {"pseeds", "prules", "drop"} => x.cmd \in Projects

RemovalInv(x) ==
    /\ x.pc \in {"prules", "drop"} /\ x.clean => Cleared(<<x.cmd, "MEMORY.md">>)
    /\ x.pc = "drop" /\ x.clean => \A f \in FilesOf(x.cmd) : Cleared(f)

(* The files whose root the run found live; nothing else changed them. *)
Minded(x) == {f \in Files \ unseen : Root(f) \in x.live \cup {Home}}

Want(x, f) == Desired(x.want, x.live, f)

(* What the pass found live still is, where nothing was touched. *)
LiveInv(x) ==
    x.pc \in Passing \cup AfterSeeds =>
        \A f \in Files \ unseen :
            Root(f) \in x.projs \cup {Codex} => (Root(f) \in present <=> Root(f) \in x.live)

(* A seed carries what is wanted, or the strip has overlooked it. *)
SeedSettled(x, f) == block[f] = Want(x, f) \/ (Want(x, f) = None /\ block[f] = Headless)

(* What a run without a failure has brought about so far. *)
SeedsSettle(x) ==
    x.clean =>
    /\ x.pc = "swrite" => /\ x.hold \subseteq Wants(x, Seeds)
                          /\ \A f \in Seeds \ unseen :
                                f \in Wants(x, Seeds) \ x.todo => block[f] = Want(x, f)
    /\ x.pc = "sstrip" => \A f \in Seeds \cap Minded(x) : SeedSettled(x, f) \/ f \in x.todo
    /\ x.pc \in AfterSeeds => \A f \in Seeds \cap Minded(x) : SeedSettled(x, f)

(* The same of the kind of entry that the rules pass writes at "write" and  *)
(* strips at "strip".                                                       *)
EntrySettled(x, e) ==
    \A f \in FilesOf(e) \cap Minded(x) :
        block[f] = Want(x, f) \/ (Want(x, f) = None /\ e \in untracked)

RulesSettle(x) ==
    x.clean =>
    /\ x.pc = "rwrite" => x.keep \cup x.hold \subseteq Wants(x, Projects)
    /\ x.pc \in {"gwrite", "gstrip", "rstrip"} =>
          x.keep \cup x.hold \subseteq Wants(x, Projects) \cup Wants(x, Globals)
    /\ x.pc = "gwrite" => Wants(x, Globals) \subseteq x.todo \cup x.hold
    /\ x.pc = "gstrip" => x.todo \cap Wants(x, Globals) = {}
    /\ x.pc \in RulesPass => \A p \in Wants(x, Projects) :
          (x.pc = "rwrite" => p \notin x.todo) => EntrySettled(x, p)
    /\ x.pc \in {"gwrite", "gstrip", "rstrip"} => \A g \in Wants(x, Globals) :
          (x.pc = "gwrite" => g \notin x.todo) => EntrySettled(x, g)
    /\ x.pc \in {"gstrip", "rstrip"} => \A g \in Globals :
          (x.pc = "gstrip" => g \notin x.todo) => EntrySettled(x, g)
    /\ x.pc = "rstrip" => \A p \in Projects : p \notin x.todo => EntrySettled(x, p)
    /\ x.pc = "report" => \A e \in Projects \cup Globals : EntrySettled(x, e)

RunInv(x) ==
    Commanded(x) /\ PassInv(x) /\ HeldInv(x) /\ ScopeInv(x) /\ RemovalInv(x) /\ LiveInv(x)
    /\ SeedsSettle(x) /\ RulesSettle(x)

BlocksInv ==
    /\ TypeOK
    /\ \A r \in Procs : Holds(r) /\ RunInv(run[r])
    /\ BetweenPasses /\ CodexGone /\ RemovedIsClean

-----------------------------------------------------------------------------
(* What each step does to the process that takes it *)

(* A process that is not running. *)
LEMMA NotRunningType == NotRunning \in Runs /\ NotRunning.pc = "idle"
  BY BlocksAssumption DEF NotRunning, NoRules, Runs, Served

(* y is x but for its place in a pass. *)
SamePass(x, y) == y.cmd = x.cmd /\ y.want = x.want /\ y.projs = x.projs

(* Targets are of their kind. *)
LEMMA TargetsKind == \A kind, w, live : Targets(kind, w, live) \subseteq kind
  BY DEF Targets

(* BeginSync. *)
LEMMA BeginMoves ==
  ASSUME TypeOK, NEW r \in Procs, BeginSync(r)
  PROVE  \E y \in Runs : run' = [run EXCEPT ![r] = y] /\ y.pc = "fetch"
  <1>0. run[r] \in Runs
    BY DEF TypeOK
  <1>1. PICK y : y = [run[r] EXCEPT !.pc = "fetch"]
    OBVIOUS
  <1>2. y \in Runs /\ y.pc = "fetch"
    BY <1>0, <1>1 DEF Runs
  <1>3. run' = [run EXCEPT ![r] = y]
    BY <1>1 DEF BeginSync, TypeOK
  <1> QED BY <1>2, <1>3

(* Fetch. *)
LEMMA FetchMoves ==
  ASSUME TypeOK, NEW r \in Procs, Fetch(r)
  PROVE  \E y \in Runs : run' = [run EXCEPT ![r] = y] /\ y.pc = "seeds" /\ y.projs = registered
  <1>0. run[r] \in Runs /\ entitled \in Served /\ registered \in SUBSET Projects
    BY BlocksAssumption DEF TypeOK
  <1>1. PICK y : y = [run[r] EXCEPT !.pc = "seeds", !.want = entitled, !.projs = registered]
    OBVIOUS
  <1>2. y \in Runs /\ y.pc = "seeds" /\ y.projs = registered
    BY <1>0, <1>1 DEF Runs
  <1>3. run' = [run EXCEPT ![r] = y]
    BY <1>1 DEF Fetch, TypeOK
  <1> QED BY <1>2, <1>3

(* BeginSeeds. *)
LEMMA BeginSeedsMoves ==
  ASSUME TypeOK, NEW r \in Procs, BeginSeeds(r)
  PROVE  \E y \in Runs :
           /\ run' = [run EXCEPT ![r] = y] /\ SamePass(run[r], y)
           /\ y.pc = "swrite" /\ y.live = Live(r) /\ y.old = ledger
           /\ y.todo = Targets(Seeds, y.want, y.live) /\ y.keep = {} /\ y.hold = {}
  <1>0. run[r] \in Runs /\ ledger \in SUBSET Entries
    BY DEF TypeOK
  <1>1. PICK l : l = Live(r)
    OBVIOUS
  <1>2. PICK t : t = Targets(Seeds, run[r].want, l)
    OBVIOUS
  <1>3. PICK c \in BOOLEAN : c = (run[r].projs \subseteq present)
    OBVIOUS
  <1>4. l \in SUBSET (Projects \cup {Codex}) /\ t \in SUBSET Entries
    BY <1>1, <1>2, TargetsKind, KindsApart DEF Live, TypeOK
  <1>5. PICK y : y = [run[r] EXCEPT !.pc = "swrite", !.live = l, !.old = ledger, !.todo = t,
                                    !.keep = {}, !.hold = {}, !.clean = c]
    OBVIOUS
  <1>6. /\ y \in Runs /\ SamePass(run[r], y) /\ y.pc = "swrite" /\ y.live = l /\ y.old = ledger
        /\ y.todo = t /\ y.keep = {} /\ y.hold = {}
    BY <1>0, <1>4, <1>5 DEF Runs, SamePass
  <1>7. run' = [run EXCEPT ![r] = y]
    BY <1>1, <1>2, <1>3, <1>5 DEF BeginSeeds, TypeOK
  <1> QED BY <1>1, <1>2, <1>6, <1>7 DEF SamePass

(* BeginSeedStrip. *)
StrangeSeeds(x) == {e \in x.old \cap Seeds : ~Trusted(x.projs, e)}
Strays(x) == Scanned(x.projs, {}) \ (x.old \cup x.hold)

(* The entries in the way are kept, the rest is scanned and stripped. *)
LEMMA BeginSeedStripMoves ==
  ASSUME TypeOK, NEW r \in Procs, BeginSeedStrip(r), NEW x, x = run[r]
  PROVE  \E y \in Runs, unread \in SUBSET Strays(x) :
           /\ Fault(unread) /\ unseen' = unseen \cup unread
           /\ run' = [run EXCEPT ![r] = y] /\ SamePass(x, y)
           /\ y.pc = "sstrip" /\ y.live = x.live /\ y.old = x.old /\ y.hold = x.hold
           /\ y.todo = (((x.old \cap Seeds) \ StrangeSeeds(x)) \cup Scanned(x.projs, unread))
                           \ x.hold
           /\ y.keep = x.keep \cup StrangeSeeds(x)
           /\ y.clean <=> (x.clean /\ StrangeSeeds(x) = {})
  <1>0. x \in Runs
    BY DEF TypeOK
  <1>1. PICK st : st = StrangeSeeds(x)
    OBVIOUS
  <1>u. PICK unread \in SUBSET Strays(run[r]) :
          /\ Fault(unread) /\ unseen' = unseen \cup unread
          /\ run' = [run EXCEPT
                ![r].pc = "sstrip",
                ![r].todo = (((run[r].old \cap Seeds) \ StrangeSeeds(run[r]))
                                \cup Scanned(run[r].projs, unread)) \ run[r].hold,
                ![r].keep = @ \cup StrangeSeeds(run[r]),
                ![r].clean = @ /\ StrangeSeeds(run[r]) = {}]
    BY Zenon DEF BeginSeedStrip, StrangeSeeds, Strays
  <1>2. PICK t : t = (((x.old \cap Seeds) \ st) \cup Scanned(x.projs, unread)) \ x.hold
    OBVIOUS
  <1>3. PICK c \in BOOLEAN : c = (x.clean /\ st = {})
    OBVIOUS
  <1>4. PICK k : k = x.keep \cup st
    OBVIOUS
  <1>5. t \in SUBSET Entries /\ k \in SUBSET Entries
    BY <1>0, <1>1, <1>2, <1>4, KindsApart DEF Scanned, StrangeSeeds, Runs
  <1>6. PICK y : y = [x EXCEPT !.pc = "sstrip", !.todo = t, !.keep = k, !.clean = c]
    OBVIOUS
  <1>7. /\ y \in Runs /\ SamePass(x, y) /\ y.pc = "sstrip" /\ y.live = x.live /\ y.old = x.old
        /\ y.hold = x.hold /\ y.todo = t /\ y.keep = k /\ y.clean = c
    BY <1>0, <1>5, <1>6 DEF Runs, SamePass
  <1>8. run' = [run EXCEPT ![r] = y]
    BY <1>u, <1>1, <1>2, <1>3, <1>4, <1>6 DEF TypeOK
  <1> QED BY <1>1, <1>u, <1>2, <1>3, <1>4, <1>7, <1>8

(* BeginRules. *)
LEMMA BeginRulesMoves ==
  ASSUME TypeOK, NEW r \in Procs, BeginRules(r), NEW x, x = run[r]
  PROVE  \E y \in Runs :
           /\ run' = [run EXCEPT ![r] = y] /\ SamePass(x, y)
           /\ y.pc = "rwrite" /\ y.live = Live(r) /\ y.old = ledger
           /\ y.todo = Targets(Projects, y.want, y.live)
           /\ y.keep = (ledger \cap x.projs) \ present /\ y.hold = y.keep
           /\ y.clean <=> (x.clean /\ x.projs \subseteq present)
  <1>0. x \in Runs /\ ledger \in SUBSET Entries
    BY DEF TypeOK
  <1>1. PICK l : l = Live(r)
    OBVIOUS
  <1>2. PICK t : t = Targets(Projects, x.want, l)
    OBVIOUS
  <1>3. PICK c \in BOOLEAN : c = (x.clean /\ x.projs \subseteq present)
    OBVIOUS
  <1>4. PICK a : a = (ledger \cap x.projs) \ present
    OBVIOUS
  <1>5. l \in SUBSET (Projects \cup {Codex}) /\ t \in SUBSET Entries /\ a \in SUBSET Entries
    BY <1>0, <1>1, <1>2, <1>4, TargetsKind, KindsApart DEF Live, TypeOK
  <1>6. PICK y : y = [x EXCEPT !.pc = "rwrite", !.live = l, !.old = ledger, !.todo = t,
                               !.keep = a, !.hold = a, !.clean = c]
    OBVIOUS
  <1>7. /\ y \in Runs /\ SamePass(x, y) /\ y.pc = "rwrite" /\ y.live = l /\ y.old = ledger
        /\ y.todo = t /\ y.keep = a /\ y.hold = a /\ y.clean = c
    BY <1>0, <1>5, <1>6 DEF Runs, SamePass
  <1>8. run' = [run EXCEPT ![r] = y]
    BY <1>1, <1>2, <1>3, <1>4, <1>6 DEF BeginRules, TypeOK
  <1> QED BY <1>1, <1>2, <1>3, <1>4, <1>7, <1>8 DEF SamePass

(* BeginGlobals. *)
LEMMA BeginGlobalsMoves ==
  ASSUME TypeOK, NEW r \in Procs, BeginGlobals(r), NEW x, x = run[r]
  PROVE  \E y \in Runs :
           /\ run' = [run EXCEPT ![r] = y] /\ SamePass(x, y)
           /\ y.pc = "gwrite" /\ y.live = (x.live \ {Codex}) \cup (present \cap {Codex})
           /\ y.todo = Targets(Globals, y.want, y.live)
           /\ y.old = x.old /\ y.keep = x.keep /\ y.hold = x.hold /\ y.clean = x.clean
  <1>0. x \in Runs
    BY DEF TypeOK
  <1>1. PICK l : l = (x.live \ {Codex}) \cup (present \cap {Codex})
    OBVIOUS
  <1>2. PICK t : t = Targets(Globals, x.want, l)
    OBVIOUS
  <1>3. l \in SUBSET (Projects \cup {Codex}) /\ t \in SUBSET Entries
    BY <1>0, <1>1, <1>2, TargetsKind, KindsApart DEF Runs
  <1>4. PICK y : y = [x EXCEPT !.pc = "gwrite", !.live = l, !.todo = t]
    OBVIOUS
  <1>5. /\ y \in Runs /\ SamePass(x, y) /\ y.pc = "gwrite" /\ y.live = l /\ y.todo = t
        /\ y.old = x.old /\ y.keep = x.keep /\ y.hold = x.hold /\ y.clean = x.clean
    BY <1>0, <1>3, <1>4 DEF Runs, SamePass
  <1>6. run' = [run EXCEPT ![r] = y]
    BY <1>1, <1>2, <1>4 DEF BeginGlobals, TypeOK
  <1> QED BY <1>1, <1>2, <1>5, <1>6 DEF SamePass

(* BeginGlobalStrip. *)
LEMMA BeginGlobalStripMoves ==
  ASSUME TypeOK, NEW r \in Procs, BeginGlobalStrip(r), NEW x, x = run[r]
  PROVE  \E y \in Runs :
           /\ run' = [run EXCEPT ![r] = y] /\ SamePass(x, y)
           /\ y.pc = "gstrip" /\ y.live = x.live /\ y.todo = (x.old \cap Globals) \ x.hold
           /\ y.old = x.old /\ y.keep = x.keep /\ y.hold = x.hold /\ y.clean = x.clean
  <1>0. x \in Runs
    BY DEF TypeOK
  <1>1. PICK t : t = (x.old \cap Globals) \ x.hold
    OBVIOUS
  <1>2. t \in SUBSET Entries
    BY <1>0, <1>1 DEF Runs
  <1>3. PICK y : y = [x EXCEPT !.pc = "gstrip", !.todo = t]
    OBVIOUS
  <1>4. /\ y \in Runs /\ SamePass(x, y) /\ y.pc = "gstrip" /\ y.live = x.live /\ y.todo = t
        /\ y.old = x.old /\ y.keep = x.keep /\ y.hold = x.hold /\ y.clean = x.clean
    BY <1>0, <1>2, <1>3 DEF Runs, SamePass
  <1>5. run' = [run EXCEPT ![r] = y]
    BY <1>1, <1>3 DEF BeginGlobalStrip, TypeOK
  <1> QED BY <1>1, <1>4, <1>5

(* BeginRuleStrip. *)
StrangeProjects(x) == {e \in (x.old \cap Projects) \ x.hold : ~Trusted(x.projs, e)}

(* The entries of projects nobody vouches for are kept. *)
LEMMA BeginRuleStripMoves ==
  ASSUME TypeOK, NEW r \in Procs, BeginRuleStrip(r), NEW x, x = run[r]
  PROVE  \E y \in Runs :
           /\ run' = [run EXCEPT ![r] = y] /\ SamePass(x, y)
           /\ y.pc = "rstrip" /\ y.live = x.live /\ y.old = x.old /\ y.hold = x.hold
           /\ y.todo = ((x.old \cap Projects) \ x.hold) \ StrangeProjects(x)
           /\ y.keep = x.keep \cup StrangeProjects(x)
           /\ y.clean <=> (x.clean /\ StrangeProjects(x) = {})
  <1>0. x \in Runs
    BY DEF TypeOK
  <1>1. PICK st : st = StrangeProjects(x)
    OBVIOUS
  <1>2. PICK t : t = ((x.old \cap Projects) \ x.hold) \ st
    OBVIOUS
  <1>3. PICK c \in BOOLEAN : c = (x.clean /\ st = {})
    OBVIOUS
  <1>4. PICK k : k = x.keep \cup st
    OBVIOUS
  <1>5. t \in SUBSET Entries /\ k \in SUBSET Entries
    BY <1>0, <1>1, <1>2, <1>4 DEF StrangeProjects, Runs
  <1>6. PICK y : y = [x EXCEPT !.pc = "rstrip", !.todo = t, !.keep = k, !.clean = c]
    OBVIOUS
  <1>7. /\ y \in Runs /\ SamePass(x, y) /\ y.pc = "rstrip" /\ y.live = x.live /\ y.old = x.old
        /\ y.hold = x.hold /\ y.todo = t /\ y.keep = k /\ y.clean = c
    BY <1>0, <1>5, <1>6 DEF Runs, SamePass
  <1>8. run' = [run EXCEPT ![r] = y]
    BY <1>1, <1>2, <1>3, <1>4, <1>6 DEF BeginRuleStrip, StrangeProjects, TypeOK
  <1> QED BY <1>1, <1>2, <1>3, <1>4, <1>7, <1>8

(* x goes on in its phase, with these four accounts. *)
GoesOn(x, y) ==
    /\ SamePass(x, y) /\ y.pc = x.pc /\ y.live = x.live /\ y.old = x.old

(* WriteEntry. *)
LEMMA WriteMoves ==
  ASSUME TypeOK, NEW r \in Procs, NEW e \in Entries, NEW bad, WriteEntry(r, e, bad),
         NEW x, x = run[r]
  PROVE  \E y \in Runs :
           /\ run' = [run EXCEPT ![r] = y] /\ GoesOn(x, y)
           /\ y.todo = x.todo \ {e}
           /\ y.keep = x.keep \cup KeptAfterWrite(r, e, bad = {})
           /\ y.hold = x.hold \cup HeldFromStrip(e, bad = {})
           /\ y.clean <=> (x.clean /\ bad = {} /\ ~Malformed(e))
  <1>0. x \in Runs
    BY DEF TypeOK
  <1>1. PICK t : t = x.todo \ {e}
    OBVIOUS
  <1>2. PICK k : k = x.keep \cup KeptAfterWrite(r, e, bad = {})
    OBVIOUS
  <1>3. PICK h : h = x.hold \cup HeldFromStrip(e, bad = {})
    OBVIOUS
  <1>4. PICK c \in BOOLEAN : c = (x.clean /\ bad = {} /\ ~Malformed(e))
    OBVIOUS
  <1>5. t \in SUBSET Entries /\ k \in SUBSET Entries /\ h \in SUBSET Entries
    BY <1>0, <1>1, <1>2, <1>3 DEF KeptAfterWrite, HeldFromStrip, Runs
  <1>6. PICK y : y = [x EXCEPT !.todo = t, !.keep = k, !.hold = h, !.clean = c]
    OBVIOUS
  <1>7. /\ y \in Runs /\ GoesOn(x, y) /\ y.todo = t /\ y.keep = k /\ y.hold = h /\ y.clean = c
    BY <1>0, <1>5, <1>6 DEF Runs, SamePass, GoesOn
  <1>8. run' = [run EXCEPT ![r] = y]
    BY <1>1, <1>2, <1>3, <1>4, <1>6 DEF WriteEntry, TypeOK
  <1> QED BY <1>1, <1>2, <1>3, <1>4, <1>7, <1>8

(* StripEntry. *)
LEMMA StripMoves ==
  ASSUME TypeOK, NEW r \in Procs, NEW e \in Entries, NEW bad, StripEntry(r, e, bad),
         NEW x, x = run[r]
  PROVE  \E y \in Runs :
           /\ run' = [run EXCEPT ![r] = y] /\ GoesOn(x, y)
           /\ y.todo = x.todo \ {e} /\ y.hold = x.hold
           /\ y.keep = x.keep \cup (IF bad # {} \/ Refused(e) THEN {e} \cap x.old ELSE {})
           /\ y.clean <=> (x.clean /\ ~(bad # {} \/ Refused(e)))
  <1>0. x \in Runs
    BY DEF TypeOK
  <1>1. PICK t : t = x.todo \ {e}
    OBVIOUS
  <1>2. PICK k : k = x.keep \cup (IF bad # {} \/ Refused(e) THEN {e} \cap x.old ELSE {})
    OBVIOUS
  <1>3. PICK c \in BOOLEAN : c = (x.clean /\ ~(bad # {} \/ Refused(e)))
    OBVIOUS
  <1>4. t \in SUBSET Entries /\ k \in SUBSET Entries
    BY <1>0, <1>1, <1>2 DEF Runs
  <1>5. PICK y : y = [x EXCEPT !.todo = t, !.stat = None, !.keep = k, !.clean = c]
    OBVIOUS
  <1>6. y \in Runs /\ GoesOn(x, y) /\ y.todo = t /\ y.hold = x.hold /\ y.keep = k /\ y.clean = c
    BY <1>0, <1>4, <1>5 DEF Runs, SamePass, GoesOn
  <1>7. run' = [run EXCEPT ![r] = y]
    BY <1>1, <1>2, <1>3, <1>5 DEF StripEntry, TypeOK
  <1> QED BY <1>1, <1>2, <1>3, <1>6, <1>7

(* SeedRootGone. *)
LEMMA SeedRootGoneMoves ==
  ASSUME TypeOK, NEW r \in Procs, NEW e \in Entries, SeedRootGone(r, e), NEW x, x = run[r]
  PROVE  \E y \in Runs :
           /\ run' = [run EXCEPT ![r] = y] /\ GoesOn(x, y)
           /\ y.todo = x.todo \ {e} /\ y.hold = x.hold
           /\ y.keep = x.keep \cup ({e} \cap x.old) /\ ~y.clean
  <1>0. x \in Runs
    BY DEF TypeOK
  <1>1. PICK t : t = x.todo \ {e}
    OBVIOUS
  <1>2. PICK k : k = x.keep \cup ({e} \cap x.old)
    OBVIOUS
  <1>3. t \in SUBSET Entries /\ k \in SUBSET Entries
    BY <1>0, <1>1, <1>2 DEF Runs
  <1>4. PICK y : y = [x EXCEPT !.todo = t, !.clean = FALSE, !.keep = k]
    OBVIOUS
  <1>5. /\ y \in Runs /\ GoesOn(x, y) /\ y.todo = t /\ y.hold = x.hold /\ y.keep = k
        /\ y.clean = FALSE
    BY <1>0, <1>3, <1>4 DEF Runs, SamePass, GoesOn
  <1>6. run' = [run EXCEPT ![r] = y]
    BY <1>1, <1>2, <1>4 DEF SeedRootGone, TypeOK
  <1> QED BY <1>1, <1>2, <1>5, <1>6

(* GlobalRootGone. *)
LEMMA GlobalRootGoneMoves ==
  ASSUME TypeOK, NEW r \in Procs, NEW e \in Entries, GlobalRootGone(r, e), NEW x, x = run[r]
  PROVE  \E y \in Runs :
           /\ run' = [run EXCEPT ![r] = y] /\ GoesOn(x, y)
           /\ y.todo = x.todo \ {e} /\ y.hold = x.hold /\ y.keep = x.keep /\ y.clean = x.clean
  <1>0. x \in Runs
    BY DEF TypeOK
  <1>1. PICK t : t = x.todo \ {e}
    OBVIOUS
  <1>2. t \in SUBSET Entries
    BY <1>0, <1>1 DEF Runs
  <1>3. PICK y : y = [x EXCEPT !.todo = t]
    OBVIOUS
  <1>4. /\ y \in Runs /\ GoesOn(x, y) /\ y.todo = t /\ y.hold = x.hold /\ y.keep = x.keep
        /\ y.clean = x.clean
    BY <1>0, <1>2, <1>3 DEF Runs, SamePass, GoesOn
  <1>5. run' = [run EXCEPT ![r] = y]
    BY <1>1, <1>3 DEF GlobalRootGone, TypeOK
  <1> QED BY <1>1, <1>4, <1>5

(* StatProject. *)
LEMMA StatMoves ==
  ASSUME TypeOK, NEW r \in Procs, NEW p \in Projects, StatProject(r, p), NEW x, x = run[r]
  PROVE  \E y \in Runs :
           /\ run' = [run EXCEPT ![r] = y] /\ GoesOn(x, y) /\ y.hold = x.hold
           /\ \/ y.todo = x.todo /\ y.keep = x.keep /\ y.clean = x.clean
              \/ y.todo = x.todo \ {p} /\ y.keep = x.keep \cup {p} /\ ~y.clean
  <1>0. x \in Runs /\ p \in Entries
    BY KindsApart DEF TypeOK
  <1>1. CASE Reachable(p)
    <2>1. PICK y : y = [x EXCEPT !.stat = p]
      OBVIOUS
    <2>2. /\ y \in Runs /\ GoesOn(x, y) /\ y.todo = x.todo /\ y.hold = x.hold /\ y.keep = x.keep
          /\ y.clean = x.clean
      BY <1>0, <2>1 DEF Runs, SamePass, GoesOn
    <2>3. run' = [run EXCEPT ![r] = y]
      BY <1>1, <2>1 DEF StatProject, TypeOK
    <2> QED BY <2>2, <2>3
  <1>2. CASE ~Reachable(p)
    <2>1. PICK t : t = x.todo \ {p}
      OBVIOUS
    <2>2. PICK k : k = x.keep \cup {p}
      OBVIOUS
    <2>3. t \in SUBSET Entries /\ k \in SUBSET Entries
      BY <1>0, <2>1, <2>2 DEF Runs
    <2>4. PICK y : y = [x EXCEPT !.todo = t, !.keep = k, !.clean = FALSE]
      OBVIOUS
    <2>5. /\ y \in Runs /\ GoesOn(x, y) /\ y.todo = t /\ y.hold = x.hold /\ y.keep = k
          /\ y.clean = FALSE
      BY <1>0, <2>3, <2>4 DEF Runs, SamePass, GoesOn
    <2>6. run' = [run EXCEPT ![r] = y]
      BY <1>2, <2>1, <2>2, <2>4 DEF StatProject, TypeOK
    <2> QED BY <2>1, <2>2, <2>5, <2>6
  <1> QED BY <1>1, <1>2

(* ProjectGone. *)
LEMMA ProjectGoneMoves ==
  ASSUME TypeOK, NEW r \in Procs, NEW p \in Projects, ProjectGone(r, p), NEW x, x = run[r]
  PROVE  \E y \in Runs :
           /\ run' = [run EXCEPT ![r] = y] /\ GoesOn(x, y)
           /\ y.todo = x.todo \ {p} /\ y.hold = x.hold /\ y.keep = x.keep /\ y.clean = x.clean
  <1>0. x \in Runs
    BY DEF TypeOK
  <1>1. PICK t : t = x.todo \ {p}
    OBVIOUS
  <1>2. t \in SUBSET Entries
    BY <1>0, <1>1 DEF Runs
  <1>3. PICK y : y = [x EXCEPT !.todo = t, !.stat = None]
    OBVIOUS
  <1>4. /\ y \in Runs /\ GoesOn(x, y) /\ y.todo = t /\ y.hold = x.hold /\ y.keep = x.keep
        /\ y.clean = x.clean
    BY <1>0, <1>2, <1>3 DEF Runs, SamePass, GoesOn
  <1>5. run' = [run EXCEPT ![r] = y]
    BY <1>1, <1>3 DEF ProjectGone, TypeOK
  <1> QED BY <1>1, <1>4, <1>5

(* SaveManifest and SaveFails: the pass is over. *)
LEMMA SaveMoves ==
  ASSUME TypeOK, NEW r \in Procs, SaveManifest(r) \/ SaveFails(r), NEW x, x = run[r]
  PROVE  \E y \in Runs :
           /\ run' = [run EXCEPT ![r] = y] /\ SamePass(x, y) /\ y.live = x.live
           /\ y.pc = IF x.pc = "sstrip" THEN "rules" ELSE "report"
           /\ y.clean => x.clean /\ SaveManifest(r)
  <1>0. x \in Runs
    BY DEF TypeOK
  <1>1. PICK p : p = IF x.pc = "sstrip" THEN "rules" ELSE "report"
    OBVIOUS
  <1>2. p = AfterPass(r) /\ p \in {"rules", "report"}
    BY <1>1 DEF AfterPass, At
  <1>3. CASE SaveManifest(r)
    <2>1. PICK y : y = [x EXCEPT !.pc = p, !.old = {}, !.keep = {}, !.hold = {}]
      OBVIOUS
    <2>2. y \in Runs /\ SamePass(x, y) /\ y.live = x.live /\ y.pc = p /\ y.clean = x.clean
      BY <1>0, <1>2, <2>1 DEF Runs, SamePass
    <2>3. run' = [run EXCEPT ![r] = y]
      BY <1>2, <1>3, <2>1 DEF SaveManifest, TypeOK
    <2> QED BY <1>1, <1>3, <2>2, <2>3
  <1>4. CASE SaveFails(r)
    <2>1. PICK y : y = [x EXCEPT !.pc = p, !.old = {}, !.keep = {}, !.hold = {}, !.clean = FALSE]
      OBVIOUS
    <2>2. y \in Runs /\ SamePass(x, y) /\ y.live = x.live /\ y.pc = p /\ y.clean = FALSE
      BY <1>0, <1>2, <2>1 DEF Runs, SamePass
    <2>3. run' = [run EXCEPT ![r] = y]
      BY <1>2, <1>4, <2>1 DEF SaveFails, TypeOK
    <2> QED BY <1>1, <2>2, <2>3
  <1> QED BY <1>3, <1>4

(* project remove begins ... *)
LEMMA BeginRemoveMoves ==
  ASSUME TypeOK, NEW r \in Procs, NEW p \in Projects, BeginRemove(r, p)
  PROVE  \E y \in Runs :
           /\ run' = [run EXCEPT ![r] = y] /\ y.cmd = p
           /\ \/ y.pc = "pseeds" /\ y.clean = TRUE
              \/ y.pc = "drop" /\ y.clean = FALSE
  <1>0. run[r] \in Runs
    BY DEF TypeOK
  <1>1. PICK c \in BOOLEAN : c = Reachable(p)
    BY DEF Reachable
  <1>2. PICK pc : pc = IF Reachable(p) THEN "pseeds" ELSE "drop"
    OBVIOUS
  <1>3. PICK y : y = [run[r] EXCEPT !.cmd = p, !.clean = c, !.pc = pc]
    OBVIOUS
  <1>4. y \in Runs /\ y.cmd = p /\ y.clean = c /\ y.pc = pc
    BY <1>0, <1>2, <1>3 DEF Runs
  <1>5. run' = [run EXCEPT ![r] = y]
    BY <1>1, <1>2, <1>3 DEF BeginRemove, TypeOK
  <1> QED BY <1>1, <1>2, <1>4, <1>5

(* What StripForRemoval picks, and what follows from it. *)
Removing(r, e, next, bad, saves, unread) ==
    /\ Fault(IF saves THEN bad \cup unread ELSE {e})
    /\ block' = Stripped(e, bad \cup unread)
    /\ left' = {f \in left \cup unread : block'[f] # None}
    /\ ledger' = IF bad # {} \/ Refused(e) \/ ~saves THEN ledger ELSE ledger \ {e}
    /\ untracked' = IF bad # {} \/ Refused(e) \/ ~saves
                    THEN untracked ELSE untracked \cup Overlooked(e)
    /\ IF bad = {} /\ saves
       THEN run' = [run EXCEPT ![r].pc = next] /\ UNCHANGED lock
       ELSE End(r)

Goes(r, next) == run' = [run EXCEPT ![r].pc = next]
GoesWithout(r, next) == run' = [run EXCEPT ![r].pc = next, ![r].clean = FALSE]

(* ... and goes from one of its strips to the next, the blocks stripped ... *)
LEMMA RemovalMoves ==
  ASSUME TypeOK, NEW r \in Procs, NEW next \in {"prules", "drop"}, NEW x, x = run[r],
         Goes(r, next)
  PROVE  \E y \in Runs : /\ run' = [run EXCEPT ![r] = y]
                         /\ y.pc = next /\ y.cmd = x.cmd /\ (y.clean => x.clean)
  <1>0. x \in Runs
    BY DEF TypeOK
  <1>1. PICK y : y = [x EXCEPT !.pc = next]
    OBVIOUS
  <1>2. y \in Runs /\ y.pc = next /\ y.cmd = x.cmd /\ (y.clean => x.clean)
    BY <1>0, <1>1 DEF Runs
  <1>3. run' = [run EXCEPT ![r] = y]
    BY <1>1 DEF TypeOK, Goes
  <1> QED BY <1>2, <1>3

(* ... or out of reach. *)
LEMMA RemovalGoneMoves ==
  ASSUME TypeOK, NEW r \in Procs, NEW next \in {"prules", "drop"}, NEW x, x = run[r],
         GoesWithout(r, next)
  PROVE  \E y \in Runs : /\ run' = [run EXCEPT ![r] = y]
                         /\ y.pc = next /\ y.cmd = x.cmd /\ ~y.clean
  <1>0. x \in Runs
    BY DEF TypeOK
  <1>1. PICK z : z = [x EXCEPT !.pc = next, !.clean = FALSE]
    OBVIOUS
  <1>2. z \in Runs /\ z.pc = next /\ z.cmd = x.cmd /\ z.clean = FALSE
    BY <1>0, <1>1 DEF Runs
  <1>3. run' = [run EXCEPT ![r] = z]
    BY <1>1 DEF TypeOK, GoesWithout
  <1> QED BY <1>2, <1>3

-----------------------------------------------------------------------------
(* Types *)

(* A step of one process changes its own variables. *)
LEMMA RunsType ==
  ASSUME TypeOK, NEW r \in Procs, NEW y \in Runs, run' = [run EXCEPT ![r] = y]
  PROVE  run' \in [Procs -> Runs] /\ run'[r] = y /\ \A q \in Procs : q # r => run'[q] = run[q]
  BY DEF TypeOK

(* What a merge and a strip may leave in the files. *)
LEMMA BlocksType ==
  ASSUME TypeOK
  PROVE  /\ \A r \in Procs : \A e, bad : Merged(r, e, bad) \in [Files -> Contents]
         /\ \A e, bad : Stripped(e, bad) \in [Files -> Contents]
  <1>1. \A f \in Files : block[f] \in Contents
    BY DEF TypeOK
  <1>2. \A r \in Procs : \A f \in Files : Wanted(r, f) \in Contents
    <2> TAKE r \in Procs
    <2> TAKE f \in Files
    <2>1. run[r].want \in Served
      BY DEF TypeOK, Runs
    <2> QED BY <2>1, DesiredFacts DEF Wanted, Contents
  <1>3. \A r \in Procs : \A f \in Files : mergeFile(f, Wanted(r, f)) \in Contents
    BY <1>1, <1>2 DEF mergeFile, mergeSeed, mergeRules
  <1>4. \A f \in Files : stripFile(f) \in Contents
    BY <1>1 DEF stripFile, Contents
  <1> QED BY <1>1, <1>3, <1>4 DEF Merged, Stripped

(* An event fits its bound. *)
LEMMA EventsType ==
  ASSUME TypeOK, NEW bad, Event \/ Fault(bad) \/ UNCHANGED events
  PROVE  events' \in 0..MaxEvents
  <1>1. CASE bad = {}
    BY <1>1, BlocksAssumption DEF TypeOK, Event, Fault
  <1>2. CASE bad # {}
    BY <1>2, BlocksAssumption DEF TypeOK, Event, Fault
  <1> QED BY <1>1, <1>2

(* The steps of a sync that change no file. *)
LEMMA SyncTypes ==
  ASSUME TypeOK, NEW r \in Procs,
         \/ BeginSync(r) \/ Fetch(r) \/ BeginSeeds(r) \/ BeginSeedStrip(r) \/ BeginRules(r)
         \/ BeginGlobals(r) \/ BeginGlobalStrip(r) \/ BeginRuleStrip(r)
         \/ \E e \in Seeds : SeedRootGone(r, e)
         \/ \E e \in Globals : GlobalRootGone(r, e)
         \/ \E p \in Projects : StatProject(r, p) \/ ProjectGone(r, p)
         \/ SaveManifest(r) \/ SaveFails(r)
  PROVE  TypeOK'
  <1>0. Seeds \subseteq Entries /\ Globals \subseteq Entries /\ Projects \subseteq Entries
    BY KindsApart
  <1>u. ASSUME run' \in [Procs -> Runs], lock' \in Procs \cup {None},
               UNCHANGED <<entitled, registered, present, block, ledger, events, untracked, left>>,
               unseen' \subseteq Files
        PROVE  TypeOK'
    BY <1>u DEF TypeOK
  <1>v. ASSUME run' \in [Procs -> Runs], UNCHANGED <<disk, world, lock, history>>
        PROVE  TypeOK'
    BY <1>v, <1>u DEF TypeOK, disk, world, history
  <1>1. CASE BeginSync(r)
    <2>1. run' \in [Procs -> Runs]
      BY <1>1, BeginMoves, RunsType
    <2> QED BY <1>1, <2>1, <1>u DEF BeginSync, disk, world
  <1>2. CASE Fetch(r)
    <2>1. run' \in [Procs -> Runs]
      BY <1>2, FetchMoves, RunsType
    <2> QED BY <1>2, <2>1, <1>v DEF Fetch
  <1>3. CASE BeginSeeds(r)
    <2>1. run' \in [Procs -> Runs]
      BY <1>3, BeginSeedsMoves, RunsType
    <2> QED BY <1>3, <2>1, <1>v DEF BeginSeeds
  <1>4. CASE BeginSeedStrip(r)
    <2>1. run' \in [Procs -> Runs]
      BY <1>4, BeginSeedStripMoves, RunsType
    <2>2. PICK unread : /\ unread \subseteq Seeds /\ Fault(unread)
                        /\ unseen' = unseen \cup unread
      BY <1>4, BeginSeedStripMoves DEF Strays, Scanned
    <2>3. unseen' \subseteq Files /\ events' \in 0..MaxEvents
      BY <2>2, <1>0, FilesOfEntry, EventsType DEF TypeOK
    <2> QED BY <1>4, <2>1, <2>3 DEF BeginSeedStrip, TypeOK, disk
  <1>5. CASE BeginRules(r)
    <2>1. run' \in [Procs -> Runs]
      BY <1>5, BeginRulesMoves, RunsType
    <2> QED BY <1>5, <2>1, <1>v DEF BeginRules
  <1>6. CASE BeginGlobals(r)
    <2>1. run' \in [Procs -> Runs]
      BY <1>6, BeginGlobalsMoves, RunsType
    <2> QED BY <1>6, <2>1, <1>v DEF BeginGlobals
  <1>7. CASE BeginGlobalStrip(r)
    <2>1. run' \in [Procs -> Runs]
      BY <1>7, BeginGlobalStripMoves, RunsType
    <2> QED BY <1>7, <2>1, <1>v DEF BeginGlobalStrip
  <1>8. CASE BeginRuleStrip(r)
    <2>1. run' \in [Procs -> Runs]
      BY <1>8, BeginRuleStripMoves, RunsType
    <2> QED BY <1>8, <2>1, <1>v DEF BeginRuleStrip
  <1>9. ASSUME NEW e \in Seeds, SeedRootGone(r, e) PROVE TypeOK'
    <2>1. run' \in [Procs -> Runs]
      BY <1>9, <1>0, SeedRootGoneMoves, RunsType
    <2> QED BY <1>9, <2>1, <1>v DEF SeedRootGone
  <1>10. ASSUME NEW e \in Globals, GlobalRootGone(r, e) PROVE TypeOK'
    <2>1. run' \in [Procs -> Runs]
      BY <1>10, <1>0, GlobalRootGoneMoves, RunsType
    <2> QED BY <1>10, <2>1, <1>v DEF GlobalRootGone
  <1>11. ASSUME NEW p \in Projects, StatProject(r, p) PROVE TypeOK'
    <2>1. run' \in [Procs -> Runs]
      BY <1>11, StatMoves, RunsType
    <2> QED BY <1>11, <2>1, <1>v DEF StatProject
  <1>12. ASSUME NEW p \in Projects, ProjectGone(r, p) PROVE TypeOK'
    <2>1. run' \in [Procs -> Runs]
      BY <1>12, ProjectGoneMoves, RunsType
    <2>2. untracked' \subseteq Entries
      BY <1>12, <1>0 DEF ProjectGone, TypeOK
    <2> QED BY <1>12, <2>1, <2>2 DEF ProjectGone, TypeOK, disk, world
  <1>13. CASE SaveManifest(r)
    <2>1. run' \in [Procs -> Runs]
      BY <1>13, SaveMoves, RunsType
    <2>2. run[r] \in Runs
      BY DEF TypeOK
    <2>3. Saved(r) \subseteq Entries
      BY <2>2 DEF Saved, Runs
    <2>4. ledger' \subseteq Entries /\ untracked' \subseteq Entries
      BY <1>13, <2>3 DEF SaveManifest, TypeOK
    <2> QED BY <1>13, <2>1, <2>4 DEF SaveManifest, TypeOK, world
  <1>14. CASE SaveFails(r)
    <2>1. run' \in [Procs -> Runs]
      BY <1>14, SaveMoves, RunsType
    <2>2. untracked' \subseteq Entries
      BY <1>14 DEF SaveFails, TypeOK, Unledgered
    <2>3. events' \in 0..MaxEvents
      BY <1>14, EventsType DEF SaveFails, Event
    <2> QED BY <1>14, <2>1, <2>2, <2>3 DEF SaveFails, TypeOK, disk
  <1> QED BY <1>1, <1>2, <1>3, <1>4, <1>5, <1>6, <1>7, <1>8, <1>9, <1>10, <1>11, <1>12,
             <1>13, <1>14

(* Writing and stripping one entry. *)
LEMMA EntryTypes ==
  ASSUME TypeOK, NEW r \in Procs, NEW e \in Entries, NEW bad, Fault(bad) \/ UNCHANGED events,
         WriteEntry(r, e, bad) \/ StripEntry(r, e, bad)
  PROVE  TypeOK'
  <1>1. run' \in [Procs -> Runs]
    BY WriteMoves, StripMoves, RunsType
  <1>2. /\ block' = Merged(r, e, bad) \/ block' = Stripped(e, bad)
        /\ UNCHANGED <<entitled, registered, present, ledger, lock, left, unseen>>
    BY Zenon DEF WriteEntry, StripEntry, history
  <1>3. block' \in [Files -> Contents]
    BY <1>2, BlocksType
  <1>4. events' \in 0..MaxEvents
    BY EventsType
  <1>5. untracked' = untracked \/ untracked' = untracked \cup Overlooked(e)
    BY DEF WriteEntry, StripEntry, history
  <1>6. untracked' \subseteq Entries
    BY <1>5, KindsApart DEF Overlooked, TypeOK
  <1> QED BY <1>1, <1>2, <1>3, <1>4, <1>6 DEF TypeOK

(* A run ends. *)
LEMMA EndTypes ==
  ASSUME TypeOK, NEW r \in Procs, End(r)
  PROVE  run' \in [Procs -> Runs] /\ lock' \in Procs \cup {None}
  BY NotRunningType DEF End, TypeOK

(* project add and project remove. *)
LEMMA CommandTypes ==
  ASSUME TypeOK, NEW r \in Procs, Commanded(run[r]), CommandStep(r)
  PROVE  TypeOK'
  <1>1. ASSUME NEW p \in Projects, AddProject(r, p) PROVE TypeOK'
    BY <1>1 DEF AddProject, TypeOK, world
  <1>2. ASSUME NEW p \in Projects, BeginRemove(r, p) PROVE TypeOK'
    <2>1. run' \in [Procs -> Runs]
      BY <1>2, BeginRemoveMoves, RunsType
    <2> QED BY <1>2, <2>1 DEF BeginRemove, TypeOK, disk, world, history
  <1>3. ASSUME NEW e, NEW next \in {"prules", "drop"}, StripForRemoval(r, e, next) PROVE TypeOK'
    <2>1. PICK bad \in SUBSET FilesOf(e), saves \in BOOLEAN,
               unread \in SUBSET (({e} \cap Seeds) \ ledger) :
            Removing(r, e, next, bad, saves, unread)
      BY <1>3, Zenon DEF StripForRemoval, Removing
    <2>2. block' \in [Files -> Contents]
      BY <2>1, BlocksType DEF Removing
    <2>3. events' \in 0..MaxEvents
      BY <2>1, EventsType DEF Removing
    <2>4. run' \in [Procs -> Runs] /\ lock' \in Procs \cup {None}
      <3>1. CASE bad = {} /\ saves
        <4>1. run' = [run EXCEPT ![r].pc = next] /\ UNCHANGED lock
          BY <2>1, <3>1 DEF Removing
        <4>2. PICK y \in Runs : run' = [run EXCEPT ![r] = y]
          <5>1. Goes(r, next)
            BY <4>1 DEF Goes
          <5> QED BY <5>1, RemovalMoves
        <4>3. run' \in [Procs -> Runs]
          BY <4>2, RunsType
        <4> QED BY <4>1, <4>3 DEF TypeOK
      <3>2. CASE ~(bad = {} /\ saves)
        BY <2>1, <3>2, EndTypes DEF Removing
      <3> QED BY <3>1, <3>2
    <2>5. ledger' \subseteq Entries /\ left' \subseteq Files
      BY <2>1, KindsApart, FilesOfEntry DEF Removing, TypeOK
    <2>6. untracked' \subseteq Entries
      BY <2>1, KindsApart DEF Removing, Overlooked, TypeOK
    <2>7. UNCHANGED <<entitled, present, registered, unseen>>
      BY <1>3 DEF StripForRemoval
    <2> QED BY <2>2, <2>3, <2>4, <2>5, <2>6, <2>7 DEF TypeOK
  <1>4. ASSUME NEW e \in Entries, NEW next \in {"prules", "drop"}, RemovalRootGone(r, e, next)
        PROVE  TypeOK'
    <2>1. GoesWithout(r, next)
      BY <1>4 DEF RemovalRootGone, GoesWithout
    <2>2. PICK y \in Runs : run' = [run EXCEPT ![r] = y]
      BY <2>1, RemovalGoneMoves
    <2>3. run' \in [Procs -> Runs]
      BY <2>2, RunsType
    <2> QED BY <1>4, <2>3 DEF RemovalRootGone, TypeOK, world
  <1>5. CASE StripProjectSeeds(r)
    <2>1. run[r].cmd \in Projects
      BY <1>5 DEF StripProjectSeeds, At, Commanded
    <2>2. PICK e \in Entries : e = <<run[r].cmd, "MEMORY.md">>
      BY <2>1, KindsApart DEF Seeds
    <2>3. StripForRemoval(r, e, "prules") \/ RemovalRootGone(r, e, "prules")
      BY <1>5, <2>2 DEF StripProjectSeeds
    <2> QED BY <2>3, <1>3, <1>4
  <1>6. CASE StripProjectRules(r)
    <2>1. PICK e \in Entries : e = run[r].cmd
      BY <1>6, KindsApart DEF StripProjectRules, At, Commanded
    <2>2. StripForRemoval(r, e, "drop") \/ RemovalRootGone(r, e, "drop")
      BY <1>6, <2>1 DEF StripProjectRules
    <2> QED BY <2>2, <1>3, <1>4
  <1>7. CASE DropProject(r)
    <2>1. left' \subseteq Files
      BY <1>7 DEF DropProject, TypeOK, Under
    <2> QED BY <1>7, <2>1, EndTypes DEF DropProject, TypeOK, world
  <1> QED BY <1>1, <1>2, <1>5, <1>6, <1>7 DEF CommandStep

(* A crash. *)
LEMMA CrashTypes ==
  ASSUME TypeOK, NEW r \in Procs, Crash(r) \/ \E p \in Projects : CrashMidProject(r, p)
  PROVE  TypeOK'
  <1>1. CASE Crash(r)
    <2>1. untracked' \subseteq Entries
      BY <1>1 DEF Crash, Unledgered, TypeOK
    <2>2. events' \in 0..MaxEvents
      BY <1>1, EventsType DEF Crash
    <2> QED BY <1>1, <2>1, <2>2, EndTypes DEF Crash, TypeOK, disk
  <1>2. ASSUME NEW p \in Projects, CrashMidProject(r, p) PROVE TypeOK'
    <2>1. untracked' \subseteq Entries
      BY <1>2 DEF CrashMidProject, Unledgered, TypeOK
    <2>2. events' \in 0..MaxEvents
      BY <1>2, EventsType DEF CrashMidProject
    <2>3. block' \in [Files -> Contents]
      BY <1>2, BlocksType DEF CrashMidProject
    <2> QED BY <1>2, <2>1, <2>2, <2>3, EndTypes DEF CrashMidProject, TypeOK
  <1> QED BY <1>1, <1>2

(* A run ends by itself. *)
LEMMA FinishTypes ==
  ASSUME TypeOK, NEW r \in Procs, Abort(r) \/ Finish(r)
  PROVE  TypeOK'
  <1>1. CASE Abort(r)
    <2>1. events' \in 0..MaxEvents
      BY <1>1, EventsType DEF Abort, Event
    <2> QED BY <1>1, <2>1, EndTypes DEF Abort, TypeOK, disk, history
  <1>2. CASE Finish(r)
    BY <1>2, EndTypes DEF Finish, TypeOK, disk, history, world
  <1> QED BY <1>1, <1>2

(* The developer, the volumes and the administrator. *)
LEMMA WorldTypes ==
  ASSUME TypeOK,
         \/ \E f \in Files, c \in Contents : DeveloperEdits(f, c)
         \/ \E z \in Projects \cup {Codex} : RootChanges(z)
         \/ EntitlementChanges
  PROVE  TypeOK'
  <1>0. UNCHANGED <<registered, ledger, lock, run>> /\ events' \in 0..MaxEvents
    BY EventsType DEF DeveloperEdits, RootChanges, EntitlementChanges, disk
  <1>1. ASSUME NEW f \in Files, NEW c \in Contents, DeveloperEdits(f, c)
        PROVE  TypeOK'
    <2>1. block' \in [Files -> Contents]
      BY <1>1 DEF DeveloperEdits, TypeOK, Contents
    <2>2. untracked' \subseteq Entries /\ left' \subseteq Files /\ unseen' \subseteq Files
      BY <1>1, EntryOfFile DEF DeveloperEdits, TypeOK
    <2>3. UNCHANGED <<entitled, present>>
      BY <1>1 DEF DeveloperEdits
    <2> QED BY <1>0, <2>1, <2>2, <2>3 DEF TypeOK
  <1>2. ASSUME NEW z \in Projects \cup {Codex}, RootChanges(z)
        PROVE  TypeOK'
    <2>1. block' \in [Files -> Contents]
      BY <1>2 DEF RootChanges, TypeOK, Contents
    <2>2. present' \subseteq Projects \cup {Codex} /\ unseen' \subseteq Files
      BY <1>2 DEF RootChanges, TypeOK, Under
    <2>3. UNCHANGED <<entitled, untracked, left>>
      BY <1>2 DEF RootChanges
    <2> QED BY <1>0, <2>1, <2>2, <2>3 DEF TypeOK
  <1>3. CASE EntitlementChanges
    BY <1>3, <1>0 DEF EntitlementChanges, TypeOK, disk, history
  <1> QED BY <1>1, <1>2, <1>3

-----------------------------------------------------------------------------
(* The invariant, step by step *)

(* A process that does nothing, or has just begun, owes nothing. *)
LEMMA IdleInv ==
  ASSUME NEW x, x.pc = "idle" \/ x.pc = "fetch"
  PROVE  RunInv(x)
  BY DEF RunInv, Commanded, PassInv, HeldInv, ScopeInv, RemovalInv, LiveInv, SeedsSettle,
         RulesSettle, Passing, Writing, Stripping, AfterSeeds, RulesPass

(* The same of the next state. *)
LEMMA IdleInvNext ==
  ASSUME NEW x, x.pc = "idle" \/ x.pc = "fetch"
  PROVE  RunInv(x)'
  BY DEF RunInv, Commanded, PassInv, HeldInv, ScopeInv, RemovalInv, LiveInv, SeedsSettle,
         RulesSettle, Passing, Writing, Stripping, AfterSeeds, RulesPass

(* The lock keeps every other process out. *)
LEMMA HolderAlone ==
  ASSUME BlocksInv, NEW r \in Procs, run[r].pc # "idle" \/ lock = None
  PROVE  \A q \in Procs : q # r => run[q] = NotRunning
  <1>1. lock \in {r, None}
    BY DEF BlocksInv, Holds
  <1> QED BY <1>1, BlocksAssumption DEF BlocksInv, Holds

(* Outside a pass the ledger is complete. *)
LEMMA OutsidePass ==
  ASSUME BlocksInv, NEW r \in Procs, run[r].pc # "idle" \/ lock = None, run[r].pc \notin Passing
  PROVE  Accounted
  <1>1. \A q \in Procs : run[q].pc \notin Passing
    BY HolderAlone, NotRunningType DEF Passing, Writing, Stripping
  <1> QED BY <1>1 DEF BlocksInv, BetweenPasses

(* A step of the process that holds the lock. *)
LEMMA OneMoves ==
  ASSUME BlocksInv, NEW r \in Procs, NEW y \in Runs, run' = [run EXCEPT ![r] = y],
         run[r].pc # "idle" \/ lock = None,
         \/ y.pc # "idle" /\ lock' = r
         \/ y = NotRunning,
         TypeOK', RunInv(y)', y.pc \in Passing \/ Accounted', CodexGone', RemovedIsClean'
  PROVE  BlocksInv'
  <1>0. run'[r] = y /\ \A q \in Procs : q # r => run'[q] = NotRunning
    BY HolderAlone, RunsType DEF BlocksInv
  <1>1. \A q \in Procs : Holds(q)'
    BY <1>0, NotRunningType DEF Holds
  <1>2. \A q \in Procs : RunInv(run[q])'
    <2> SUFFICES ASSUME NEW q \in Procs PROVE RunInv(run[q])'
      OBVIOUS
    <2>1. RunInv(NotRunning)'
      BY IdleInvNext, NotRunningType
    <2> QED BY <1>0, <2>1
  <1>3. BetweenPasses'
    BY <1>0 DEF BetweenPasses
  <1> QED BY <1>1, <1>2, <1>3 DEF BlocksInv

(* A step that no process takes. *)
LEMMA WorldMoves ==
  ASSUME BlocksInv, UNCHANGED <<run, lock>>, TypeOK',
         \A x \in Runs : RunInv(x) => RunInv(x)', Accounted => Accounted',
         CodexGone', RemovedIsClean'
  PROVE  BlocksInv'
  <1>1. \A q \in Procs : Holds(q)'
    BY DEF Holds, BlocksInv
  <1>2. \A q \in Procs : RunInv(run[q])'
    <2> SUFFICES ASSUME NEW q \in Procs PROVE RunInv(run[q])'
      OBVIOUS
    <2>1. PICK x \in Runs : x = run[q]
      BY DEF BlocksInv, TypeOK
    <2>2. RunInv(x)'
      BY <2>1 DEF BlocksInv
    <2>3. run'[q] = x
      BY <2>1
    <2> QED BY <2>2, <2>3
  <1>3. BetweenPasses'
    BY DEF BetweenPasses, BlocksInv
  <1> QED BY <1>1, <1>2, <1>3 DEF BlocksInv

(* A step that changes nothing but the process's own account. *)
LEMMA QuietStep ==
  ASSUME BlocksInv, NEW r \in Procs, NEW y \in Runs, run' = [run EXCEPT ![r] = y],
         run[r].pc # "idle", y.pc # "idle", TypeOK', UNCHANGED <<disk, world, lock, history>>,
         RunInv(y), y.pc \in Passing \/ run[r].pc \notin Passing
  PROVE  BlocksInv'
  <1>0. UNCHANGED <<block, ledger, present, registered, untracked, left, unseen>>
    BY DEF disk, world, history
  <1>1. Accounted => Accounted'
    BY <1>0 DEF Accounted, HasBlock
  <1>2. Commanded(y)' /\ HeldInv(y)' /\ ScopeInv(y)' /\ RemovalInv(y)'
    BY <1>0 DEF RunInv, Commanded, HeldInv, Wants, ScopeInv, RemovalInv, Cleared
  <1>3. PassInv(y)'
    <2>1. Tracked(y) => Tracked(y)'
      BY <1>0 DEF Tracked, HasBlock
    <2> QED BY <1>0, <2>1 DEF RunInv, PassInv, Wants
  <1>4. LiveInv(y)'
    BY <1>0 DEF RunInv, LiveInv
  <1>5. SeedsSettle(y)'
    BY <1>0 DEF RunInv, SeedsSettle, SeedSettled, Minded, Wants, Want
  <1>6. RulesSettle(y)'
    <2>1. \A e : EntrySettled(y, e) => EntrySettled(y, e)'
      BY <1>0 DEF EntrySettled, Minded, Want
    <2> QED BY <2>1 DEF RunInv, RulesSettle, Wants
  <1>7. CodexGone' /\ RemovedIsClean'
    BY <1>0 DEF BlocksInv, CodexGone, RemovedIsClean
  <1>8. RunInv(y)'
    BY <1>2, <1>3, <1>4, <1>5, <1>6 DEF RunInv
  <1>9. y.pc \in Passing \/ Accounted'
    BY <1>1, OutsidePass
  <1>10. lock' = r
    BY DEF BlocksInv, Holds
  <1> QED BY <1>7, <1>8, <1>9, <1>10, OneMoves

(* What a run wants of a file, in terms of its entry; it depends on the     *)
(* live roots only through the file's own.                                  *)
LEMMA WantFacts ==
  ASSUME NEW x \in Runs
  PROVE  /\ \A kind : kind \subseteq Entries => \A e \in kind : \A f \in FilesOf(e) :
               e \in Wants(x, kind) <=> Want(x, f) # None
         /\ \A y \in Runs : y.want = x.want => \A f \in Files :
               (Root(f) \in x.live <=> Root(f) \in y.live) => Want(y, f) = Want(x, f)
         /\ \A f \in Files : Want(x, f) \in Bodies \cup {Import, None}
         /\ \A f \in Files : Want(x, f) # None => Root(f) \in x.live \cup {Home}
         /\ \A kind : Wants(x, kind) \subseteq kind
  <1>0. x.want \in Served
    BY DEF Runs
  <1>1. \A kind : kind \subseteq Entries => \A e \in kind : \A f \in FilesOf(e) :
          e \in Wants(x, kind) <=> Want(x, f) # None
    BY <1>0, TargetFiles DEF Wants, Want
  <1>2. \A y \in Runs : y.want = x.want => \A f \in Files :
          (Root(f) \in x.live <=> Root(f) \in y.live) => Want(y, f) = Want(x, f)
    BY <1>0, DesiredFacts DEF Want
  <1>3. \A f \in Files : /\ Want(x, f) \in Bodies \cup {Import, None}
                         /\ Want(x, f) # None => Root(f) \in x.live \cup {Home}
    BY <1>0, DesiredFacts DEF Want
  <1>4. \A kind : Wants(x, kind) \subseteq kind
    BY TargetsKind DEF Wants
  <1> QED BY <1>1, <1>2, <1>3, <1>4

(* The run lock is taken. *)
LEMMA BeginSyncKeeps ==
  ASSUME BlocksInv, NEW r \in Procs, BeginSync(r)
  PROVE  BlocksInv'
  <1>1. PICK y \in Runs : run' = [run EXCEPT ![r] = y] /\ y.pc = "fetch"
    BY BeginMoves DEF BlocksInv
  <1>2. TypeOK'
    BY SyncTypes DEF BlocksInv
  <1>3. run[r].pc = "idle" /\ lock = None /\ lock' = r /\ UNCHANGED <<disk, present, untracked, left>>
    BY DEF BeginSync, At, world
  <1>4. Accounted'
    <2>1. Accounted
      BY <1>3, OutsidePass DEF Passing, Writing, Stripping
    <2> QED BY <1>3, <2>1 DEF Accounted, HasBlock, disk
  <1>5. CodexGone' /\ RemovedIsClean'
    BY <1>3 DEF BlocksInv, CodexGone, RemovedIsClean, disk
  <1>6. RunInv(y)'
    BY <1>1, IdleInvNext
  <1> QED BY <1>1, <1>2, <1>3, <1>4, <1>5, <1>6, OneMoves

(* What is served and which projects there are is read. *)
LEMMA FetchKeeps ==
  ASSUME BlocksInv, NEW r \in Procs, Fetch(r)
  PROVE  BlocksInv'
  <1>1. PICK y \in Runs : run' = [run EXCEPT ![r] = y] /\ y.pc = "seeds" /\ y.projs = registered
    BY FetchMoves DEF BlocksInv
  <1>2. TypeOK'
    BY SyncTypes DEF BlocksInv
  <1>3. run[r].pc = "fetch" /\ UNCHANGED <<disk, world, lock, history>>
    BY DEF Fetch, At
  <1>4. RunInv(y)
    BY <1>1 DEF RunInv, Commanded, PassInv, HeldInv, ScopeInv, RemovalInv, LiveInv, SeedsSettle,
         RulesSettle, Passing, Writing, Stripping, AfterSeeds, RulesPass
  <1>5. run[r].pc \notin Passing
    BY <1>3 DEF Passing, Writing, Stripping
  <1> QED BY <1>1, <1>2, <1>3, <1>4, <1>5, QuietStep

(* The seeds' pass begins with a complete ledger. *)
LEMMA BeginSeedsKeeps ==
  ASSUME BlocksInv, NEW r \in Procs, BeginSeeds(r)
  PROVE  BlocksInv'
  <1>0. PICK x \in Runs : x = run[r] /\ RunInv(x) /\ x.pc = "seeds"
    BY DEF BlocksInv, TypeOK, BeginSeeds, At
  <1>1. PICK y \in Runs :
          /\ run' = [run EXCEPT ![r] = y] /\ SamePass(x, y)
          /\ y.pc = "swrite" /\ y.live = Live(r) /\ y.old = ledger
          /\ y.todo = Targets(Seeds, y.want, y.live) /\ y.keep = {} /\ y.hold = {}
    BY <1>0, BeginSeedsMoves DEF BlocksInv
  <1>2. TypeOK'
    BY SyncTypes DEF BlocksInv
  <1>3. UNCHANGED <<disk, world, lock, history>>
    BY DEF BeginSeeds
  <1>4. x.pc \notin Passing /\ y.pc \in Passing
    BY <1>0, <1>1 DEF Passing, Writing, Stripping
  <1>5. y.projs = x.projs /\ y.live = present \cap (y.projs \cup {Codex}) /\ y.todo = Wants(y, Seeds)
    BY <1>0, <1>1 DEF Live, SamePass, Wants
  <1>6. PassInv(y)
    <2>1. Accounted
      BY <1>0, <1>4, OutsidePass
    <2>2. Tracked(y)
      BY <1>1, <2>1 DEF Accounted, Tracked, Visited
    <2>3. KindOf(y.pc) = Seeds
      BY <1>1 DEF KindOf
    <2>4. y.todo \subseteq Seeds
      BY <1>5, WantFacts
    <2> QED BY <1>1, <1>5, <2>2, <2>3, <2>4 DEF PassInv
  <1>7. HeldInv(y) /\ RemovalInv(y) /\ Commanded(y)
    BY <1>1, <1>5 DEF HeldInv, RemovalInv, Commanded
  <1>8. ScopeInv(y)
    BY <1>0, <1>5 DEF RunInv, ScopeInv
  <1>9. LiveInv(y)
    BY <1>5 DEF LiveInv
  <1>10. SeedsSettle(y) /\ RulesSettle(y)
    BY <1>1, <1>5 DEF SeedsSettle, RulesSettle, RulesPass, AfterSeeds
  <1>11. RunInv(y)
    BY <1>6, <1>7, <1>8, <1>9, <1>10 DEF RunInv
  <1> QED BY <1>0, <1>1, <1>2, <1>3, <1>4, <1>11, QuietStep

(* From writing the seeds to stripping them. *)
LEMMA BeginSeedStripKeeps ==
  ASSUME BlocksInv, NEW r \in Procs, BeginSeedStrip(r)
  PROVE  BlocksInv'
  <1>0. PICK x \in Runs : x = run[r] /\ RunInv(x) /\ x.pc = "swrite" /\ x.todo = {}
    BY DEF BlocksInv, TypeOK, BeginSeedStrip, At
  <1>1. PICK y \in Runs, unread \in SUBSET Strays(x) :
          /\ unseen' = unseen \cup unread
          /\ run' = [run EXCEPT ![r] = y] /\ SamePass(x, y)
          /\ y.pc = "sstrip" /\ y.live = x.live /\ y.old = x.old /\ y.hold = x.hold
          /\ y.todo = (((x.old \cap Seeds) \ StrangeSeeds(x)) \cup Scanned(x.projs, unread))
                          \ x.hold
          /\ y.keep = x.keep \cup StrangeSeeds(x)
          /\ y.clean <=> (x.clean /\ StrangeSeeds(x) = {})
    BY <1>0, BeginSeedStripMoves DEF BlocksInv
  <1>2. TypeOK'
    BY SyncTypes DEF BlocksInv
  <1>3. UNCHANGED <<registered, present, block, ledger, lock, untracked, left>>
    BY DEF BeginSeedStrip, disk
  <1>4. x.pc \in Passing /\ y.pc \in Passing
    BY <1>0, <1>1 DEF Passing, Writing, Stripping
  <1>5. y.projs = x.projs /\ y.want = x.want
    BY <1>1 DEF SamePass
  <1>6. Scanned(x.projs, unread) \subseteq Seeds
    BY DEF Scanned
  <1>7. PassInv(y)
    <2>1. Tracked(x) /\ x.old = ledger /\ x.hold \cap x.old \subseteq x.keep
      BY <1>0, <1>4 DEF RunInv, PassInv
    <2>2. Visited(x.pc) = {} /\ Visited(y.pc) = Seeds /\ KindOf(y.pc) = Seeds /\ y.pc \notin Writing
      BY <1>0, <1>1 DEF Visited, KindOf, Writing
    <2>3. Tracked(y)
      <3> SUFFICES ASSUME NEW e \in Entries, HasBlock(e)
                   PROVE  \/ e \in y.keep \cup untracked
                          \/ e \in y.old /\ (e \notin Seeds \/ e \in y.todo)
        BY <2>2 DEF Tracked
      <3>1. e \in x.keep \cup untracked \/ e \in x.old
        BY <2>1 DEF Tracked
      <3> QED BY <1>1, <2>1, <3>1
    <2> QED BY <1>1, <1>6, <2>1, <2>2, <2>3 DEF PassInv
  <1>8. HeldInv(y)
    <2>1. Wants(y, Seeds) = Wants(x, Seeds)
      BY <1>1, <1>5 DEF Wants
    <2>2. Wants(x, Seeds) \subseteq x.hold
      BY <1>0 DEF RunInv, HeldInv
    <2> QED BY <1>1, <2>1, <2>2 DEF HeldInv
  <1>9. ScopeInv(y) /\ RemovalInv(y) /\ Commanded(y)
    BY <1>0, <1>1, <1>4, <1>5 DEF RunInv, ScopeInv, RemovalInv, Commanded
  <1>l. LiveInv(y)'
    <2>1. \A f \in Files \ unseen :
             Root(f) \in x.projs \cup {Codex} => (Root(f) \in present <=> Root(f) \in x.live)
      BY <1>0, <1>4 DEF RunInv, LiveInv
    <2> QED BY <1>1, <1>3, <1>5, <2>1 DEF LiveInv
  <1>10. SeedsSettle(y)'
    <2> SUFFICES ASSUME y.clean, NEW f \in Seeds, f \in Minded(y)'
                 PROVE  SeedSettled(y, f) \/ f \in y.todo
      BY <1>1, <1>3 DEF SeedsSettle, SeedSettled, Want, AfterSeeds
    <2>1. x.clean /\ StrangeSeeds(x) = {}
      BY <1>1
    <2>2. /\ f \in Files /\ f \notin unseen /\ f \notin unread
          /\ Root(f) \in x.live \cup {Home} /\ Want(y, f) = Want(x, f)
      BY <1>1, <1>5 DEF Minded, Want
    <2>3. CASE f \in Wants(x, Seeds)
      BY <1>0, <2>1, <2>2, <2>3 DEF RunInv, SeedsSettle, SeedSettled
    <2>4. CASE f \notin Wants(x, Seeds)
      <3>1. f \notin x.hold
        BY <1>0, <2>1, <2>4 DEF RunInv, SeedsSettle
      <3>2. Root(f) \in x.projs \cup {Home}
        BY <1>0, <1>4, <2>2, FilesOfEntry, BlocksAssumption DEF RunInv, ScopeInv
      <3>3. Root(f) = Home \/ Root(f) \in present
        BY <1>0, <1>4, <2>2, <3>2 DEF RunInv, LiveInv
      <3>4. f \in Scanned(x.projs, unread)
        BY <2>2, <3>2, <3>3 DEF Scanned, TrustedRoot, Reachable
      <3> QED BY <1>1, <3>1, <3>4
    <2> QED BY <2>3, <2>4
  <1>12. RunInv(y)'
    <2>1. HeldInv(y)' /\ ScopeInv(y)' /\ RemovalInv(y)' /\ Commanded(y)'
      BY <1>3, <1>8, <1>9 DEF HeldInv, Wants, ScopeInv, RemovalInv, Cleared, Commanded
    <2>2. Tracked(y) => Tracked(y)'
      BY <1>3 DEF Tracked, HasBlock
    <2>3. PassInv(y)'
      BY <1>3, <1>7, <2>2 DEF PassInv, Wants
    <2>4. RulesSettle(y)'
      BY <1>1 DEF RulesSettle, RulesPass
    <2> QED BY <2>1, <2>3, <2>4, <1>l, <1>10 DEF RunInv
  <1>13. run[r].pc # "idle" /\ y.pc # "idle"
    BY <1>0, <1>1
  <1>14. CodexGone' /\ RemovedIsClean'
    BY <1>3 DEF BlocksInv, CodexGone, RemovedIsClean
  <1>15. lock' = r
    BY <1>0, <1>3 DEF BlocksInv, Holds
  <1> QED BY <1>1, <1>2, <1>4, <1>12, <1>13, <1>14, <1>15, OneMoves

LEMMA BeginRulesKeeps ==
  ASSUME BlocksInv, NEW r \in Procs, BeginRules(r)
  PROVE  BlocksInv'
  <1>0. PICK x \in Runs : x = run[r] /\ RunInv(x) /\ x.pc = "rules"
    BY DEF BlocksInv, TypeOK, BeginRules, At
  <1>1. PICK y \in Runs :
          /\ run' = [run EXCEPT ![r] = y] /\ SamePass(x, y)
          /\ y.pc = "rwrite" /\ y.live = Live(r) /\ y.old = ledger
          /\ y.todo = Targets(Projects, y.want, y.live)
          /\ y.keep = (ledger \cap x.projs) \ present /\ y.hold = y.keep
          /\ y.clean <=> (x.clean /\ x.projs \subseteq present)
    BY <1>0, BeginRulesMoves DEF BlocksInv
  <1>2. TypeOK'
    BY SyncTypes DEF BlocksInv
  <1>3. UNCHANGED <<disk, world, lock, history>>
    BY DEF BeginRules
  <1>4. x.pc \notin Passing /\ y.pc \in Passing /\ x.pc \in AfterSeeds
    BY <1>0, <1>1 DEF Passing, Writing, Stripping, AfterSeeds
  <1>5. /\ y.projs = x.projs /\ y.want = x.want /\ y.live = present \cap (y.projs \cup {Codex})
        /\ y.todo = Wants(y, Projects)
    BY <1>0, <1>1 DEF Live, SamePass, Wants
  <1>6. PassInv(y)
    <2>1. Accounted
      BY <1>0, <1>4, OutsidePass
    <2>2. Tracked(y)
      BY <1>1, <2>1 DEF Accounted, Tracked, Visited
    <2>3. KindOf(y.pc) = Projects
      BY <1>1 DEF KindOf
    <2>4. y.todo \subseteq Projects
      BY <1>5, WantFacts
    <2> QED BY <1>1, <1>5, <2>2, <2>3, <2>4 DEF PassInv
  <1>7. HeldInv(y) /\ RemovalInv(y) /\ Commanded(y)
    BY <1>1, <1>5 DEF HeldInv, RemovalInv, Commanded
  <1>8. ScopeInv(y)
    BY <1>0, <1>4, <1>5 DEF RunInv, ScopeInv
  <1>9. LiveInv(y)
    BY <1>5 DEF LiveInv
  <1>10. SeedsSettle(y)
    <2> SUFFICES ASSUME y.clean, NEW f \in Seeds \cap Minded(y) PROVE SeedSettled(y, f)
      BY <1>1 DEF SeedsSettle
    <2>1. f \in Files /\ f \notin unseen /\ Root(f) \in y.live \cup {Home}
      BY DEF Minded
    <2>2. Root(f) \in y.live => Root(f) \in x.live
      BY <1>0, <1>4, <1>5, <2>1 DEF RunInv, LiveInv
    <2>3. Root(f) \in x.live => Root(f) \in y.live
      BY <1>0, <1>4, <1>5, <2>1 DEF RunInv, LiveInv, ScopeInv
    <2>4. Want(y, f) = Want(x, f)
      BY <1>5, <2>1, <2>2, <2>3, WantFacts
    <2>5. f \in Minded(x)
      BY <2>1, <2>2 DEF Minded
    <2> QED BY <1>0, <1>1, <1>4, <2>4, <2>5 DEF RunInv, SeedsSettle, SeedSettled
  <1>11. RulesSettle(y)
    BY <1>1, <1>5 DEF RulesSettle, RulesPass
  <1>12. RunInv(y)
    BY <1>6, <1>7, <1>8, <1>9, <1>10, <1>11 DEF RunInv
  <1> QED BY <1>0, <1>1, <1>2, <1>3, <1>4, <1>12, QuietStep

(* Only ~/.codex is looked up again: what is wanted elsewhere, and where it *)
(* was delivered, is the same.                                              *)
LEMMA CodexLooked ==
  ASSUME NEW x \in Runs, NEW y \in Runs, y.want = x.want,
         \A root : root # Codex => (root \in x.live <=> root \in y.live)
  PROVE  /\ Wants(y, Projects) = Wants(x, Projects)
         /\ \A f \in Seeds : f \in Minded(y) => f \in Minded(x) /\ Want(y, f) = Want(x, f)
         /\ \A p \in Projects : EntrySettled(x, p) => EntrySettled(y, p)
  <1>1. \A f \in Seeds : f \in Files /\ Root(f) # Codex
    BY FilesOfEntry, KindsApart, BlocksAssumption
  <1>2. \A p \in Projects : \A f \in FilesOf(p) : f \in Files /\ Root(f) = p /\ Root(f) # Codex
    BY FilesOfEntry, KindsApart, BlocksAssumption
  <1>3. \A f \in Files : Root(f) # Codex => Want(y, f) = Want(x, f)
    BY WantFacts
  <1>4. \A f \in Files : Root(f) # Codex => (f \in Minded(y) <=> f \in Minded(x))
    BY DEF Minded
  <1>5. Wants(y, Projects) = Wants(x, Projects)
    <2>1. \A p \in Projects : p \in Wants(y, Projects) <=> p \in Wants(x, Projects)
      <3> TAKE p \in Projects
      <3>1. PICK f : f \in FilesOf(p)
        BY FilesOfEntry, KindsApart
      <3>2. p \in Wants(x, Projects) <=> Want(x, f) # None
        BY <3>1, WantFacts, KindsApart
      <3>3. p \in Wants(y, Projects) <=> Want(y, f) # None
        BY <3>1, WantFacts, KindsApart
      <3> QED BY <1>2, <1>3, <3>1, <3>2, <3>3
    <2> QED BY <2>1, WantFacts
  <1>6. \A p \in Projects : EntrySettled(x, p) => EntrySettled(y, p)
    BY <1>2, <1>3, <1>4 DEF EntrySettled
  <1> QED BY <1>1, <1>3, <1>4, <1>5, <1>6

(* From the projects' rules to the user-level ones. *)
LEMMA BeginGlobalsKeeps ==
  ASSUME BlocksInv, NEW r \in Procs, BeginGlobals(r)
  PROVE  BlocksInv'
  <1>0. PICK x \in Runs : x = run[r] /\ RunInv(x) /\ x.pc = "rwrite" /\ x.todo = {}
    BY DEF BlocksInv, TypeOK, BeginGlobals, At
  <1>1. PICK y \in Runs :
          /\ run' = [run EXCEPT ![r] = y] /\ SamePass(x, y)
          /\ y.pc = "gwrite" /\ y.live = (x.live \ {Codex}) \cup (present \cap {Codex})
          /\ y.todo = Targets(Globals, y.want, y.live)
          /\ y.old = x.old /\ y.keep = x.keep /\ y.hold = x.hold /\ y.clean = x.clean
    BY <1>0, BeginGlobalsMoves DEF BlocksInv
  <1>2. TypeOK'
    BY SyncTypes DEF BlocksInv
  <1>3. UNCHANGED <<disk, world, lock, history>>
    BY DEF BeginGlobals
  <1>4. x.pc \in Passing /\ y.pc \in Passing /\ x.pc \in AfterSeeds
    BY <1>0, <1>1 DEF Passing, Writing, Stripping, AfterSeeds
  <1>5. y.projs = x.projs /\ y.want = x.want /\ y.todo = Wants(y, Globals)
    BY <1>1 DEF SamePass, Wants
  <1>6. /\ Wants(y, Projects) = Wants(x, Projects)
        /\ \A f \in Seeds : f \in Minded(y) => f \in Minded(x) /\ Want(y, f) = Want(x, f)
        /\ \A p \in Projects : EntrySettled(x, p) => EntrySettled(y, p)
    BY <1>1, <1>5, CodexLooked
  <1>7. PassInv(y)
    <2>1. Tracked(x) /\ x.old = ledger /\ x.hold \cap x.old \subseteq x.keep
      BY <1>0, <1>4 DEF RunInv, PassInv
    <2>2. Visited(x.pc) = {} /\ Visited(y.pc) = {} /\ KindOf(y.pc) = Globals
      BY <1>0, <1>1 DEF Visited, KindOf
    <2>3. Tracked(y)
      BY <1>1, <2>1, <2>2 DEF Tracked
    <2>4. y.todo \subseteq Globals
      BY <1>5, WantFacts
    <2> QED BY <1>1, <1>5, <2>1, <2>2, <2>3, <2>4 DEF PassInv
  <1>8. HeldInv(y)
    BY <1>0, <1>1, <1>6 DEF RunInv, HeldInv
  <1>9. ScopeInv(y) /\ LiveInv(y) /\ RemovalInv(y) /\ Commanded(y)
    BY <1>0, <1>1, <1>4, <1>5 DEF RunInv, ScopeInv, LiveInv, RemovalInv, Commanded
  <1>10. SeedsSettle(y)
    BY <1>0, <1>1, <1>4, <1>6 DEF RunInv, SeedsSettle, SeedSettled
  <1>11. RulesSettle(y)
    <2> SUFFICES ASSUME y.clean
                 PROVE  /\ y.keep \cup y.hold \subseteq Wants(y, Projects) \cup Wants(y, Globals)
                        /\ \A p \in Wants(y, Projects) : EntrySettled(y, p)
      BY <1>1, <1>5 DEF RulesSettle, RulesPass
    <2>1. /\ x.keep \cup x.hold \subseteq Wants(x, Projects)
          /\ \A p \in Wants(x, Projects) : EntrySettled(x, p)
      BY <1>0, <1>1 DEF RunInv, RulesSettle, RulesPass
    <2> QED BY <1>1, <1>6, <2>1, WantFacts
  <1>12. RunInv(y)
    BY <1>7, <1>8, <1>9, <1>10, <1>11 DEF RunInv
  <1>13. run[r].pc # "idle" /\ y.pc # "idle"
    BY <1>0, <1>1
  <1> QED BY <1>1, <1>2, <1>3, <1>4, <1>12, <1>13, QuietStep

(* An entry that is not wanted, and that the pass neither kept nor will     *)
(* visit, has no block that it should have taken away.                      *)
LEMMA PassedOver ==
  ASSUME NEW x \in Runs, NEW kind, kind \subseteq Entries, NEW e \in kind,
         e \notin Wants(x, kind), HasBlock(e) => e \in untracked
  PROVE  EntrySettled(x, e)
  <1>1. \A f \in FilesOf(e) : Want(x, f) = None
    BY WantFacts
  <1> QED BY <1>1 DEF EntrySettled, HasBlock

(* From writing the user-level files to stripping them. *)
LEMMA BeginGlobalStripKeeps ==
  ASSUME BlocksInv, NEW r \in Procs, BeginGlobalStrip(r)
  PROVE  BlocksInv'
  <1>0. PICK x \in Runs : x = run[r] /\ RunInv(x) /\ x.pc = "gwrite" /\ x.todo = {}
    BY DEF BlocksInv, TypeOK, BeginGlobalStrip, At
  <1>1. PICK y \in Runs :
          /\ run' = [run EXCEPT ![r] = y] /\ SamePass(x, y)
          /\ y.pc = "gstrip" /\ y.live = x.live /\ y.todo = (x.old \cap Globals) \ x.hold
          /\ y.old = x.old /\ y.keep = x.keep /\ y.hold = x.hold /\ y.clean = x.clean
    BY <1>0, BeginGlobalStripMoves DEF BlocksInv
  <1>2. TypeOK'
    BY SyncTypes DEF BlocksInv
  <1>3. UNCHANGED <<disk, world, lock, history>>
    BY DEF BeginGlobalStrip
  <1>4. x.pc \in Passing /\ y.pc \in Passing /\ x.pc \in AfterSeeds
    BY <1>0, <1>1 DEF Passing, Writing, Stripping, AfterSeeds
  <1>5. /\ y.projs = x.projs /\ y.want = x.want
        /\ \A kind : Wants(y, kind) = Wants(x, kind)
        /\ Minded(y) = Minded(x) /\ \A f : Want(y, f) = Want(x, f)
        /\ \A e : EntrySettled(x, e) => EntrySettled(y, e)
    BY <1>1 DEF SamePass, Wants, Minded, Want, EntrySettled
  <1>6. Tracked(x) /\ x.old = ledger /\ x.hold \cap x.old \subseteq x.keep
    BY <1>0, <1>4 DEF RunInv, PassInv
  <1>7. Visited(x.pc) = {} /\ Visited(y.pc) = Globals /\ KindOf(y.pc) = Globals /\ y.pc \notin Writing
    BY <1>0, <1>1 DEF Visited, KindOf, Writing
  <1>8. PassInv(y)
    <2>1. Tracked(y)
      BY <1>1, <1>6, <1>7 DEF Tracked
    <2> QED BY <1>1, <1>6, <1>7, <2>1 DEF PassInv
  <1>9. HeldInv(y)
    BY <1>0, <1>1, <1>5 DEF RunInv, HeldInv
  <1>10. ScopeInv(y) /\ LiveInv(y) /\ RemovalInv(y) /\ Commanded(y)
    BY <1>0, <1>1, <1>4, <1>5 DEF RunInv, ScopeInv, LiveInv, RemovalInv, Commanded
  <1>11. SeedsSettle(y)
    BY <1>0, <1>1, <1>4, <1>5 DEF RunInv, SeedsSettle, SeedSettled
  <1>12. RulesSettle(y)
    <2> SUFFICES ASSUME y.clean
                 PROVE  /\ y.keep \cup y.hold \subseteq Wants(y, Projects) \cup Wants(y, Globals)
                        /\ y.todo \cap Wants(y, Globals) = {}
                        /\ \A p \in Wants(y, Projects) : EntrySettled(y, p)
                        /\ \A g \in Wants(y, Globals) : EntrySettled(y, g)
                        /\ \A g \in Globals : g \notin y.todo => EntrySettled(y, g)
      BY <1>1 DEF RulesSettle, RulesPass
    <2>1. /\ x.keep \cup x.hold \subseteq Wants(x, Projects) \cup Wants(x, Globals)
          /\ Wants(x, Globals) \subseteq x.hold
          /\ \A p \in Wants(x, Projects) : EntrySettled(x, p)
          /\ \A g \in Wants(x, Globals) : EntrySettled(x, g)
      BY <1>0, <1>1 DEF RunInv, RulesSettle, RulesPass
    <2>2. ASSUME NEW g \in Globals, g \notin y.todo, g \notin Wants(x, Globals)
          PROVE  EntrySettled(x, g)
      <3>1. g \notin x.keep \cup x.hold
        BY <2>1, <2>2, WantFacts, KindsApart
      <3>2. g \notin x.old
        BY <1>1, <2>2, <3>1
      <3>3. HasBlock(g) => g \in untracked
        BY <1>6, <3>1, <3>2, KindsApart DEF Tracked
      <3> QED BY <2>2, <3>3, PassedOver, KindsApart
    <2> QED BY <1>1, <1>5, <2>1, <2>2
  <1>13. RunInv(y)
    BY <1>8, <1>9, <1>10, <1>11, <1>12 DEF RunInv
  <1>14. run[r].pc # "idle" /\ y.pc # "idle"
    BY <1>0, <1>1
  <1> QED BY <1>1, <1>2, <1>3, <1>4, <1>13, <1>14, QuietStep

(* From the user-level files to the ledger's projects. *)
LEMMA BeginRuleStripKeeps ==
  ASSUME BlocksInv, NEW r \in Procs, BeginRuleStrip(r)
  PROVE  BlocksInv'
  <1>0. PICK x \in Runs : x = run[r] /\ RunInv(x) /\ x.pc = "gstrip" /\ x.todo = {}
    BY DEF BlocksInv, TypeOK, BeginRuleStrip, At
  <1>1. PICK y \in Runs :
          /\ run' = [run EXCEPT ![r] = y] /\ SamePass(x, y)
          /\ y.pc = "rstrip" /\ y.live = x.live /\ y.old = x.old /\ y.hold = x.hold
          /\ y.todo = ((x.old \cap Projects) \ x.hold) \ StrangeProjects(x)
          /\ y.keep = x.keep \cup StrangeProjects(x)
          /\ y.clean <=> (x.clean /\ StrangeProjects(x) = {})
    BY <1>0, BeginRuleStripMoves DEF BlocksInv
  <1>2. TypeOK'
    BY SyncTypes DEF BlocksInv
  <1>3. UNCHANGED <<disk, world, lock, history>>
    BY DEF BeginRuleStrip
  <1>4. x.pc \in Passing /\ y.pc \in Passing /\ x.pc \in AfterSeeds
    BY <1>0, <1>1 DEF Passing, Writing, Stripping, AfterSeeds
  <1>5. /\ y.projs = x.projs /\ y.want = x.want
        /\ \A kind : Wants(y, kind) = Wants(x, kind)
        /\ Minded(y) = Minded(x) /\ \A f : Want(y, f) = Want(x, f)
        /\ \A e : EntrySettled(x, e) => EntrySettled(y, e)
    BY <1>1 DEF SamePass, Wants, Minded, Want, EntrySettled
  <1>6. Tracked(x) /\ x.old = ledger /\ x.hold \cap x.old \subseteq x.keep
    BY <1>0, <1>4 DEF RunInv, PassInv
  <1>7. /\ Visited(x.pc) = Globals /\ Visited(y.pc) = Globals \cup Projects
        /\ KindOf(y.pc) = Projects /\ y.pc \notin Writing
    BY <1>0, <1>1 DEF Visited, KindOf, Writing
  <1>8. PassInv(y)
    <2>1. Tracked(y)
      <3> SUFFICES ASSUME NEW e \in Entries, HasBlock(e)
                   PROVE  \/ e \in y.keep \cup untracked
                          \/ e \in y.old /\ (e \notin Globals \cup Projects \/ e \in y.todo)
        BY <1>7 DEF Tracked
      <3>1. e \in x.keep \cup untracked \/ (e \in x.old /\ e \notin Globals)
        BY <1>0, <1>6, <1>7 DEF Tracked
      <3> QED BY <1>1, <1>6, <3>1
    <2> QED BY <1>1, <1>6, <1>7, <2>1 DEF PassInv
  <1>9. HeldInv(y)
    BY <1>0, <1>1, <1>5 DEF RunInv, HeldInv
  <1>10. ScopeInv(y) /\ LiveInv(y) /\ RemovalInv(y) /\ Commanded(y)
    BY <1>0, <1>1, <1>4, <1>5 DEF RunInv, ScopeInv, LiveInv, RemovalInv, Commanded
  <1>11. SeedsSettle(y)
    BY <1>0, <1>1, <1>4, <1>5 DEF RunInv, SeedsSettle, SeedSettled
  <1>12. RulesSettle(y)
    <2> SUFFICES ASSUME y.clean
                 PROVE  /\ y.keep \cup y.hold \subseteq Wants(y, Projects) \cup Wants(y, Globals)
                        /\ \A p \in Wants(y, Projects) : EntrySettled(y, p)
                        /\ \A g \in Wants(y, Globals) : EntrySettled(y, g)
                        /\ \A g \in Globals : EntrySettled(y, g)
                        /\ \A p \in Projects : p \notin y.todo => EntrySettled(y, p)
      BY <1>1 DEF RulesSettle, RulesPass
    <2>1. /\ x.keep \cup x.hold \subseteq Wants(x, Projects) \cup Wants(x, Globals)
          /\ \A p \in Wants(x, Projects) : EntrySettled(x, p)
          /\ \A g \in Globals : EntrySettled(x, g)
          /\ StrangeProjects(x) = {}
      BY <1>0, <1>1 DEF RunInv, RulesSettle, RulesPass
    <2>2. ASSUME NEW p \in Projects, p \notin y.todo, p \notin Wants(x, Projects)
          PROVE  EntrySettled(x, p)
      <3>1. p \notin x.keep \cup x.hold
        BY <2>1, <2>2, WantFacts, KindsApart
      <3>2. p \notin x.old
        BY <1>1, <2>1, <2>2, <3>1
      <3>3. HasBlock(p) => p \in untracked
        BY <1>6, <3>1, <3>2, KindsApart DEF Tracked
      <3> QED BY <2>2, <3>3, PassedOver, KindsApart
    <2>3. Wants(x, Globals) \subseteq Globals
      BY WantFacts
    <2> QED BY <1>1, <1>5, <2>1, <2>2, <2>3
  <1>13. RunInv(y)
    BY <1>8, <1>9, <1>10, <1>11, <1>12 DEF RunInv
  <1>14. run[r].pc # "idle" /\ y.pc # "idle"
    BY <1>0, <1>1
  <1> QED BY <1>1, <1>2, <1>3, <1>4, <1>13, <1>14, QuietStep

(* What a run wants and minds stays the same during a phase. *)
LEMMA SameAccount ==
  ASSUME NEW x \in Runs, NEW y \in Runs, GoesOn(x, y), RunInv(x), x.pc \in Passing
  PROVE  /\ y.pc = x.pc /\ y.old = x.old /\ y.projs = x.projs /\ y.want = x.want /\ y.live = x.live
         /\ \A kind : Wants(y, kind) = Wants(x, kind)
         /\ Minded(y) = Minded(x) /\ \A f : Want(y, f) = Want(x, f)
         /\ \A e : EntrySettled(x, e) => EntrySettled(y, e)
         /\ ScopeInv(y) /\ LiveInv(y) /\ RemovalInv(y) /\ Commanded(y)
  <1>1. y.pc = x.pc /\ y.old = x.old /\ y.projs = x.projs /\ y.want = x.want /\ y.live = x.live
    BY DEF GoesOn, SamePass
  <1>2. /\ \A kind : Wants(y, kind) = Wants(x, kind)
        /\ Minded(y) = Minded(x) /\ \A f : Want(y, f) = Want(x, f)
        /\ \A e : EntrySettled(x, e) => EntrySettled(y, e)
    BY <1>1 DEF Wants, Minded, Want, EntrySettled
  <1>3. ScopeInv(y) /\ LiveInv(y)
    BY <1>1 DEF RunInv, ScopeInv, LiveInv
  <1>4. RemovalInv(y) /\ Commanded(y)
    BY <1>1 DEF RemovalInv, Commanded, Passing, Writing, Stripping
  <1> QED BY <1>1, <1>2, <1>3, <1>4

(* The strip phases leave out an entry; nothing on disk changes. *)
LEMMA PassOver ==
  ASSUME NEW x \in Runs, NEW y \in Runs, GoesOn(x, y), RunInv(x), x.pc \in Stripping,
         NEW e \in Entries, y.todo \in {x.todo, x.todo \ {e}}, y.hold = x.hold,
         x.keep \subseteq y.keep,
         HasBlock(e) /\ e \in x.old /\ y.todo # x.todo => e \in y.keep,
         SeedsSettle(y), RulesSettle(y)
  PROVE  RunInv(y)
  <1>0. x.pc \in Passing /\ x.pc \notin Writing
    BY DEF Passing, Writing, Stripping
  <1>1. /\ y.pc = x.pc /\ y.old = x.old /\ \A kind : Wants(y, kind) = Wants(x, kind)
        /\ ScopeInv(y) /\ LiveInv(y) /\ RemovalInv(y) /\ Commanded(y)
    BY <1>0, SameAccount
  <1>2. PassInv(y)
    <2>1. /\ Tracked(x) /\ x.old = ledger /\ x.hold \cap x.old \subseteq x.keep
          /\ x.todo \subseteq KindOf(x.pc)
      BY <1>0 DEF RunInv, PassInv
    <2>2. Tracked(y)
      <3> SUFFICES ASSUME NEW d \in Entries, HasBlock(d)
                   PROVE  \/ d \in y.keep \cup untracked
                          \/ d \in y.old /\ (d \notin Visited(y.pc) \/ d \in y.todo)
        BY DEF Tracked
      <3>1. \/ d \in x.keep \cup untracked
            \/ d \in x.old /\ (d \notin Visited(x.pc) \/ d \in x.todo)
        BY <2>1 DEF Tracked
      <3>2. CASE d = e
        BY <1>1, <3>1, <3>2
      <3>3. CASE d # e
        BY <1>1, <3>1, <3>3
      <3> QED BY <3>2, <3>3
    <2> QED BY <1>0, <1>1, <2>1, <2>2 DEF PassInv
  <1>3. HeldInv(y)
    BY <1>1 DEF RunInv, HeldInv, Stripping
  <1> QED BY <1>1, <1>2, <1>3 DEF RunInv

(* A seed whose project is out of reach stays in the ledger. *)
LEMMA SeedRootGoneKeeps ==
  ASSUME BlocksInv, NEW r \in Procs, NEW e \in Seeds, SeedRootGone(r, e)
  PROVE  BlocksInv'
  <1>0. PICK x \in Runs : x = run[r] /\ RunInv(x) /\ x.pc = "sstrip"
    BY DEF BlocksInv, TypeOK, SeedRootGone, At
  <1>1. e \in Entries
    BY KindsApart
  <1>2. PICK y \in Runs :
          /\ run' = [run EXCEPT ![r] = y] /\ GoesOn(x, y)
          /\ y.todo = x.todo \ {e} /\ y.hold = x.hold
          /\ y.keep = x.keep \cup ({e} \cap x.old) /\ ~y.clean
    BY <1>0, <1>1, SeedRootGoneMoves DEF BlocksInv
  <1>3. TypeOK'
    BY SyncTypes DEF BlocksInv
  <1>4. UNCHANGED <<disk, world, lock, history>>
    BY DEF SeedRootGone
  <1>5. x.pc \in Stripping /\ y.pc \in Passing /\ y.pc # "idle"
    BY <1>0, <1>2 DEF GoesOn, Passing, Stripping
  <1>6. SeedsSettle(y) /\ RulesSettle(y)
    BY <1>2 DEF SeedsSettle, RulesSettle
  <1>7. RunInv(y)
    <2>1. /\ y.todo \in {x.todo, x.todo \ {e}} /\ x.keep \subseteq y.keep
          /\ HasBlock(e) /\ e \in x.old /\ y.todo # x.todo => e \in y.keep
      BY <1>2
    <2> QED BY <1>0, <1>1, <1>2, <1>5, <1>6, <2>1, PassOver
  <1> QED BY <1>0, <1>2, <1>3, <1>4, <1>5, <1>7, QuietStep

(* ~/.codex is gone, and its block went with it. *)
LEMMA GlobalRootGoneKeeps ==
  ASSUME BlocksInv, NEW r \in Procs, NEW e \in Globals, GlobalRootGone(r, e)
  PROVE  BlocksInv'
  <1>0. PICK x \in Runs : x = run[r] /\ RunInv(x) /\ x.pc = "gstrip"
    BY DEF BlocksInv, TypeOK, GlobalRootGone, At
  <1>1. e \in Entries
    BY KindsApart
  <1>2. PICK y \in Runs :
          /\ run' = [run EXCEPT ![r] = y] /\ GoesOn(x, y)
          /\ y.todo = x.todo \ {e} /\ y.hold = x.hold /\ y.keep = x.keep /\ y.clean = x.clean
    BY <1>0, <1>1, GlobalRootGoneMoves DEF BlocksInv
  <1>3. TypeOK'
    BY SyncTypes DEF BlocksInv
  <1>4. UNCHANGED <<disk, world, lock, history>>
    BY DEF GlobalRootGone
  <1>5. x.pc \in Stripping /\ x.pc \in Passing /\ y.pc \in Passing /\ y.pc # "idle"
    BY <1>0, <1>2 DEF GoesOn, Passing, Stripping
  <1>6. ~HasBlock(e)
    <2>1. ~Reachable(Root(e)) /\ FilesOf(e) = {e}
      BY FilesOfEntry DEF GlobalRootGone, InReach
    <2>2. e = <<Codex, "AGENTS.md">> /\ Codex \notin present
      BY <2>1 DEF Reachable, Globals, Root
    <2> QED BY <2>1, <2>2 DEF BlocksInv, CodexGone, HasBlock
  <1>7. /\ y.pc = x.pc /\ \A kind : Wants(y, kind) = Wants(x, kind)
        /\ Minded(y) = Minded(x) /\ \A f : Want(y, f) = Want(x, f)
        /\ \A d : EntrySettled(x, d) => EntrySettled(y, d)
    BY <1>0, <1>2, <1>5, SameAccount
  <1>8. SeedsSettle(y)
    BY <1>0, <1>2, <1>7 DEF RunInv, SeedsSettle, SeedSettled
  <1>9. RulesSettle(y)
    <2> SUFFICES ASSUME y.clean
                 PROVE  /\ y.keep \cup y.hold \subseteq Wants(y, Projects) \cup Wants(y, Globals)
                        /\ y.todo \cap Wants(y, Globals) = {}
                        /\ \A p \in Wants(y, Projects) : EntrySettled(y, p)
                        /\ \A g \in Wants(y, Globals) : EntrySettled(y, g)
                        /\ \A g \in Globals : g \notin y.todo => EntrySettled(y, g)
      BY <1>0, <1>7 DEF RulesSettle, RulesPass
    <2>1. /\ x.keep \cup x.hold \subseteq Wants(x, Projects) \cup Wants(x, Globals)
          /\ x.todo \cap Wants(x, Globals) = {}
          /\ \A p \in Wants(x, Projects) : EntrySettled(x, p)
          /\ \A g \in Wants(x, Globals) : EntrySettled(x, g)
          /\ \A g \in Globals : g \notin x.todo => EntrySettled(x, g)
      BY <1>0, <1>2 DEF RunInv, RulesSettle, RulesPass
    <2>2. EntrySettled(x, e)
      BY <1>6, <2>1, PassedOver, KindsApart
    <2> QED BY <1>2, <1>7, <2>1, <2>2
  <1>10. RunInv(y)
    BY <1>0, <1>1, <1>2, <1>5, <1>6, <1>8, <1>9, PassOver
  <1> QED BY <1>0, <1>2, <1>3, <1>4, <1>5, <1>10, QuietStep

(* A project of the ledger is looked for; one that is not there is kept. *)
LEMMA StatKeeps ==
  ASSUME BlocksInv, NEW r \in Procs, NEW p \in Projects, StatProject(r, p)
  PROVE  BlocksInv'
  <1>0. PICK x \in Runs : x = run[r] /\ RunInv(x) /\ x.pc = "rstrip"
    BY DEF BlocksInv, TypeOK, StatProject, At
  <1>1. p \in Entries
    BY KindsApart
  <1>2. PICK y \in Runs :
          /\ run' = [run EXCEPT ![r] = y] /\ GoesOn(x, y) /\ y.hold = x.hold
          /\ \/ y.todo = x.todo /\ y.keep = x.keep /\ y.clean = x.clean
             \/ y.todo = x.todo \ {p} /\ y.keep = x.keep \cup {p} /\ ~y.clean
    BY <1>0, StatMoves DEF BlocksInv
  <1>3. TypeOK'
    BY SyncTypes DEF BlocksInv
  <1>4. UNCHANGED <<disk, world, lock, history>>
    BY DEF StatProject
  <1>5. x.pc \in Stripping /\ x.pc \in Passing /\ y.pc \in Passing /\ y.pc # "idle"
    BY <1>0, <1>2 DEF GoesOn, Passing, Stripping
  <1>6. /\ y.pc = x.pc /\ \A kind : Wants(y, kind) = Wants(x, kind)
        /\ Minded(y) = Minded(x) /\ \A f : Want(y, f) = Want(x, f)
        /\ \A d : EntrySettled(x, d) => EntrySettled(y, d)
    BY <1>0, <1>2, <1>5, SameAccount
  <1>7. SeedsSettle(y) /\ RulesSettle(y)
    <2>1. CASE ~y.clean
      BY <2>1 DEF SeedsSettle, RulesSettle
    <2>2. CASE y.todo = x.todo /\ y.keep = x.keep /\ y.clean = x.clean
      BY <1>0, <1>2, <1>6, <2>2 DEF RunInv, SeedsSettle, SeedSettled, RulesSettle
    <2> QED BY <1>2, <2>1, <2>2
  <1>8. RunInv(y)
    <2>1. /\ y.todo \in {x.todo, x.todo \ {p}} /\ x.keep \subseteq y.keep
          /\ HasBlock(p) /\ p \in x.old /\ y.todo # x.todo => p \in y.keep
      BY <1>2
    <2> QED BY <1>0, <1>1, <1>2, <1>5, <1>7, <2>1, PassOver
  <1> QED BY <1>0, <1>2, <1>3, <1>4, <1>5, <1>8, QuietStep

-----------------------------------------------------------------------------
(* Steps that change files *)

(* What a merge does to the files. *)
LEMMA MergeFacts ==
  ASSUME TypeOK, NEW r \in Procs, NEW x, x = run[r], NEW e \in Entries, NEW bad,
         block' = Merged(r, e, bad)
  PROVE  /\ \A f \in Files : f \notin FilesOf(e) \/ f \in bad => block'[f] = block[f]
         /\ \A f \in FilesOf(e) : f \notin bad =>
               block'[f] = IF Healthy(block[f]) THEN Want(x, f) ELSE block[f]
         /\ \A d \in Entries : d # e => \A f \in FilesOf(d) : block'[f] = block[f]
  <1>1. \A f \in Files : f \notin FilesOf(e) \/ f \in bad => block'[f] = block[f]
    BY DEF Merged
  <1>2. \A f \in FilesOf(e) : f \notin bad =>
          block'[f] = IF Healthy(block[f]) THEN Want(x, f) ELSE block[f]
    BY FilesOfEntry DEF Merged, mergeFile, mergeSeed, mergeRules, Healthy, Wanted, Want
  <1>3. \A d \in Entries : d # e => \A f \in FilesOf(d) : f \in Files /\ f \notin FilesOf(e)
    BY FileHasOneEntry, FilesOfEntry
  <1> QED BY <1>1, <1>2, <1>3

(* What a strip does to them. *)
LEMMA StripFacts ==
  ASSUME TypeOK, NEW e \in Entries, NEW bad, block' = Stripped(e, bad)
  PROVE  /\ \A f \in FilesOf(e) : f \notin bad =>
               block'[f] = IF Healthy(block[f]) THEN None ELSE block[f]
         /\ \A f \in Files : block'[f] = block[f] \/ block'[f] = None
         /\ \A d \in Entries : d # e => \A f \in FilesOf(d) : block'[f] = block[f]
  <1>1. \A f \in Files : f \notin FilesOf(e) => block'[f] = block[f]
    BY DEF Stripped
  <1>2. \A f \in FilesOf(e) : f \notin bad =>
          block'[f] = IF Healthy(block[f]) THEN None ELSE block[f]
    BY FilesOfEntry DEF Stripped, stripFile, Healthy
  <1>3. \A d \in Entries : d # e => \A f \in FilesOf(d) : f \in Files /\ f \notin FilesOf(e)
    BY FileHasOneEntry, FilesOfEntry
  <1>4. \A f \in Files : block'[f] = block[f] \/ block'[f] = None
    BY DEF Stripped, stripFile
  <1> QED BY <1>1, <1>2, <1>3, <1>4

(* The entries that a step leaves alone are as settled as they were. *)
LEMMA OthersSettled ==
  ASSUME NEW x \in Runs, NEW y \in Runs, NEW d \in Entries, EntrySettled(x, d),
         Minded(y)' \subseteq Minded(x), \A f : Want(y, f) = Want(x, f),
         \A f \in FilesOf(d) : block'[f] = block[f], untracked \subseteq untracked'
  PROVE  EntrySettled(y, d)'
  <1>1. \A f \in FilesOf(d) : f \in Minded(y)' => f \in Minded(x)
    OBVIOUS
  <1> QED BY <1>1 DEF EntrySettled, Want

(* A merge gives one entry what is wanted. *)
LEMMA WriteKeeps ==
  ASSUME BlocksInv, NEW r \in Procs, NEW e \in Entries, NEW bad \in SUBSET FilesOf(e),
         run[r].pc \in Writing, WriteEntry(r, e, bad), InReach(e) \/ bad = FilesOf(e), TypeOK'
  PROVE  BlocksInv'
  <1>0. PICK x \in Runs : x = run[r] /\ RunInv(x) /\ x.pc \in Writing
    BY DEF BlocksInv, TypeOK
  <1>1. PICK y \in Runs :
          /\ run' = [run EXCEPT ![r] = y] /\ GoesOn(x, y)
          /\ y.todo = x.todo \ {e}
          /\ y.keep = x.keep \cup KeptAfterWrite(r, e, bad = {})
          /\ y.hold = x.hold \cup HeldFromStrip(e, bad = {})
          /\ y.clean <=> (x.clean /\ bad = {} /\ ~Malformed(e))
    BY <1>0, WriteMoves DEF BlocksInv
  <1>2. /\ e \in x.todo /\ block' = Merged(r, e, bad)
        /\ UNCHANGED <<registered, present, ledger, lock, history>>
    BY <1>0, Zenon DEF WriteEntry
  <1>3. UNCHANGED <<untracked, left, unseen>>
    BY <1>2 DEF history
  <1>4. /\ x.pc \in Passing /\ y.pc \in Passing /\ x.pc # "idle" /\ y.pc # "idle"
        /\ Visited(x.pc) = {} /\ x.pc \in {"swrite", "rwrite", "gwrite"} /\ y.pc = x.pc
    BY <1>0, <1>1 DEF GoesOn, Passing, Writing, Visited
  <1>5. /\ \A f \in Files : f \notin FilesOf(e) \/ f \in bad => block'[f] = block[f]
        /\ \A f \in FilesOf(e) : f \notin bad =>
              block'[f] = IF Healthy(block[f]) THEN Want(x, f) ELSE block[f]
        /\ \A d \in Entries : d # e => \A f \in FilesOf(d) : block'[f] = block[f]
    BY <1>0, <1>2, MergeFacts DEF BlocksInv
  <1>6. /\ y.old = x.old /\ y.projs = x.projs /\ y.want = x.want /\ y.live = x.live
        /\ \A kind : Wants(y, kind) = Wants(x, kind)
        /\ Minded(y) = Minded(x) /\ \A f : Want(y, f) = Want(x, f)
        /\ ScopeInv(y) /\ LiveInv(y) /\ RemovalInv(y) /\ Commanded(y)
    BY <1>0, <1>1, <1>4, SameAccount
  <1>7. /\ Tracked(x) /\ x.old = ledger /\ x.hold \cap x.old \subseteq x.keep
        /\ x.todo \subseteq KindOf(x.pc) /\ x.todo \subseteq Wants(x, KindOf(x.pc))
    BY <1>0, <1>4 DEF RunInv, PassInv
  <1>8. /\ x.pc = "swrite" => e \in Seeds /\ e \in Wants(x, Seeds)
        /\ x.pc = "rwrite" => e \in Projects /\ e \in Wants(x, Projects)
        /\ x.pc = "gwrite" => e \in Globals /\ e \in Wants(x, Globals)
    BY <1>2, <1>7 DEF KindOf
  <1>9. Minded(y)' = Minded(y)
    BY <1>3 DEF Minded
  <1>10. PassInv(y)'
    <2>1. y.hold \cap y.old \subseteq y.keep
      BY <1>0, <1>1, <1>6, <1>7 DEF KeptAfterWrite, HeldFromStrip
    <2>2. Tracked(y)'
      <3> SUFFICES ASSUME NEW d \in Entries, HasBlock(d)'
                   PROVE  d \in y.keep \cup untracked \cup y.old
        BY <1>3, <1>4 DEF Tracked
      <3>1. CASE HasBlock(d)
        BY <1>1, <1>4, <1>6, <1>7, <3>1 DEF Tracked
      <3>2. CASE ~HasBlock(d)
        <4>1. d = e
          BY <1>5, <3>2 DEF HasBlock
        <4>2. PICK f \in FilesOf(e) : f \notin bad
          BY <1>5, <3>2, <4>1, FilesOfEntry DEF HasBlock
        <4>3. bad = {} \/ e \notin Seeds
          BY <4>2, FilesOfEntry
        <4> QED BY <1>1, <4>1, <4>3 DEF KeptAfterWrite
      <3> QED BY <3>1, <3>2
    <2>3. y.todo \subseteq Wants(y, KindOf(y.pc)) /\ y.todo \subseteq KindOf(y.pc)
      BY <1>1, <1>4, <1>6, <1>7
    <2>4. y.old = ledger'
      BY <1>2, <1>6, <1>7
    <2>5. (y.todo \subseteq Wants(y, KindOf(y.pc)))'
      BY <2>3 DEF Wants
    <2> QED BY <2>1, <2>2, <2>3, <2>4, <2>5 DEF PassInv
  <1>11. HeldInv(y)'
    <2>1. x.todo \subseteq y.todo \cup y.hold \/ x.pc = "gwrite"
      BY <1>1, <1>4, <1>8, KindsApart DEF HeldFromStrip
    <2>2. x.hold \subseteq y.hold
      BY <1>1
    <2>3. HeldInv(y)
      BY <1>0, <1>4, <1>6, <2>1, <2>2 DEF RunInv, HeldInv
    <2> QED BY <2>3 DEF HeldInv, Wants
  <1>12. ScopeInv(y)' /\ RemovalInv(y)' /\ Commanded(y)' /\ LiveInv(y)'
    <2>1. ScopeInv(y)' /\ Commanded(y)' /\ LiveInv(y)'
      BY <1>2, <1>3, <1>6 DEF ScopeInv, Commanded, LiveInv
    <2>2. RemovalInv(y)'
      BY <1>4 DEF RemovalInv
    <2> QED BY <2>1, <2>2
  <1>13. ASSUME y.clean
         PROVE  x.clean /\ \A f \in FilesOf(e) : block'[f] = Want(y, f)
    <2>1. x.clean /\ bad = {} /\ \A f \in FilesOf(e) : Healthy(block[f])
      BY <1>1, <1>13 DEF Malformed, Healthy
    <2> QED BY <1>5, <1>6, <2>1
  <1>14. SeedsSettle(y)'
    <2> SUFFICES ASSUME y.clean
                 PROVE  /\ y.pc = "swrite" =>
                             /\ y.hold \subseteq Wants(y, Seeds)
                             /\ \A f \in Seeds \ unseen :
                                   f \in Wants(y, Seeds) \ y.todo => block'[f] = Want(y, f)
                        /\ y.pc \in {"rwrite", "gwrite"} =>
                             \A f \in Seeds \cap Minded(y) : SeedSettled(y, f)'
      BY <1>3, <1>4, <1>9 DEF SeedsSettle, Wants, Want, AfterSeeds
    <2>1. \A f \in Seeds : f # e => block'[f] = block[f]
      BY <1>5, FilesOfEntry, KindsApart
    <2>2. CASE y.pc = "swrite"
      <3>1. /\ x.hold \subseteq Wants(x, Seeds)
            /\ \A f \in Seeds \ unseen : f \in Wants(x, Seeds) \ x.todo => block[f] = Want(x, f)
        BY <1>0, <1>4, <1>13, <2>2 DEF RunInv, SeedsSettle
      <3>2. e \in FilesOf(e) /\ e \in Wants(x, Seeds)
        BY <1>4, <1>8, <2>2, FilesOfEntry
      <3>3. y.hold \subseteq Wants(y, Seeds)
        BY <1>1, <1>6, <3>1, <3>2 DEF HeldFromStrip
      <3> QED BY <1>1, <1>6, <1>13, <2>1, <2>2, <3>1, <3>2, <3>3
    <2>3. CASE y.pc \in {"rwrite", "gwrite"}
      <3>1. e \notin Seeds
        BY <1>4, <1>8, <2>3, KindsApart
      <3>2. \A f \in Seeds \cap Minded(x) : SeedSettled(x, f)
        BY <1>0, <1>4, <1>13, <2>3 DEF RunInv, SeedsSettle, AfterSeeds
      <3> QED BY <1>6, <2>1, <2>3, <3>1, <3>2 DEF SeedSettled, Want
    <2> QED BY <1>4, <2>2, <2>3
  <1>15. RulesSettle(y)'
    <2>1. ASSUME y.clean PROVE EntrySettled(y, e)'
      BY <1>13, <2>1 DEF EntrySettled, Want
    <2>2. ASSUME NEW d \in Entries, d # e, EntrySettled(x, d) PROVE EntrySettled(y, d)'
      BY <1>3, <1>5, <1>6, <1>9, <2>2, OthersSettled
    <2>3. CASE x.pc = "swrite"
      BY <1>4, <2>3 DEF RulesSettle, RulesPass
    <2>4. CASE x.pc = "rwrite"
      <3> SUFFICES ASSUME y.clean
                   PROVE  /\ y.keep \cup y.hold \subseteq Wants(y, Projects)
                          /\ \A p \in Wants(y, Projects) : p \notin y.todo => EntrySettled(y, p)'
        BY <1>4, <2>4 DEF RulesSettle, RulesPass, Wants
      <3>1. /\ x.keep \cup x.hold \subseteq Wants(x, Projects)
            /\ \A p \in Wants(x, Projects) : p \notin x.todo => EntrySettled(x, p)
        BY <1>0, <1>13, <2>4 DEF RunInv, RulesSettle, RulesPass
      <3>2. y.keep \cup y.hold \subseteq x.keep \cup x.hold \cup {e}
        BY <1>1 DEF KeptAfterWrite, HeldFromStrip
      <3> QED BY <1>1, <1>6, <1>8, <2>1, <2>2, <2>4, <3>1, <3>2, WantFacts, KindsApart
    <2>5. CASE x.pc = "gwrite"
      <3> SUFFICES ASSUME y.clean
                   PROVE  /\ y.keep \cup y.hold \subseteq Wants(y, Projects) \cup Wants(y, Globals)
                          /\ Wants(y, Globals) \subseteq y.todo \cup y.hold
                          /\ \A p \in Wants(y, Projects) : EntrySettled(y, p)'
                          /\ \A g \in Wants(y, Globals) : g \notin y.todo => EntrySettled(y, g)'
        BY <1>4, <2>5 DEF RulesSettle, RulesPass, Wants
      <3>1. /\ x.keep \cup x.hold \subseteq Wants(x, Projects) \cup Wants(x, Globals)
            /\ Wants(x, Globals) \subseteq x.todo \cup x.hold
            /\ \A p \in Wants(x, Projects) : EntrySettled(x, p)
            /\ \A g \in Wants(x, Globals) : g \notin x.todo => EntrySettled(x, g)
        BY <1>0, <1>13, <2>5 DEF RunInv, RulesSettle, RulesPass
      <3>2. y.keep \cup y.hold \subseteq x.keep \cup x.hold \cup {e}
        BY <1>1 DEF KeptAfterWrite, HeldFromStrip
      <3>3. y.hold = x.hold \cup {e}
        BY <1>1 DEF HeldFromStrip
      <3>4. \A p \in Wants(y, Projects) : EntrySettled(y, p)'
        BY <1>6, <1>8, <2>2, <2>5, <3>1, WantFacts, KindsApart
      <3>5. \A g \in Wants(y, Globals) : g \notin y.todo => EntrySettled(y, g)'
        BY <1>1, <1>6, <2>1, <2>2, <3>1, WantFacts, KindsApart
      <3> QED BY <1>1, <1>6, <1>8, <2>5, <3>1, <3>2, <3>3, <3>4, <3>5
    <2> QED BY <1>4, <2>3, <2>4, <2>5
  <1>16. CodexGone'
    <2> SUFFICES ASSUME Codex \notin present, InReach(e) PROVE block'[<<Codex, "AGENTS.md">>] = None
      <3>1. ASSUME bad = FilesOf(e) PROVE \A f \in Files : block'[f] = block[f]
        BY <1>5, <3>1
      <3>2. <<Codex, "AGENTS.md">> \in Files
        BY FilesOfEntry, KindsApart DEF Globals
      <3> QED BY <1>2, <3>1, <3>2 DEF BlocksInv, CodexGone
    <2>1. <<Codex, "AGENTS.md">> \in Files /\ Root(<<Codex, "AGENTS.md">>) = Codex
      BY FilesOfEntry, KindsApart DEF Globals, Root
    <2>2. <<Codex, "AGENTS.md">> \notin FilesOf(e)
      BY <2>1, BlocksAssumption DEF InReach, Reachable
    <2> QED BY <1>5, <2>1, <2>2 DEF BlocksInv, CodexGone
  <1>17. RemovedIsClean'
    <2> SUFFICES ASSUME NEW p \in Projects \ registered, NEW f \in Under(p)
                 PROVE  block'[f] = None \/ ~Healthy(block'[f]) \/ f \in left
      BY <1>2, <1>3 DEF RemovedIsClean
    <2>1. f \in Files /\ Root(f) = p /\ (block[f] = None \/ ~Healthy(block[f]) \/ f \in left)
      BY DEF BlocksInv, RemovedIsClean, Under
    <2>2. p \notin x.live \cup {Home}
      BY <1>0, <1>4, BlocksAssumption DEF RunInv, ScopeInv
    <2>3. Want(x, f) = None
      BY <2>1, <2>2, WantFacts
    <2> QED BY <1>5, <2>1, <2>3
  <1>18. RunInv(y)'
    BY <1>10, <1>11, <1>12, <1>14, <1>15 DEF RunInv
  <1>19. lock' = r
    BY <1>0, <1>2, <1>4 DEF BlocksInv, Holds
  <1> QED BY <1>0, <1>1, <1>4, <1>16, <1>17, <1>18, <1>19, OneMoves

(* A strip takes one entry's blocks away, or the entry stays. *)
LEMMA StripKeeps ==
  ASSUME BlocksInv, NEW r \in Procs, NEW e \in Entries, NEW bad \in SUBSET FilesOf(e),
         run[r].pc \in Stripping, StripEntry(r, e, bad), TypeOK'
  PROVE  BlocksInv'
  <1>0. PICK x \in Runs : x = run[r] /\ RunInv(x) /\ x.pc \in Stripping
    BY DEF BlocksInv, TypeOK
  <1>1. PICK y \in Runs :
          /\ run' = [run EXCEPT ![r] = y] /\ GoesOn(x, y)
          /\ y.todo = x.todo \ {e} /\ y.hold = x.hold
          /\ y.keep = x.keep \cup (IF bad # {} \/ Refused(e) THEN {e} \cap x.old ELSE {})
          /\ y.clean <=> (x.clean /\ ~(bad # {} \/ Refused(e)))
    BY <1>0, StripMoves DEF BlocksInv
  <1>2. /\ e \in x.todo /\ block' = Stripped(e, bad)
        /\ UNCHANGED <<registered, present, ledger, lock, left, unseen>>
    BY <1>0, Zenon DEF StripEntry
  <1>3. /\ UNCHANGED <<left, unseen>>
        /\ untracked \subseteq untracked'
        /\ bad # {} \/ Refused(e) \/ Overlooked(e) \subseteq untracked'
    BY DEF StripEntry
  <1>4. /\ x.pc \in Passing /\ y.pc \in Passing /\ x.pc # "idle" /\ y.pc # "idle"
        /\ x.pc \in {"sstrip", "gstrip", "rstrip"} /\ y.pc = x.pc /\ x.pc \notin Writing
    BY <1>0, <1>1 DEF GoesOn, Passing, Stripping, Writing
  <1>5. /\ \A f \in FilesOf(e) : f \notin bad =>
              block'[f] = IF Healthy(block[f]) THEN None ELSE block[f]
        /\ \A f \in Files : block'[f] = block[f] \/ block'[f] = None
        /\ \A d \in Entries : d # e => \A f \in FilesOf(d) : block'[f] = block[f]
    BY <1>2, StripFacts DEF BlocksInv
  <1>6. /\ y.old = x.old /\ y.projs = x.projs /\ y.want = x.want /\ y.live = x.live
        /\ \A kind : Wants(y, kind) = Wants(x, kind)
        /\ Minded(y) = Minded(x) /\ \A f : Want(y, f) = Want(x, f)
        /\ ScopeInv(y) /\ LiveInv(y) /\ RemovalInv(y) /\ Commanded(y)
    BY <1>0, <1>1, <1>4, SameAccount
  <1>7. /\ Tracked(x) /\ x.old = ledger /\ x.hold \cap x.old \subseteq x.keep
        /\ x.todo \subseteq KindOf(x.pc)
    BY <1>0, <1>4 DEF RunInv, PassInv
  <1>8. /\ x.pc = "sstrip" => e \in Seeds /\ e \notin Wants(x, Seeds)
        /\ x.pc = "gstrip" => e \in Globals /\ (x.clean => e \notin Wants(x, Globals))
        /\ x.pc = "rstrip" => e \in Projects /\ e \notin Wants(x, Projects)
    BY <1>0, <1>2, <1>7 DEF KindOf, RunInv, HeldInv, RulesSettle
  <1>9. Minded(y)' = Minded(y)
    BY <1>3 DEF Minded
  <1>10. PassInv(y)'
    <2>1. y.hold \cap y.old \subseteq y.keep
      BY <1>1, <1>6, <1>7
    <2>2. Tracked(y)'
      <3> SUFFICES ASSUME NEW d \in Entries, HasBlock(d)'
                   PROVE  \/ d \in y.keep \cup untracked'
                          \/ d \in y.old /\ (d \notin Visited(x.pc) \/ d \in y.todo)
        BY <1>4 DEF Tracked
      <3>1. HasBlock(d)
        BY <1>5, FilesOfEntry DEF HasBlock
      <3>2. \/ d \in x.keep \cup untracked
            \/ d \in x.old /\ (d \notin Visited(x.pc) \/ d \in x.todo)
        BY <1>7, <3>1 DEF Tracked
      <3>3. CASE d = e
        <4>1. PICK f \in FilesOf(e) : block'[f] # None
          BY <3>3 DEF HasBlock
        <4>2. CASE bad # {} \/ Refused(e)
          BY <1>1, <1>3, <1>6, <3>2, <3>3, <4>2
        <4>3. CASE ~(bad # {} \/ Refused(e))
          <5>1. block'[f] = block[f] /\ ~Healthy(block[f])
            BY <1>5, <4>1, <4>3
          <5>2. f \in Seeds /\ block[f] = Headless
            BY <4>1, <4>3, <5>1 DEF Refused, HasBegin
          <5>3. e \in Overlooked(e)
            BY <4>1, <5>2, FilesOfEntry, FileHasOneEntry, KindsApart DEF Overlooked
          <5> QED BY <1>3, <3>3, <4>3, <5>3
        <4> QED BY <4>2, <4>3
      <3>4. CASE d # e
        BY <1>1, <1>3, <1>6, <3>2, <3>4
      <3> QED BY <3>3, <3>4
    <2>3. y.todo \subseteq KindOf(y.pc) /\ y.pc \notin Writing
      BY <1>1, <1>4, <1>7
    <2>4. y.old = ledger'
      BY <1>2, <1>6, <1>7
    <2> QED BY <2>1, <2>2, <2>3, <2>4 DEF PassInv
  <1>11. HeldInv(y)'
    <2>1. HeldInv(y)
      BY <1>0, <1>1, <1>4, <1>6 DEF RunInv, HeldInv
    <2> QED BY <2>1 DEF HeldInv, Wants
  <1>12. ScopeInv(y)' /\ RemovalInv(y)' /\ Commanded(y)' /\ LiveInv(y)'
    <2>1. ScopeInv(y)' /\ Commanded(y)' /\ LiveInv(y)'
      BY <1>2, <1>3, <1>6 DEF ScopeInv, Commanded, LiveInv
    <2>2. RemovalInv(y)'
      BY <1>4 DEF RemovalInv
    <2> QED BY <2>1, <2>2
  <1>13. ASSUME y.clean
         PROVE  /\ x.clean /\ y.keep = x.keep
                /\ \A f \in FilesOf(e) : block'[f] = None \/ (f \in Seeds /\ block'[f] = Headless)
    <2>1. x.clean /\ bad = {} /\ ~Refused(e)
      BY <1>1, <1>13
    <2>2. \A f \in FilesOf(e) :
             Healthy(block[f]) \/ (f \in Seeds /\ block[f] \in {None, Headless})
      BY <2>1 DEF Refused, HasBegin
    <2> QED BY <1>1, <1>5, <2>1, <2>2
  <1>14. SeedsSettle(y)'
    <2> SUFFICES ASSUME y.clean, NEW f \in Seeds \cap Minded(y)
                 PROVE  SeedSettled(y, f)' \/ (y.pc = "sstrip" /\ f \in y.todo)
      BY <1>4, <1>9 DEF SeedsSettle, Want, AfterSeeds
    <2>1. SeedSettled(x, f) \/ (x.pc = "sstrip" /\ f \in x.todo)
      BY <1>0, <1>4, <1>6, <1>13 DEF RunInv, SeedsSettle, AfterSeeds
    <2>2. CASE f = e
      <3>1. x.pc = "sstrip" /\ e \notin Wants(x, Seeds)
        BY <1>4, <1>8, <2>2, KindsApart
      <3>2. f \in FilesOf(e) /\ Want(x, f) = None
        BY <2>2, <3>1, WantFacts, FilesOfEntry, KindsApart
      <3> QED BY <1>6, <1>13, <3>2 DEF SeedSettled, Want
    <2>3. CASE f # e
      <3>1. block'[f] = block[f]
        BY <1>5, <2>3, FilesOfEntry, KindsApart
      <3> QED BY <1>1, <1>4, <1>6, <2>1, <2>3, <3>1 DEF SeedSettled, Want
    <2> QED BY <2>2, <2>3
  <1>15. RulesSettle(y)'
    <2>1. ASSUME y.clean, NEW kind, kind \subseteq Projects \cup Globals,
                 e \in kind, e \notin Wants(x, kind)
          PROVE  EntrySettled(y, e)'
      <3>1. \A f \in FilesOf(e) : Want(y, f) = None
        BY <1>6, <2>1, WantFacts, KindsApart
      <3>2. \A f \in FilesOf(e) : f \notin Seeds
        BY <2>1, KindsApart, FilesOfEntry, FileHasOneEntry
      <3> QED BY <1>13, <2>1, <3>1, <3>2 DEF EntrySettled, Want
    <2>2. ASSUME NEW d \in Entries, d # e, EntrySettled(x, d) PROVE EntrySettled(y, d)'
      BY <1>3, <1>5, <1>6, <1>9, <2>2, OthersSettled
    <2>3. CASE x.pc = "sstrip"
      BY <1>4, <2>3 DEF RulesSettle, RulesPass
    <2>4. CASE x.pc = "gstrip"
      <3> SUFFICES ASSUME y.clean
                   PROVE  /\ y.keep \cup y.hold \subseteq Wants(y, Projects) \cup Wants(y, Globals)
                          /\ y.todo \cap Wants(y, Globals) = {}
                          /\ \A p \in Wants(y, Projects) : EntrySettled(y, p)'
                          /\ \A g \in Wants(y, Globals) : EntrySettled(y, g)'
                          /\ \A g \in Globals : g \notin y.todo => EntrySettled(y, g)'
        BY <1>4, <2>4 DEF RulesSettle, RulesPass, Wants
      <3>1. /\ x.keep \cup x.hold \subseteq Wants(x, Projects) \cup Wants(x, Globals)
            /\ x.todo \cap Wants(x, Globals) = {}
            /\ \A p \in Wants(x, Projects) : EntrySettled(x, p)
            /\ \A g \in Wants(x, Globals) : EntrySettled(x, g)
            /\ \A g \in Globals : g \notin x.todo => EntrySettled(x, g)
        BY <1>0, <1>13, <2>4 DEF RunInv, RulesSettle, RulesPass
      <3>2. e \in Globals /\ e \notin Wants(x, Globals) /\ e \notin Projects
        BY <1>8, <1>13, <2>4, KindsApart
      <3>3. EntrySettled(y, e)'
        BY <2>1, <3>2, KindsApart
      <3>4. \A p \in Wants(y, Projects) : EntrySettled(y, p)'
        BY <1>6, <2>2, <3>1, <3>2, WantFacts, KindsApart
      <3>5. \A g \in Wants(y, Globals) : EntrySettled(y, g)'
        BY <1>6, <2>2, <3>1, <3>2, WantFacts, KindsApart
      <3>6. \A g \in Globals : g \notin y.todo => EntrySettled(y, g)'
        BY <1>1, <2>2, <3>1, <3>3, KindsApart
      <3> QED BY <1>1, <1>6, <1>13, <3>1, <3>4, <3>5, <3>6
    <2>5. CASE x.pc = "rstrip"
      <3> SUFFICES ASSUME y.clean
                   PROVE  /\ y.keep \cup y.hold \subseteq Wants(y, Projects) \cup Wants(y, Globals)
                          /\ \A p \in Wants(y, Projects) : EntrySettled(y, p)'
                          /\ \A g \in Wants(y, Globals) : EntrySettled(y, g)'
                          /\ \A g \in Globals : EntrySettled(y, g)'
                          /\ \A p \in Projects : p \notin y.todo => EntrySettled(y, p)'
        BY <1>4, <2>5 DEF RulesSettle, RulesPass, Wants
      <3>1. /\ x.keep \cup x.hold \subseteq Wants(x, Projects) \cup Wants(x, Globals)
            /\ \A p \in Wants(x, Projects) : EntrySettled(x, p)
            /\ \A g \in Globals : EntrySettled(x, g)
            /\ \A p \in Projects : p \notin x.todo => EntrySettled(x, p)
        BY <1>0, <1>13, <2>5 DEF RunInv, RulesSettle, RulesPass
      <3>2. e \in Projects /\ e \notin Wants(x, Projects) /\ e \notin Globals
        BY <1>8, <2>5, KindsApart
      <3>3. EntrySettled(y, e)'
        BY <2>1, <3>2, KindsApart
      <3>4. \A p \in Wants(y, Projects) : EntrySettled(y, p)'
        BY <1>6, <2>2, <3>1, <3>2, WantFacts, KindsApart
      <3>5. \A g \in Globals : EntrySettled(y, g)'
        BY <2>2, <3>1, <3>2, KindsApart
      <3>6. \A p \in Projects : p \notin y.todo => EntrySettled(y, p)'
        BY <1>1, <2>2, <3>1, <3>3, KindsApart
      <3> QED BY <1>1, <1>6, <1>13, <3>1, <3>4, <3>5, <3>6, WantFacts
    <2> QED BY <1>4, <2>3, <2>4, <2>5
  <1>16. CodexGone'
    <2>1. <<Codex, "AGENTS.md">> \in Files
      BY FilesOfEntry, KindsApart DEF Globals
    <2> QED BY <1>2, <1>5, <2>1 DEF BlocksInv, CodexGone
  <1>17. RemovedIsClean'
    BY <1>2, <1>3, <1>5 DEF BlocksInv, RemovedIsClean, Under
  <1>18. RunInv(y)'
    BY <1>10, <1>11, <1>12, <1>14, <1>15 DEF RunInv
  <1>19. lock' = r
    BY <1>0, <1>2, <1>4 DEF BlocksInv, Holds
  <1> QED BY <1>0, <1>1, <1>4, <1>16, <1>17, <1>18, <1>19, OneMoves

(* A project that vanished under the strip is given up. *)
LEMMA ProjectGoneKeeps ==
  ASSUME BlocksInv, NEW r \in Procs, NEW p \in Projects, ProjectGone(r, p)
  PROVE  BlocksInv'
  <1>0. PICK x \in Runs : x = run[r] /\ RunInv(x) /\ x.pc = "rstrip"
    BY DEF BlocksInv, TypeOK, ProjectGone, At
  <1>1. PICK y \in Runs :
          /\ run' = [run EXCEPT ![r] = y] /\ GoesOn(x, y)
          /\ y.todo = x.todo \ {p} /\ y.hold = x.hold /\ y.keep = x.keep /\ y.clean = x.clean
    BY <1>0, ProjectGoneMoves DEF BlocksInv
  <1>2. TypeOK'
    BY SyncTypes DEF BlocksInv
  <1>3. /\ UNCHANGED <<block, registered, ledger, present, lock, left, unseen>>
        /\ untracked' = untracked \cup {p}
    BY DEF ProjectGone, disk, world
  <1>4. /\ x.pc \in Passing /\ y.pc \in Passing /\ x.pc # "idle" /\ y.pc # "idle"
        /\ y.pc = x.pc /\ x.pc \notin Writing
    BY <1>0, <1>1 DEF GoesOn, Passing, Stripping, Writing
  <1>5. /\ y.old = x.old /\ y.projs = x.projs /\ y.want = x.want /\ y.live = x.live
        /\ \A kind : Wants(y, kind) = Wants(x, kind)
        /\ Minded(y) = Minded(x) /\ \A f : Want(y, f) = Want(x, f)
        /\ ScopeInv(y) /\ LiveInv(y) /\ RemovalInv(y) /\ Commanded(y)
    BY <1>0, <1>1, <1>4, SameAccount
  <1>6. /\ Tracked(x) /\ x.old = ledger /\ x.hold \cap x.old \subseteq x.keep
        /\ x.todo \subseteq KindOf(x.pc)
    BY <1>0, <1>4 DEF RunInv, PassInv
  <1>7. PassInv(y)'
    <2>1. \A d : HasBlock(d)' <=> HasBlock(d)
      BY <1>3 DEF HasBlock
    <2>2. Tracked(y)'
      BY <1>1, <1>3, <1>4, <1>5, <1>6, <2>1 DEF Tracked
    <2> QED BY <1>1, <1>3, <1>4, <1>5, <1>6, <2>2 DEF PassInv
  <1>8. HeldInv(y)'
    <2>1. HeldInv(y)
      BY <1>0, <1>1, <1>4, <1>5 DEF RunInv, HeldInv
    <2> QED BY <2>1 DEF HeldInv, Wants
  <1>9. ScopeInv(y)' /\ RemovalInv(y)' /\ Commanded(y)' /\ LiveInv(y)'
    BY <1>0, <1>3, <1>4, <1>5 DEF ScopeInv, Commanded, LiveInv, RemovalInv
  <1>10. SeedsSettle(y)'
    BY <1>0, <1>1, <1>3, <1>4, <1>5 DEF RunInv, SeedsSettle, SeedSettled, Minded, Want
  <1>11. RulesSettle(y)'
    <2> SUFFICES ASSUME y.clean
                 PROVE  /\ y.keep \cup y.hold \subseteq Wants(y, Projects) \cup Wants(y, Globals)
                        /\ \A q \in Wants(y, Projects) : EntrySettled(y, q)'
                        /\ \A g \in Wants(y, Globals) : EntrySettled(y, g)'
                        /\ \A g \in Globals : EntrySettled(y, g)'
                        /\ \A q \in Projects : q \notin y.todo => EntrySettled(y, q)'
      BY <1>0, <1>4 DEF RulesSettle, RulesPass, Wants
    <2>1. /\ x.keep \cup x.hold \subseteq Wants(x, Projects) \cup Wants(x, Globals)
          /\ \A q \in Wants(x, Projects) : EntrySettled(x, q)
          /\ \A g \in Globals : EntrySettled(x, g)
          /\ \A q \in Projects : q \notin x.todo => EntrySettled(x, q)
      BY <1>0, <1>1 DEF RunInv, RulesSettle, RulesPass
    <2>2. ASSUME NEW d \in Entries, EntrySettled(x, d) PROVE EntrySettled(y, d)'
      <3>1. Minded(y)' = Minded(x)
        BY <1>3, <1>5 DEF Minded
      <3> QED BY <1>3, <1>5, <2>2, <3>1, OthersSettled
    <2>3. EntrySettled(y, p)'
      <3>1. CASE p \in x.todo
        <4>1. p \notin Wants(x, Projects)
          BY <1>0, <3>1 DEF RunInv, HeldInv
        <4>2. \A f \in FilesOf(p) : Want(y, f) = None
          BY <1>5, <4>1, WantFacts, KindsApart
        <4> QED BY <1>3, <4>2 DEF EntrySettled, Want
      <3>2. CASE p \notin x.todo
        BY <2>1, <2>2, <3>2, KindsApart
      <3> QED BY <3>1, <3>2
    <2> QED BY <1>1, <1>5, <2>1, <2>2, <2>3, WantFacts, KindsApart
  <1>12. CodexGone' /\ RemovedIsClean'
    BY <1>3 DEF BlocksInv, CodexGone, RemovedIsClean
  <1>13. RunInv(y)'
    BY <1>7, <1>8, <1>9, <1>10, <1>11 DEF RunInv
  <1>14. lock' = r
    BY <1>0, <1>3, <1>4 DEF BlocksInv, Holds
  <1> QED BY <1>0, <1>1, <1>2, <1>4, <1>12, <1>13, <1>14, OneMoves

(* The pass is over: its part of the ledger is replaced, or that failed. *)
LEMMA SaveKeeps ==
  ASSUME BlocksInv, NEW r \in Procs, SaveManifest(r) \/ SaveFails(r)
  PROVE  BlocksInv'
  <1>0. PICK x \in Runs : /\ x = run[r] /\ RunInv(x)
                          /\ x.pc \in {"sstrip", "rstrip"} /\ x.todo = {}
    BY DEF BlocksInv, TypeOK, SaveManifest, SaveFails, PassDone
  <1>1. PICK y \in Runs :
          /\ run' = [run EXCEPT ![r] = y] /\ SamePass(x, y) /\ y.live = x.live
          /\ y.pc = IF x.pc = "sstrip" THEN "rules" ELSE "report"
          /\ y.clean => x.clean /\ SaveManifest(r)
    BY <1>0, SaveMoves DEF BlocksInv
  <1>2. TypeOK'
    BY SyncTypes DEF BlocksInv
  <1>3. UNCHANGED <<block, registered, present, lock, left, unseen>>
    BY DEF SaveManifest, SaveFails, disk, world
  <1>4. /\ x.pc \in Passing /\ x.pc # "idle" /\ y.pc # "idle" /\ y.pc \in AfterSeeds
        /\ y.pc \notin Passing /\ y.pc \notin RulesPass
    BY <1>0, <1>1 DEF Passing, Stripping, Writing, AfterSeeds, RulesPass
  <1>5. /\ y.projs = x.projs /\ y.want = x.want
        /\ \A kind : Wants(y, kind) = Wants(x, kind)
        /\ Minded(y)' = Minded(x) /\ \A f : Want(y, f) = Want(x, f)
    BY <1>1, <1>3 DEF SamePass, Wants, Minded, Want
  <1>6. Tracked(x) /\ x.old = ledger
    BY <1>0, <1>4 DEF RunInv, PassInv
  <1>7. \A d : HasBlock(d)' <=> HasBlock(d)
    BY <1>3 DEF HasBlock
  <1>8. Accounted'
    <2>1. CASE SaveManifest(r)
      <3>1. /\ ledger' = IF x.pc = "sstrip" THEN (x.old \ Seeds) \cup x.keep
                                            ELSE (x.old \cap Seeds) \cup x.keep
            /\ untracked' = untracked \cap Unledgered(block, ledger')
        BY <1>0, <2>1 DEF SaveManifest, Saved, At
      <3> SUFFICES ASSUME NEW e \in Entries, HasBlock(e), e \notin ledger' PROVE e \in untracked'
        BY <1>7 DEF Accounted
      <3>2. e \in Unledgered(block, ledger')
        BY DEF Unledgered, HasBlock
      <3>3. \/ e \in x.keep \cup untracked \/ (e \in x.old /\ e \notin Visited(x.pc))
        BY <1>0, <1>6 DEF Tracked
      <3>4. e \in x.old /\ e \notin Visited(x.pc) => e \in ledger'
        BY <1>0, <3>1, KindsApart DEF Visited
      <3> QED BY <3>1, <3>2, <3>3, <3>4
    <2>2. CASE SaveFails(r)
      <3>1. ledger' = ledger /\ untracked' = untracked \cup Unledgered(block, ledger)
        BY <2>2 DEF SaveFails, disk
      <3> QED BY <1>7, <3>1 DEF Accounted, Unledgered, HasBlock
    <2> QED BY <2>1, <2>2
  <1>9. PassInv(y)' /\ HeldInv(y)' /\ RemovalInv(y)' /\ Commanded(y)'
    BY <1>1, <1>4 DEF PassInv, HeldInv, RemovalInv, Commanded, AfterSeeds
  <1>10. ScopeInv(y)' /\ LiveInv(y)'
    BY <1>0, <1>1, <1>3, <1>4, <1>5 DEF RunInv, ScopeInv, LiveInv
  <1>11. SeedsSettle(y)'
    <2> SUFFICES ASSUME y.clean, NEW f \in Seeds \cap Minded(x) PROVE SeedSettled(y, f)
      BY <1>1, <1>3, <1>4, <1>5 DEF SeedsSettle, SeedSettled, Want
    <2> QED BY <1>0, <1>1, <1>5 DEF RunInv, SeedsSettle, SeedSettled, AfterSeeds
  <1>12. RulesSettle(y)'
    <2> SUFFICES ASSUME y.clean, y.pc = "report", NEW e \in Projects \cup Globals
                 PROVE  EntrySettled(y, e)'
      BY <1>1, <1>4 DEF RulesSettle
    <2>1. x.clean /\ SaveManifest(r) /\ x.pc = "rstrip"
      BY <1>0, <1>1
    <2>2. ledger' = (x.old \cap Seeds) \cup x.keep /\ untracked' = untracked \cap Unledgered(block, ledger')
      BY <1>0, <2>1 DEF SaveManifest, Saved, At
    <2>3. /\ x.keep \subseteq Wants(x, Projects) \cup Wants(x, Globals)
          /\ EntrySettled(x, e)
      BY <1>0, <2>1 DEF RunInv, RulesSettle
    <2>4. \A f \in FilesOf(e) : Want(x, f) = None => e \notin ledger'
      <3>1. \A f \in FilesOf(e) : Want(x, f) = None =>
              e \notin Wants(x, Projects) /\ e \notin Wants(x, Globals)
        BY WantFacts, KindsApart
      <3> QED BY <2>2, <2>3, <3>1, KindsApart
    <2>5. \A f \in FilesOf(e) : block[f] # None /\ Want(x, f) = None /\ e \in untracked
                                => e \in untracked'
      BY <2>2, <2>4, KindsApart DEF Unledgered
    <2> QED BY <1>3, <1>5, <2>3, <2>5 DEF EntrySettled, Want
  <1>13. CodexGone' /\ RemovedIsClean'
    BY <1>3 DEF BlocksInv, CodexGone, RemovedIsClean
  <1>14. RunInv(y)'
    BY <1>9, <1>10, <1>11, <1>12 DEF RunInv
  <1>15. lock' = r
    BY <1>0, <1>3, <1>4 DEF BlocksInv, Holds
  <1> QED BY <1>0, <1>1, <1>2, <1>4, <1>8, <1>13, <1>14, <1>15, OneMoves

(* A file that is cleared stays so when blocks are only taken away. *)
LEMMA StaysCleared ==
  ASSUME NEW f \in Files, Cleared(f), block'[f] \in {block[f], None},
         f \in left /\ block'[f] # None => f \in left'
  PROVE  Cleared(f)'
  BY DEF Cleared

-----------------------------------------------------------------------------
(* Runs that end, and project remove *)

(* A process that ends has nothing left to answer for. *)
LEMMA EndKeeps ==
  ASSUME BlocksInv, NEW r \in Procs, run[r].pc # "idle", End(r), TypeOK', Accounted',
         CodexGone', RemovedIsClean'
  PROVE  BlocksInv'
  <1>1. NotRunning \in Runs /\ RunInv(NotRunning)' /\ run' = [run EXCEPT ![r] = NotRunning]
    BY NotRunningType, IdleInvNext DEF End
  <1> QED BY <1>1, OneMoves

(* A run that ends outside a pass. *)
LEMMA FinishKeeps ==
  ASSUME BlocksInv, NEW r \in Procs, Abort(r) \/ Finish(r)
  PROVE  BlocksInv'
  <1>1. run[r].pc # "idle" /\ run[r].pc \notin Passing
    BY DEF Abort, Finish, At, Passing, Writing, Stripping
  <1>2. End(r) /\ UNCHANGED <<block, ledger, registered, present, untracked, left>>
    BY DEF Abort, Finish, disk, world, history
  <1>3. Accounted
    BY <1>1, OutsidePass
  <1>4. Accounted' /\ CodexGone' /\ RemovedIsClean'
    BY <1>2, <1>3 DEF Accounted, HasBlock, BlocksInv, CodexGone, RemovedIsClean
  <1>5. TypeOK'
    BY FinishTypes DEF BlocksInv
  <1> QED BY <1>1, <1>2, <1>4, <1>5, EndKeeps

(* A process dies; the blocks it left out of the ledger are untracked. *)
LEMMA CrashKeeps ==
  ASSUME BlocksInv, NEW r \in Procs, Crash(r)
  PROVE  BlocksInv'
  <1>1. /\ run[r].pc # "idle" /\ End(r) /\ UNCHANGED <<block, ledger, registered, present, left>>
        /\ untracked' = untracked \cup Unledgered(block, ledger)
    BY DEF Crash, At, disk
  <1>2. Accounted'
    BY <1>1 DEF Accounted, HasBlock, Unledgered
  <1>3. CodexGone' /\ RemovedIsClean'
    BY <1>1 DEF BlocksInv, CodexGone, RemovedIsClean
  <1>4. TypeOK'
    BY CrashTypes DEF BlocksInv
  <1> QED BY <1>1, <1>2, <1>3, <1>4, EndKeeps

(* The same between a project's two files. *)
LEMMA CrashMidKeeps ==
  ASSUME BlocksInv, NEW r \in Procs, NEW p \in Projects, CrashMidProject(r, p)
  PROVE  BlocksInv'
  <1>0. PICK x \in Runs : x = run[r] /\ RunInv(x) /\ x.pc = "rwrite"
    BY DEF BlocksInv, TypeOK, CrashMidProject, At
  <1>1. PICK bad : bad = {<<p, "CLAUDE.md">>}
    OBVIOUS
  <1>2. /\ block' = Merged(r, p, bad) /\ End(r) /\ UNCHANGED <<ledger, registered, present, left>>
        /\ untracked' = untracked \cup Unledgered(block', ledger)
    BY <1>1 DEF CrashMidProject
  <1>3. /\ \A f \in Files : f \notin FilesOf(p) \/ f \in bad => block'[f] = block[f]
        /\ \A f \in FilesOf(p) : f \notin bad =>
              block'[f] = IF Healthy(block[f]) THEN Want(x, f) ELSE block[f]
    BY <1>0, <1>2, MergeFacts, KindsApart DEF BlocksInv
  <1>4. Accounted'
    BY <1>2 DEF Accounted, HasBlock, Unledgered
  <1>5. CodexGone'
    <2>1. <<Codex, "AGENTS.md">> \in Files /\ Root(<<Codex, "AGENTS.md">>) = Codex
      BY FilesOfEntry, KindsApart DEF Globals, Root
    <2>2. <<Codex, "AGENTS.md">> \notin FilesOf(p)
      BY <2>1, FilesOfEntry, BlocksAssumption
    <2> QED BY <1>2, <1>3, <2>1, <2>2 DEF BlocksInv, CodexGone
  <1>6. RemovedIsClean'
    <2> SUFFICES ASSUME NEW q \in Projects \ registered, NEW f \in Under(q)
                 PROVE  block'[f] = None \/ ~Healthy(block'[f]) \/ f \in left
      BY <1>2 DEF RemovedIsClean
    <2>1. f \in Files /\ Root(f) = q /\ (block[f] = None \/ ~Healthy(block[f]) \/ f \in left)
      BY DEF BlocksInv, RemovedIsClean, Under
    <2>2. q \notin x.live \cup {Home}
      BY <1>0, BlocksAssumption DEF RunInv, ScopeInv, AfterSeeds
    <2>3. Want(x, f) = None
      BY <2>1, <2>2, WantFacts
    <2> QED BY <1>3, <2>1, <2>3
  <1>7. TypeOK'
    BY CrashTypes DEF BlocksInv
  <1> QED BY <1>0, <1>2, <1>4, <1>5, <1>6, <1>7, EndKeeps

(* project add. *)
LEMMA AddKeeps ==
  ASSUME BlocksInv, NEW r \in Procs, NEW p \in Projects, AddProject(r, p)
  PROVE  BlocksInv'
  <1>1. /\ lock = None /\ run[r].pc = "idle" /\ registered' = registered \cup {p}
        /\ left' = left \ Under(p) /\ UNCHANGED <<block, ledger, present, lock, run, untracked>>
    BY DEF AddProject, At, world
  <1>2. run[r] = NotRunning /\ RunInv(NotRunning)' /\ NotRunning \in Runs
    BY <1>1, NotRunningType, IdleInvNext DEF BlocksInv, Holds
  <1>3. run' = [run EXCEPT ![r] = NotRunning]
    BY <1>1, <1>2 DEF BlocksInv, TypeOK
  <1>4. Accounted'
    <2>1. Accounted
      BY <1>1, OutsidePass DEF Passing, Writing, Stripping
    <2> QED BY <1>1, <2>1 DEF Accounted, HasBlock
  <1>5. CodexGone' /\ RemovedIsClean'
    BY <1>1 DEF BlocksInv, CodexGone, RemovedIsClean, Under
  <1>6. TypeOK'
    BY CommandTypes DEF BlocksInv, RunInv, CommandStep
  <1> QED BY <1>1, <1>2, <1>3, <1>4, <1>5, <1>6, OneMoves

(* What a process in the middle of project remove answers for. *)
LEMMA RemovingInv ==
  ASSUME NEW y, y.pc \in {"pseeds", "prules", "drop"}, y.cmd \in Projects, RemovalInv(y)'
  PROVE  RunInv(y)'
  BY DEF RunInv, Commanded, PassInv, HeldInv, ScopeInv, LiveInv, SeedsSettle,
         RulesSettle, Passing, Writing, Stripping, AfterSeeds, RulesPass

(* project remove begins. *)
LEMMA BeginRemoveKeeps ==
  ASSUME BlocksInv, NEW r \in Procs, NEW p \in Projects, BeginRemove(r, p)
  PROVE  BlocksInv'
  <1>1. PICK y \in Runs :
          /\ run' = [run EXCEPT ![r] = y] /\ y.cmd = p
          /\ \/ y.pc = "pseeds" /\ y.clean = TRUE
             \/ y.pc = "drop" /\ y.clean = FALSE
    BY BeginRemoveMoves DEF BlocksInv
  <1>2. lock = None /\ lock' = r /\ run[r].pc = "idle" /\ UNCHANGED <<disk, world, history>>
    BY DEF BeginRemove, At
  <1>3. RunInv(y)'
    <2>1. RemovalInv(y)'
      BY <1>1 DEF RemovalInv
    <2> QED BY <1>1, <2>1, RemovingInv
  <1>4. Accounted'
    <2>1. Accounted
      BY <1>2, OutsidePass DEF Passing, Writing, Stripping
    <2> QED BY <1>2, <2>1 DEF Accounted, HasBlock, disk, history
  <1>5. CodexGone' /\ RemovedIsClean'
    BY <1>2 DEF BlocksInv, CodexGone, RemovedIsClean, disk, world, history
  <1>6. TypeOK'
    BY CommandTypes DEF BlocksInv, RunInv, CommandStep
  <1>7. y.pc # "idle"
    BY <1>1
  <1> QED BY <1>1, <1>2, <1>3, <1>4, <1>5, <1>6, <1>7, OneMoves

(* One strip of project remove, of the project's seed or of its rules. *)
LEMMA RemovalStripKeeps ==
  ASSUME BlocksInv, TypeOK', NEW r \in Procs, NEW e \in Entries, NEW next \in {"prules", "drop"},
         StripForRemoval(r, e, next),
         \/ run[r].pc = "pseeds" /\ e = <<run[r].cmd, "MEMORY.md">> /\ next = "prules"
         \/ run[r].pc = "prules" /\ e = run[r].cmd /\ next = "drop"
  PROVE  BlocksInv'
  <1>0. PICK x \in Runs : x = run[r] /\ RunInv(x) /\ x.cmd \in Projects
    BY DEF BlocksInv, TypeOK, RunInv, Commanded
  <1>1. PICK bad \in SUBSET FilesOf(e), saves \in BOOLEAN,
             unread \in SUBSET (({e} \cap Seeds) \ ledger) :
          Removing(r, e, next, bad, saves, unread)
    BY Zenon DEF StripForRemoval, Removing
  <1>l. /\ block' = Stripped(e, bad \cup unread)
        /\ left' = {f \in left \cup unread : block'[f] # None}
        /\ IF bad # {} \/ Refused(e) \/ ~saves
           THEN ledger' = ledger /\ untracked' = untracked
           ELSE ledger' = ledger \ {e} /\ untracked' = untracked \cup Overlooked(e)
        /\ IF bad = {} /\ saves
           THEN run' = [run EXCEPT ![r].pc = next] /\ UNCHANGED lock
           ELSE End(r)
    BY <1>1 DEF Removing
  <1>2. UNCHANGED <<present, registered>>
    BY DEF StripForRemoval
  <1>3. /\ \A f \in FilesOf(e) : f \notin bad \cup unread =>
              block'[f] = IF Healthy(block[f]) THEN None ELSE block[f]
        /\ \A f \in Files : block'[f] = block[f] \/ block'[f] = None
        /\ \A d \in Entries : d # e => \A f \in FilesOf(d) : block'[f] = block[f]
    BY <1>l, StripFacts DEF BlocksInv
  <1>4. run[r].pc # "idle" /\ run[r].pc \notin Passing
    BY DEF Passing, Writing, Stripping
  <1>5. Accounted'
    <2>1. Accounted
      BY <1>4, OutsidePass
    <2> SUFFICES ASSUME NEW d \in Entries, HasBlock(d)' PROVE d \in ledger' \cup untracked'
      BY DEF Accounted
    <2>2. HasBlock(d)
      BY <1>3, FilesOfEntry DEF HasBlock
    <2>3. d \in ledger \cup untracked
      BY <2>1, <2>2 DEF Accounted
    <2>4. CASE bad # {} \/ Refused(e) \/ ~saves \/ d # e
      BY <1>l, <2>3, <2>4
    <2>5. CASE ~(bad # {} \/ Refused(e) \/ ~saves) /\ d = e
      <3>1. PICK f \in FilesOf(e) : block'[f] # None
        BY <2>5 DEF HasBlock
      <3>2. CASE f \in unread
        <4>1. e \notin ledger
          BY <3>2
        <4> QED BY <1>l, <2>3, <2>5, <4>1
      <3>3. CASE f \notin unread
        <4>1. block'[f] = block[f] /\ ~Healthy(block[f])
          BY <1>3, <2>5, <3>1, <3>3
        <4>2. f \in Seeds /\ block[f] = Headless
          BY <2>5, <3>1, <4>1 DEF Refused, HasBegin
        <4>3. e \in Overlooked(e)
          BY <3>1, <4>2, FilesOfEntry, FileHasOneEntry, KindsApart DEF Overlooked
        <4> QED BY <1>l, <2>5, <4>3
      <3> QED BY <3>2, <3>3
    <2> QED BY <2>4, <2>5
  <1>6. \A f \in Files : Cleared(f) => Cleared(f)'
    BY <1>l, <1>3, StaysCleared
  <1>7. CodexGone' /\ RemovedIsClean'
    <2>1. <<Codex, "AGENTS.md">> \in Files
      BY FilesOfEntry, KindsApart DEF Globals
    <2>2. CodexGone'
      BY <1>2, <1>3, <2>1 DEF BlocksInv, CodexGone
    <2>3. RemovedIsClean'
      BY <1>2, <1>6 DEF BlocksInv, RemovedIsClean, Cleared, Under
    <2> QED BY <2>2, <2>3
  <1>8. CASE bad = {} /\ saves
    <2>1. run' = [run EXCEPT ![r].pc = next] /\ UNCHANGED lock
      BY <1>l, <1>8
    <2>2. PICK y \in Runs : /\ run' = [run EXCEPT ![r] = y]
                            /\ y.pc = next /\ y.cmd = x.cmd /\ (y.clean => x.clean)
      <3>1. Goes(r, next)
        BY <2>1 DEF Goes
      <3> QED BY <1>0, <3>1, RemovalMoves DEF BlocksInv
    <2>3. \A f \in FilesOf(e) : Cleared(f)'
      BY <1>l, <1>3, <1>8 DEF Cleared
    <2>4. <<x.cmd, "MEMORY.md">> \in Seeds /\ FilesOf(<<x.cmd, "MEMORY.md">>) = {<<x.cmd, "MEMORY.md">>}
          /\ <<x.cmd, "MEMORY.md">> \in Files
      BY <1>0, FilesOfEntry, KindsApart DEF Seeds
    <2>5. RemovalInv(y)'
      <3>1. CASE x.pc = "pseeds" /\ e = <<x.cmd, "MEMORY.md">> /\ next = "prules"
        BY <2>2, <2>3, <2>4, <3>1 DEF RemovalInv
      <3>2. CASE x.pc = "prules" /\ e = x.cmd /\ next = "drop"
        <4>1. x.clean => Cleared(<<x.cmd, "MEMORY.md">>)
          BY <1>0, <3>2 DEF RunInv, RemovalInv
        <4> QED BY <1>6, <2>2, <2>3, <2>4, <3>2, <4>1 DEF RemovalInv
      <3> QED BY <1>0, <3>1, <3>2
    <2>6. RunInv(y)'
      BY <1>0, <2>2, <2>5, RemovingInv
    <2>7. lock' = r
      BY <1>4, <2>1 DEF BlocksInv, Holds
    <2>8. y.pc # "idle"
      BY <2>2
    <2> QED BY <1>4, <1>5, <1>7, <2>2, <2>6, <2>7, <2>8, OneMoves
  <1>9. CASE ~(bad = {} /\ saves)
    <2>1. End(r)
      BY <1>l, <1>9
    <2> QED BY <1>4, <1>5, <1>7, <2>1, EndKeeps
  <1> QED BY <1>8, <1>9

(* The project is out of reach: its entry goes, and its blocks are left. *)
LEMMA RemovalGoneKeeps ==
  ASSUME BlocksInv, TypeOK', NEW r \in Procs, NEW e \in Entries, NEW next \in {"prules", "drop"},
         RemovalRootGone(r, e, next), run[r].pc \in {"pseeds", "prules"}
  PROVE  BlocksInv'
  <1>0. PICK x \in Runs : x = run[r] /\ RunInv(x) /\ x.cmd \in Projects
    BY DEF BlocksInv, TypeOK, RunInv, Commanded
  <1>1. /\ UNCHANGED <<block, registered, present, lock, left>>
        /\ ledger' = ledger \ {e} /\ untracked' = untracked \cup {e}
        /\ run' = [run EXCEPT ![r].pc = next, ![r].clean = FALSE]
    BY DEF RemovalRootGone, world
  <1>2. PICK y \in Runs : /\ run' = [run EXCEPT ![r] = y]
                          /\ y.pc = next /\ y.cmd = x.cmd /\ ~y.clean
    <2>1. GoesWithout(r, next)
      BY <1>1 DEF GoesWithout
    <2> QED BY <1>0, <2>1, RemovalGoneMoves DEF BlocksInv
  <1>3. run[r].pc # "idle" /\ run[r].pc \notin Passing /\ y.pc # "idle"
    BY <1>2 DEF Passing, Writing, Stripping
  <1>4. Accounted'
    <2>1. Accounted
      BY <1>3, OutsidePass
    <2> QED BY <1>1, <2>1 DEF Accounted, HasBlock
  <1>5. RunInv(y)'
    <2>1. RemovalInv(y)'
      BY <1>2 DEF RemovalInv
    <2> QED BY <1>0, <1>2, <2>1, RemovingInv
  <1>6. CodexGone' /\ RemovedIsClean'
    BY <1>1 DEF BlocksInv, CodexGone, RemovedIsClean
  <1>7. lock' = r
    BY <1>1, <1>3 DEF BlocksInv, Holds
  <1> QED BY <1>2, <1>3, <1>4, <1>5, <1>6, <1>7, OneMoves

(* The project is taken out of projects.json. *)
LEMMA DropKeeps ==
  ASSUME BlocksInv, NEW r \in Procs, DropProject(r)
  PROVE  BlocksInv'
  <1>0. PICK x \in Runs : x = run[r] /\ RunInv(x) /\ x.cmd \in Projects /\ x.pc = "drop"
    BY DEF BlocksInv, TypeOK, RunInv, Commanded, DropProject, At
  <1>1. /\ UNCHANGED <<block, present, ledger, untracked>> /\ End(r)
        /\ registered' = registered \ {x.cmd}
        /\ left' = IF x.clean THEN left ELSE left \cup Under(x.cmd)
    BY <1>0 DEF DropProject, world
  <1>2. run[r].pc # "idle" /\ run[r].pc \notin Passing
    BY <1>0 DEF Passing, Writing, Stripping
  <1>3. Accounted'
    <2>1. Accounted
      BY <1>2, OutsidePass
    <2> QED BY <1>1, <2>1 DEF Accounted, HasBlock
  <1>4. CodexGone'
    BY <1>1 DEF BlocksInv, CodexGone
  <1>5. RemovedIsClean'
    <2> SUFFICES ASSUME NEW p \in Projects \ registered', NEW f \in Under(p)
                 PROVE  block[f] = None \/ ~Healthy(block[f]) \/ f \in left'
      BY <1>1 DEF RemovedIsClean
    <2>1. CASE p # x.cmd
      BY <1>1, <2>1 DEF BlocksInv, RemovedIsClean
    <2>2. CASE p = x.cmd /\ x.clean
      <3>1. f \in FilesOf(x.cmd) \cup {<<x.cmd, "MEMORY.md">>}
        BY <1>0, <2>2, FilesUnder DEF Under
      <3>2. Cleared(f)
        BY <1>0, <2>2, <3>1 DEF RunInv, RemovalInv
      <3> QED BY <1>1, <2>2, <3>2 DEF Cleared
    <2>3. CASE p = x.cmd /\ ~x.clean
      BY <1>1, <2>3
    <2> QED BY <2>1, <2>2, <2>3
  <1>6. TypeOK'
    BY CommandTypes DEF BlocksInv, RunInv, CommandStep
  <1> QED BY <1>1, <1>2, <1>3, <1>4, <1>5, <1>6, EndKeeps

-----------------------------------------------------------------------------
(* The world around the runs *)

(* What else happens to a file that a run minds counts as unseen: it stays *)
(* settled when the blocks that changed are unseen ones.                   *)
LEMMA WorldSettles ==
  ASSUME unseen \subseteq unseen', UNCHANGED <<registered, ledger>>, untracked \subseteq untracked',
         \A f \in Files \ unseen' : block'[f] = block[f],
         \A f \in Files \ unseen' : Root(f) \in present' <=> Root(f) \in present,
         \A e \in Entries : HasBlock(e)' => HasBlock(e) \/ e \in untracked',
         \A f \in Files : Cleared(f) => Cleared(f)'
  PROVE  /\ \A x \in Runs : RunInv(x) => RunInv(x)'
         /\ (Accounted => Accounted') /\ (RemovedIsClean => RemovedIsClean')
  <1>1. ASSUME NEW x \in Runs, RunInv(x) PROVE RunInv(x)'
    <2>0. \A f \in Files : f \in Minded(x)' => f \in Minded(x) /\ block'[f] = block[f]
      BY DEF Minded
    <2>1. Commanded(x)' /\ HeldInv(x)' /\ ScopeInv(x)'
      BY <1>1 DEF RunInv, Commanded, HeldInv, ScopeInv, Wants
    <2>2. PassInv(x)'
      <3>1. Tracked(x) => Tracked(x)'
        BY DEF Tracked
      <3> QED BY <1>1, <3>1 DEF RunInv, PassInv, Wants
    <2>3. RemovalInv(x)'
      <3>1. x.cmd \in Projects => /\ <<x.cmd, "MEMORY.md">> \in Files
                                  /\ FilesOf(x.cmd) \subseteq Files
        <4>1. x.cmd \in Projects => <<x.cmd, "MEMORY.md">> \in Seeds
          BY DEF Seeds
        <4> QED BY <4>1, FilesOfEntry, KindsApart
      <3> QED BY <1>1, <3>1 DEF RunInv, Commanded, RemovalInv
    <2>4. LiveInv(x)'
      BY <1>1 DEF RunInv, LiveInv
    <2>5. SeedsSettle(x)'
      <3>1. \A f \in Seeds : f \in Files
        BY FilesOfEntry, KindsApart
      <3> QED BY <1>1, <2>0, <3>1 DEF RunInv, SeedsSettle, SeedSettled, Wants, Want
    <2>6. RulesSettle(x)'
      <3>1. ASSUME NEW e \in Entries, EntrySettled(x, e) PROVE EntrySettled(x, e)'
        BY <2>0, <3>1, FilesOfEntry DEF EntrySettled, Want
      <3>2. \A kind : Wants(x, kind) \subseteq kind
        BY WantFacts
      <3> QED BY <1>1, <3>1, <3>2, KindsApart DEF RunInv, RulesSettle, Wants
    <2> QED BY <2>1, <2>2, <2>3, <2>4, <2>5, <2>6 DEF RunInv
  <1>2. Accounted => Accounted'
    BY DEF Accounted
  <1>3. RemovedIsClean => RemovedIsClean'
    BY DEF RemovedIsClean, Cleared, Under
  <1> QED BY <1>1, <1>2, <1>3

(* The developer. *)
LEMMA EditKeeps ==
  ASSUME BlocksInv, NEW f \in Files, NEW c \in Contents, DeveloperEdits(f, c)
  PROVE  BlocksInv'
  <1>1. /\ block' = [block EXCEPT ![f] = c] /\ left' = left \cup {f} /\ unseen' = unseen \cup {f}
        /\ untracked' = IF block[f] = None THEN untracked \cup {EntryOf(f)} ELSE untracked
        /\ UNCHANGED <<present, registered, ledger, lock, run>> /\ Reachable(Root(f))
    BY DEF DeveloperEdits
  <1>2. block'[f] = c /\ \A g \in Files : g # f => block'[g] = block[g]
    BY <1>1 DEF BlocksInv, TypeOK
  <1>3. \A e \in Entries : HasBlock(e)' => HasBlock(e) \/ e \in untracked'
    <2> SUFFICES ASSUME NEW e \in Entries, HasBlock(e)', ~HasBlock(e) PROVE e \in untracked'
      OBVIOUS
    <2>1. f \in FilesOf(e) /\ block[f] = None
      BY <1>2, FilesOfEntry DEF HasBlock
    <2> QED BY <1>1, <2>1, EntryOfFile
  <1>4. \A g \in Files : Cleared(g) => Cleared(g)'
    BY <1>1, <1>2 DEF Cleared
  <1>5. CodexGone'
    <2>1. Codex \notin present => f # <<Codex, "AGENTS.md">>
      BY <1>1, BlocksAssumption DEF Reachable, Root
    <2>2. <<Codex, "AGENTS.md">> \in Files
      BY FilesOfEntry, KindsApart DEF Globals
    <2> QED BY <1>1, <1>2, <2>1, <2>2 DEF BlocksInv, CodexGone
  <1>6. TypeOK'
    BY WorldTypes DEF BlocksInv
  <1>7. /\ \A x \in Runs : RunInv(x) => RunInv(x)'
        /\ (Accounted => Accounted') /\ (RemovedIsClean => RemovedIsClean')
    BY <1>1, <1>2, <1>3, <1>4, WorldSettles
  <1> QED BY <1>1, <1>5, <1>6, <1>7, WorldMoves DEF BlocksInv

(* Volumes and Codex. *)
LEMMA RootKeeps ==
  ASSUME BlocksInv, NEW z \in Projects \cup {Codex}, RootChanges(z)
  PROVE  BlocksInv'
  <1>1. /\ present' = IF z \in present THEN present \ {z} ELSE present \cup {z}
        /\ block' = IF z = Codex /\ z \in present
                    THEN [block EXCEPT ![<<Codex, "AGENTS.md">>] = None] ELSE block
        /\ unseen' = unseen \cup Under(z)
        /\ UNCHANGED <<registered, ledger, lock, run, untracked, left>>
    BY DEF RootChanges
  <1>2. <<Codex, "AGENTS.md">> \in Files /\ Root(<<Codex, "AGENTS.md">>) = Codex
    BY FilesOfEntry, KindsApart DEF Globals, Root
  <1>3. \A f \in Files : block'[f] = block[f] \/ (f = <<Codex, "AGENTS.md">> /\ z = Codex /\ block'[f] = None)
    BY <1>1, <1>2 DEF BlocksInv, TypeOK
  <1>4. \A f \in Files \ unseen' : block'[f] = block[f] /\ (Root(f) \in present' <=> Root(f) \in present)
    BY <1>1, <1>2, <1>3 DEF Under
  <1>5. \A e \in Entries : HasBlock(e)' => HasBlock(e)
    BY <1>3, FilesOfEntry DEF HasBlock
  <1>6. \A f \in Files : Cleared(f) => Cleared(f)'
    BY <1>1, <1>3 DEF Cleared
  <1>7. CodexGone'
    <2>1. CASE z = Codex /\ z \in present
      BY <1>1, <1>2, <2>1 DEF CodexGone, BlocksInv, TypeOK
    <2>2. CASE ~(z = Codex /\ z \in present)
      BY <1>1, <2>2 DEF CodexGone, BlocksInv
    <2> QED BY <2>1, <2>2
  <1>8. TypeOK'
    BY WorldTypes DEF BlocksInv
  <1>9. /\ \A x \in Runs : RunInv(x) => RunInv(x)'
        /\ (Accounted => Accounted') /\ (RemovedIsClean => RemovedIsClean')
    BY <1>1, <1>4, <1>5, <1>6, WorldSettles
  <1> QED BY <1>1, <1>7, <1>8, <1>9, WorldMoves DEF BlocksInv

(* The administrator, and a step in which nothing happens here. *)
LEMMA AsideKeeps ==
  ASSUME BlocksInv, EntitlementChanges \/ UNCHANGED vars
  PROVE  BlocksInv'
  <1>1. UNCHANGED <<registered, present, block, ledger, lock, run, untracked, left, unseen>>
    BY DEF EntitlementChanges, vars, disk, history
  <1>2. TypeOK'
    <2>1. CASE EntitlementChanges
      BY <2>1, WorldTypes DEF BlocksInv
    <2>2. CASE UNCHANGED vars
      BY <2>2 DEF BlocksInv, TypeOK, vars
    <2> QED BY <2>1, <2>2
  <1>3. /\ \A e : HasBlock(e)' <=> HasBlock(e)
        /\ \A f : Cleared(f)' <=> Cleared(f)
    BY <1>1 DEF HasBlock, Cleared
  <1>4. /\ \A x \in Runs : RunInv(x) => RunInv(x)'
        /\ (Accounted => Accounted') /\ (RemovedIsClean => RemovedIsClean')
    BY <1>1, <1>3, WorldSettles
  <1>5. CodexGone'
    BY <1>1 DEF CodexGone, BlocksInv
  <1> QED BY <1>1, <1>2, <1>4, <1>5, WorldMoves DEF BlocksInv

-----------------------------------------------------------------------------
(* The theorems *)

(* Initially there is no block, and nobody runs. *)
LEMMA InitInv == Init => BlocksInv
  <1> SUFFICES ASSUME Init PROVE BlocksInv
    OBVIOUS
  <1>1. TypeOK
    BY NotRunningType, BlocksAssumption DEF Init, TypeOK, Contents
  <1>2. \A r \in Procs : Holds(r) /\ RunInv(run[r])
    BY NotRunningType, IdleInv DEF Init, Holds
  <1>3. \A e \in Entries : ~HasBlock(e)
    BY FilesOfEntry DEF Init, HasBlock
  <1>4. BetweenPasses /\ RemovedIsClean
    BY <1>3 DEF Init, BetweenPasses, Accounted, RemovedIsClean, Under
  <1>5. CodexGone
    BY BlocksAssumption DEF Init, CodexGone
  <1> QED BY <1>1, <1>2, <1>4, <1>5 DEF BlocksInv

(* WriteOrFail and StripOrFail, in the phases that call them. *)
LEMMA EntryKeeps ==
  ASSUME BlocksInv, NEW r \in Procs, NEW e \in Entries,
         \/ run[r].pc \in Writing /\ WriteOrFail(r, e)
         \/ run[r].pc \in Stripping /\ StripOrFail(r, e)
  PROVE  BlocksInv'
  <1>1. CASE run[r].pc \in Writing /\ WriteOrFail(r, e)
    <2>1. PICK bad \in SUBSET FilesOf(e) :
            /\ WriteEntry(r, e, bad) /\ (InReach(e) \/ bad = FilesOf(e))
            /\ Fault(bad) \/ UNCHANGED events
      BY <1>1, Zenon DEF WriteOrFail
    <2>2. TypeOK'
      BY <2>1, EntryTypes DEF BlocksInv
    <2> QED BY <1>1, <2>1, <2>2, WriteKeeps
  <1>2. CASE run[r].pc \in Stripping /\ StripOrFail(r, e)
    <2>1. PICK bad \in SUBSET FilesOf(e) : Fault(bad) /\ StripEntry(r, e, bad)
      BY <1>2, Zenon DEF StripOrFail
    <2>2. TypeOK'
      BY <2>1, EntryTypes DEF BlocksInv
    <2> QED BY <1>2, <2>1, <2>2, StripKeeps
  <1> QED BY <1>1, <1>2

(* A step of a sync. *)
LEMMA SyncKeeps ==
  ASSUME BlocksInv, NEW r \in Procs, SyncStep(r)
  PROVE  BlocksInv'
  <1>1. CASE BeginSync(r) \/ Fetch(r) \/ Abort(r) \/ Finish(r)
    BY <1>1, BeginSyncKeeps, FetchKeeps, FinishKeeps
  <1>2. CASE \/ BeginSeeds(r) \/ BeginSeedStrip(r) \/ BeginRules(r) \/ BeginGlobals(r)
             \/ BeginGlobalStrip(r) \/ BeginRuleStrip(r)
    BY <1>2, BeginSeedsKeeps, BeginSeedStripKeeps, BeginRulesKeeps, BeginGlobalsKeeps,
       BeginGlobalStripKeeps, BeginRuleStripKeeps
  <1>3. ASSUME NEW e \in Seeds, WriteSeed(r, e) \/ StripSeed(r, e) \/ SeedRootGone(r, e)
        PROVE  BlocksInv'
    BY <1>3, EntryKeeps, SeedRootGoneKeeps, KindsApart
       DEF WriteSeed, StripSeed, At, Writing, Stripping
  <1>4. ASSUME NEW e \in Globals,
               WriteGlobalRules(r, e) \/ StripGlobalRules(r, e) \/ GlobalRootGone(r, e)
        PROVE  BlocksInv'
    BY <1>4, EntryKeeps, GlobalRootGoneKeeps, KindsApart
       DEF WriteGlobalRules, StripGlobalRules, At, Writing, Stripping
  <1>5. ASSUME NEW p \in Projects,
               \/ WriteRulesToProject(r, p) \/ StatProject(r, p)
               \/ StripRulesFromProject(r, p) \/ ProjectGone(r, p)
        PROVE  BlocksInv'
    BY <1>5, EntryKeeps, StatKeeps, ProjectGoneKeeps, KindsApart
       DEF WriteRulesToProject, StripRulesFromProject, At, Writing, Stripping
  <1>6. CASE SaveManifest(r) \/ SaveFails(r)
    BY <1>6, SaveKeeps
  <1> QED BY <1>1, <1>2, <1>3, <1>4, <1>5, <1>6, Zenon DEF SyncStep

(* A step of project add or project remove. *)
LEMMA CommandKeeps ==
  ASSUME BlocksInv, NEW r \in Procs, CommandStep(r)
  PROVE  BlocksInv'
  <1>0. TypeOK' /\ (run[r].pc \in {"pseeds", "prules", "drop"} => run[r].cmd \in Projects)
    BY CommandTypes DEF BlocksInv, RunInv, Commanded
  <1>1. ASSUME NEW p \in Projects, AddProject(r, p) \/ BeginRemove(r, p) PROVE BlocksInv'
    BY <1>1, AddKeeps, BeginRemoveKeeps
  <1>2. CASE StripProjectSeeds(r)
    <2>1. PICK e \in Entries : e = <<run[r].cmd, "MEMORY.md">>
      BY <1>0, <1>2, KindsApart DEF StripProjectSeeds, At, Seeds
    <2>2. run[r].pc = "pseeds" /\ (StripForRemoval(r, e, "prules") \/ RemovalRootGone(r, e, "prules"))
      BY <1>2, <2>1 DEF StripProjectSeeds, At
    <2> QED BY <1>0, <2>1, <2>2, RemovalStripKeeps, RemovalGoneKeeps
  <1>3. CASE StripProjectRules(r)
    <2>1. PICK e \in Entries : e = run[r].cmd
      BY <1>0, <1>3, KindsApart DEF StripProjectRules, At
    <2>2. run[r].pc = "prules" /\ (StripForRemoval(r, e, "drop") \/ RemovalRootGone(r, e, "drop"))
      BY <1>3, <2>1 DEF StripProjectRules, At
    <2> QED BY <1>0, <2>1, <2>2, RemovalStripKeeps, RemovalGoneKeeps
  <1>4. CASE DropProject(r)
    BY <1>4, DropKeeps
  <1> QED BY <1>1, <1>2, <1>3, <1>4 DEF CommandStep

(* The invariant is inductive. *)
LEMMA NextInv == BlocksInv /\ [Next]_vars => BlocksInv'
  <1> SUFFICES ASSUME BlocksInv, [Next]_vars PROVE BlocksInv'
    OBVIOUS
  <1>1. ASSUME NEW r \in Procs, SyncStep(r) \/ CommandStep(r) \/ Crash(r) PROVE BlocksInv'
    BY <1>1, SyncKeeps, CommandKeeps, CrashKeeps
  <1>2. ASSUME NEW r \in Procs, NEW p \in Projects, CrashMidProject(r, p) PROVE BlocksInv'
    BY <1>2, CrashMidKeeps
  <1>3. ASSUME NEW f \in Files, NEW c \in Contents, DeveloperEdits(f, c)
        PROVE  BlocksInv'
    BY <1>3, EditKeeps
  <1>4. ASSUME NEW z \in Projects \cup {Codex}, RootChanges(z) PROVE BlocksInv'
    BY <1>4, RootKeeps
  <1>5. CASE EntitlementChanges \/ UNCHANGED vars
    BY <1>5, AsideKeeps
  <1> QED BY <1>1, <1>2, <1>3, <1>4, <1>5, Zenon DEF Next

(* The invariant holds of every run of the program. *)
THEOREM InvariantHolds == Spec => []BlocksInv
  BY InitInv, NextInv, PTL DEF Spec

(* Every variable stays in its type. *)
THEOREM TypeCorrect == Spec => []TypeOK
  <1>1. BlocksInv => TypeOK
    BY DEF BlocksInv
  <1> QED BY <1>1, InvariantHolds, PTL

(* Between runs every block is in the ledger, or was left out by a crash, a *)
(* failed save, a vanished root or the developer, or is a seed without its  *)
(* BEGIN line that a strip overlooked (ReconcileRules and ReconcileSeeds    *)
(* with their saveManifest, stripUndesired; for any interleaving).          *)
THEOREM LedgerNamesBlocks == Spec => []BlocksTracked
  <1>1. BlocksInv => BlocksTracked
    <2> SUFFICES ASSUME BlocksInv, lock = None, NEW e \in Unledgered(block, ledger)
                 PROVE  e \in untracked
      BY DEF BlocksTracked, Quiet
    <2>1. \A r \in Procs : run[r].pc = "idle"
      BY BlocksAssumption DEF BlocksInv, Holds
    <2>2. Accounted
      BY <2>1 DEF BlocksInv, BetweenPasses, Passing, Writing, Stripping
    <2> QED BY <2>2 DEF Accounted, HasBlock, Unledgered
  <1> QED BY <1>1, InvariantHolds, PTL

(* A project that project remove took out of projects.json carries no       *)
(* intact block, unless it, or the directory of a seed without an entry,    *)
(* was out of reach or the developer put one back.                          *)
THEOREM RemovedProjectsClean == Spec => []RemovedIsClean
  <1>1. BlocksInv => RemovedIsClean
    BY DEF BlocksInv
  <1> QED BY <1>1, InvariantHolds, PTL

(* A run that reports no failure and no warning has delivered: every file   *)
(* it minds carries what is served, and nothing where nothing is, but for   *)
(* the two leftovers that pass without a warning.                           *)
THEOREM CleanRunsSettle == Spec => []CleanRunSettles
  <1>1. BlocksInv => CleanRunSettles
    <2> SUFFICES ASSUME BlocksInv, NEW r \in Procs, run[r].pc = "report", run[r].clean,
                        NEW f \in Files \ unseen, Root(f) \in run[r].live \cup {Home}
                 PROVE  \/ block[f] = Wanted(r, f)
                        \/ /\ Wanted(r, f) = None
                           /\ IF f \in Seeds THEN block[f] = Headless
                                            ELSE EntryOf(f) \in untracked
      BY DEF CleanRunSettles, At
    <2>1. PICK x \in Runs : x = run[r] /\ RunInv(x)
      BY DEF BlocksInv, TypeOK
    <2>2. f \in Minded(x) /\ Wanted(r, f) = Want(x, f)
      BY <2>1 DEF Minded, Wanted, Want
    <2>3. EntryOf(f) \in Entries /\ f \in FilesOf(EntryOf(f))
      BY EntryOfFile
    <2>4. CASE EntryOf(f) \in Seeds
      <3>1. f \in Seeds
        BY <2>3, <2>4, FilesOfEntry
      <3> QED BY <2>1, <2>2, <3>1 DEF RunInv, SeedsSettle, SeedSettled, AfterSeeds
    <2>5. CASE EntryOf(f) \in Projects \cup Globals
      <3>1. EntrySettled(x, EntryOf(f))
        BY <2>1, <2>5 DEF RunInv, RulesSettle
      <3>2. f \notin Seeds
        BY <2>5, EntryOfFile, FilesOfEntry, KindsApart
      <3> QED BY <2>2, <2>3, <3>1, <3>2 DEF EntrySettled
    <2> QED BY <2>3, <2>4, <2>5, KindsApart
  <1> QED BY <1>1, InvariantHolds, PTL

(* The steps that change what is on disk, and who takes them. *)
LEMMA WhoChangesBlocks ==
  ASSUME BlocksInv, [Next]_vars, block' # block
  PROVE  \/ UNCHANGED run
         \/ \E q \in Procs : run[q].pc \in {"swrite", "rwrite", "gwrite", "pseeds", "prules"}
         \/ \E q \in Procs, e \in Entries : \E bad \in SUBSET FilesOf(e) :
               run[q].pc \in Stripping /\ e \in run[q].todo /\ block' = Stripped(e, bad)
  <1>1. ASSUME NEW q \in Procs, NEW e \in Entries, StripOrFail(q, e), run[q].pc \in Stripping
        PROVE  \E bad \in SUBSET FilesOf(e) :
                 run[q].pc \in Stripping /\ e \in run[q].todo /\ block' = Stripped(e, bad)
    BY <1>1, Zenon DEF StripOrFail, StripEntry
  <1>2. ASSUME NEW q \in Procs, SyncStep(q)
        PROVE  \/ run[q].pc \in {"swrite", "rwrite", "gwrite"}
               \/ \E e \in Entries : \E bad \in SUBSET FilesOf(e) :
                     run[q].pc \in Stripping /\ e \in run[q].todo /\ block' = Stripped(e, bad)
    <2>1. CASE \E e \in Seeds : StripSeed(q, e)
      BY <1>1, <2>1, KindsApart DEF StripSeed, At, Stripping
    <2>2. CASE \E e \in Globals : StripGlobalRules(q, e)
      BY <1>1, <2>2, KindsApart DEF StripGlobalRules, At, Stripping
    <2>3. CASE \E p \in Projects : StripRulesFromProject(q, p)
      BY <1>1, <2>3, KindsApart DEF StripRulesFromProject, At, Stripping
    <2>4. CASE \/ \E e \in Seeds : WriteSeed(q, e)
               \/ \E e \in Globals : WriteGlobalRules(q, e)
               \/ \E p \in Projects : WriteRulesToProject(q, p)
      BY <2>4 DEF WriteSeed, WriteGlobalRules, WriteRulesToProject, At
    <2>5. CASE \/ BeginSync(q) \/ Fetch(q) \/ Abort(q) \/ Finish(q)
               \/ BeginSeeds(q) \/ BeginSeedStrip(q) \/ BeginRules(q) \/ BeginGlobals(q)
               \/ BeginGlobalStrip(q) \/ BeginRuleStrip(q) \/ SaveManifest(q) \/ SaveFails(q)
               \/ \E e \in Seeds : SeedRootGone(q, e)
               \/ \E e \in Globals : GlobalRootGone(q, e)
               \/ \E p \in Projects : StatProject(q, p) \/ ProjectGone(q, p)
      <3>1. UNCHANGED block
        BY <2>5, Zenon DEF BeginSync, Fetch, Abort, Finish, BeginSeeds, BeginSeedStrip, BeginRules,
           BeginGlobals, BeginGlobalStrip, BeginRuleStrip, SaveManifest, SaveFails, SeedRootGone,
           GlobalRootGone, StatProject, ProjectGone, disk
      <3> QED BY <3>1
    <2> QED BY <1>2, <2>1, <2>2, <2>3, <2>4, <2>5, Zenon DEF SyncStep
  <1>3. ASSUME NEW q \in Procs, CommandStep(q)
        PROVE  run[q].pc \in {"pseeds", "prules"}
    <2>1. ASSUME NEW p \in Projects, AddProject(q, p) \/ BeginRemove(q, p) PROVE UNCHANGED block
      BY <2>1 DEF AddProject, BeginRemove, disk
    <2>2. CASE DropProject(q)
      BY <2>2 DEF DropProject
    <2>3. CASE StripProjectSeeds(q) \/ StripProjectRules(q)
      BY <2>3, Zenon DEF StripProjectSeeds, StripProjectRules, At
    <2> QED BY <1>3, <2>1, <2>2, <2>3 DEF CommandStep
  <1>4. ASSUME NEW q \in Procs, Crash(q) PROVE FALSE
    BY <1>4 DEF Crash, disk
  <1>5. ASSUME NEW q \in Procs, NEW p \in Projects, CrashMidProject(q, p)
        PROVE  run[q].pc = "rwrite"
    BY <1>5 DEF CrashMidProject, At
  <1>6. ASSUME \/ \E f \in Files, c \in Contents : DeveloperEdits(f, c)
               \/ \E z \in Projects \cup {Codex} : RootChanges(z)
               \/ EntitlementChanges \/ UNCHANGED vars
        PROVE  UNCHANGED run
    BY <1>6 DEF DeveloperEdits, RootChanges, EntitlementChanges, vars
  <1>7. CASE \E q \in Procs : SyncStep(q)
    BY <1>2, <1>7
  <1>8. CASE \E q \in Procs : CommandStep(q) \/ Crash(q) \/ \E p \in Projects : CrashMidProject(q, p)
    BY <1>3, <1>4, <1>5, <1>8
  <1> QED BY <1>6, <1>7, <1>8, Zenon DEF Next

(* A sync strips no rules block and no seed that it was served, however the *)
(* write of it went (the strip passes of ReconcileRules, ReconcileSeeds).   *)
THEOREM EntitledIsKept == Spec => EntitledKept
  <1>1. BlocksInv /\ [Next]_vars => [~StripsWanted(Files \ Globals)]_vars
    <2> SUFFICES ASSUME BlocksInv, [Next]_vars, StripsWanted(Files \ Globals) PROVE FALSE
      OBVIOUS
    <2>1. PICK r \in Procs, f \in Files \ Globals :
            /\ run[r].pc \in {"sstrip", "gstrip", "rstrip"}
            /\ block[f] # None /\ block'[f] = None
            /\ run'[r].todo # run[r].todo /\ Wanted(r, f) # None
      BY DEF StripsWanted
    <2>2. PICK x \in Runs : x = run[r] /\ RunInv(x)
      BY DEF BlocksInv, TypeOK
    <2>3. \A q \in Procs : run[q].pc # "idle" => q = r
      BY <2>1 DEF BlocksInv, Holds
    <2>4. PICK q \in Procs, e \in Entries : \E bad \in SUBSET FilesOf(e) :
            run[q].pc \in Stripping /\ e \in run[q].todo /\ block' = Stripped(e, bad)
      <3>1. block' # block /\ ~(UNCHANGED run)
        BY <2>1
      <3>2. ~ \E q \in Procs : run[q].pc \in {"swrite", "rwrite", "gwrite", "pseeds", "prules"}
        BY <2>1, <2>3
      <3> QED BY <3>1, <3>2, WhoChangesBlocks
    <2>5. e \in x.todo /\ f \in FilesOf(e)
      <3>1. q = r
        BY <2>3, <2>4 DEF Stripping
      <3>2. f \in FilesOf(e)
        BY <2>1, <2>4 DEF Stripped
      <3> QED BY <2>2, <2>4, <3>1, <3>2
    <2>6. Want(x, f) # None
      BY <2>1, <2>2 DEF Wanted, Want
    <2>7. x.todo \subseteq KindOf(x.pc)
      BY <2>1, <2>2 DEF RunInv, PassInv, Passing, Stripping
    <2>8. CASE x.pc = "sstrip"
      <3>1. e \in Seeds /\ e \notin Wants(x, Seeds)
        BY <2>2, <2>5, <2>7, <2>8 DEF KindOf, RunInv, HeldInv
      <3> QED BY <2>5, <2>6, <3>1, WantFacts, KindsApart
    <2>9. CASE x.pc = "gstrip"
      <3>1. e \in Globals
        BY <2>5, <2>7, <2>9 DEF KindOf
      <3> QED BY <2>5, <3>1, FilesOfEntry
    <2>10. CASE x.pc = "rstrip"
      <3>1. e \in Projects /\ e \notin Wants(x, Projects)
        BY <2>2, <2>5, <2>7, <2>10 DEF KindOf, RunInv, HeldInv
      <3> QED BY <2>5, <2>6, <3>1, WantFacts, KindsApart
    <2> QED BY <2>1, <2>2, <2>8, <2>9, <2>10
  <1> QED BY <1>1, InvariantHolds, PTL DEF Spec, EntitledKept

(* Whatever carries a block in doctor's domain is within the next sync's    *)
(* reach, or doctor names it (Diagnose, checkMarkers, seedNamesIn).         *)
THEOREM DoctorNames == Spec => []DoctorComplete
  <1>1. BlocksInv => DoctorComplete
    <2> SUFFICES ASSUME TypeOK, NEW f \in Files \ Globals, block[f] # None,
                        TrustedRoot(registered, Root(f)) \/ f \in ledger,
                        f \in Seeds /\ block[f] = Headless => f \in ledger, ~Named(f)
                 PROVE  /\ TrustedRoot(registered, Root(f)) /\ Reachable(Root(f))
                        /\ Healthy(block[f])
                        /\ EntryOf(f) \in ledger \/ f \in Seeds
      BY DEF DoctorComplete, BlocksInv
    <2>1. EntryOf(f) \in Entries /\ f \in FilesOf(EntryOf(f))
      BY EntryOfFile
    <2>2. CASE EntryOf(f) \in Seeds
      <3>1. f \in Seeds /\ FilesOf(f) = {f} /\ Root(f) \in Projects \cup {Home}
        BY <2>1, <2>2, FilesOfEntry
      <3>2. Root(f) \in Projects => f = <<Root(f), "MEMORY.md">>
        BY <3>1 DEF Seeds, Root
      <3>3. CASE TrustedRoot(registered, Root(f))
        <4>1. Root(f) \in registered \cup {Home}
          BY <3>1, <3>3, BlocksAssumption DEF TrustedRoot
        <4>2. Reachable(Root(f))
          BY <4>1 DEF Reachable, Named, UnreachableProjects
        <4>3. f \in Scanned(registered, {})
          BY <3>1, <3>3, <4>2 DEF Scanned
        <4>4. f \in ledger
          BY <3>1, <4>3 DEF Named, OrphanedSeeds, HasBegin
        <4>5. Healthy(block[f])
          BY <3>1, <4>2, <4>4 DEF Named, BadMarkers
        <4> QED BY <3>1, <3>3, <4>2, <4>5
      <3>4. CASE ~TrustedRoot(registered, Root(f))
        <4>1. f \in ledger
          BY <3>4
        <4>2. Root(f) \in Projects
          BY <3>1, <3>4 DEF TrustedRoot
        <4>3. Reachable(Root(f))
          BY <3>2, <4>1, <4>2 DEF Reachable, Named, PreservedRoots
        <4>4. Healthy(block[f])
          BY <3>1, <4>1, <4>3 DEF Named, BadMarkers
        <4>5. ~Trusted(registered, f)
          BY <3>1, <3>4 DEF Trusted
        <4>6. f \in StrandedSeeds
          BY <3>1, <4>1, <4>3, <4>4, <4>5 DEF StrandedSeeds, HasBegin, Healthy
        <4> QED BY <4>6 DEF Named
      <3> QED BY <3>3, <3>4
    <2>3. CASE EntryOf(f) \in Projects
      <3>1. PICK p \in Projects : p = EntryOf(f) /\ f \in FilesOf(p) /\ Root(f) = p
        BY <2>1, <2>3, FilesOfEntry
      <3>2. f \notin ledger
        <4>1. f \notin Projects
          <5>1. f \in {<<p, "AGENTS.md">>, <<p, "CLAUDE.md">>}
            BY <3>1, FilesOfEntry
          <5>2. <<p, "AGENTS.md">> \notin Projects /\ <<p, "CLAUDE.md">> \notin Projects
            BY BlocksAssumption
          <5> QED BY <5>1, <5>2
        <4>2. f \notin Seeds
          BY <3>1, EntryOfFile, FilesOfEntry, KindsApart
        <4>3. f \notin Entries
          BY <4>1, <4>2, KindsApart
        <4> QED BY <4>3 DEF TypeOK
      <3>3. p \in registered
        BY <3>1, <3>2, BlocksAssumption DEF TrustedRoot
      <3>4. p \in present
        BY <3>1, <3>3 DEF Named, UnreachableProjects
      <3>5. f \in RulesFiles
        BY <3>1, <3>3, <3>4 DEF RulesFiles
      <3>6. Healthy(block[f])
        BY <3>5 DEF Named, BadMarkers
      <3>7. p \in ledger
        BY <3>1, <3>5, <3>6 DEF Named, OrphanedRules, HasBegin, Healthy
      <3> QED BY <3>1, <3>2, <3>4, <3>6, <3>7 DEF Reachable
    <2>4. CASE EntryOf(f) \in Globals
      BY <2>1, <2>4, FilesOfEntry
    <2> QED BY <2>1, <2>2, <2>3, <2>4, KindsApart
  <1> QED BY <1>1, InvariantHolds, PTL
=============================================================================
