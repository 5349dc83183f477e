---------------------------- MODULE SessionBuild ----------------------------
(***************************************************************************)
(* Server.buildSession (internal/gateway/server.go): how a gateway session  *)
(* comes by its upstream connections and its tools. Phase 1 dials every     *)
(* candidate concurrently, a few at a time, each under a watchdog timer.    *)
(* Phase 2 walks the results in name order, decides who owns a slug, and    *)
(* registers the entitled tools (registerProxies, broker.go). The property  *)
(* behind it all is that rbacToolsCall, which only sees "slug__tool",       *)
(* authorizes a call against the server that will run it.                   *)
(*                                                                          *)
(* Servers are numbered in the order of their names. An entitlement grants  *)
(* a set of tools on a server (nil AllowedTools is the set of all of them). *)
(* Every candidate's outcome is also an audit row; rows are left out.       *)
(***************************************************************************)
EXTENDS Naturals, FiniteSets

CONSTANTS
    Servers,          \* the tenant's servers, a set of naturals in name order
    Active,           \* those whose status is "active"
    SlugOf,           \* naming.Slugify of each server's name
    Tools,            \* bare tool names
    ToolsOf,          \* the tools each upstream lists
    EntitlementSets,  \* the entitlements a caller may hold
    MaxParallelDials, \* maxParallelDials
    None              \* no server

Slugs == {SlugOf[s] : s \in Servers}

ParameterAssumption ==
    /\ Servers \subseteq Nat /\ IsFiniteSet(Servers)
    /\ Active \subseteq Servers
    /\ None \notin Servers
    /\ \A s \in Servers : ToolsOf[s] \subseteq Tools
    /\ MaxParallelDials \in Nat \ {0}
    /\ \A E \in EntitlementSets : E \subseteq [server : Servers, tools : SUBSET Tools]

VARIABLES
    pc,            \* "dial" (phase 1), "register" (phase 2), "done"
    ents,          \* sess.entitlements
    dial,          \* each candidate's goroutine and its dialOutcome
    watchdog,      \* each candidate's timer
    conn,          \* each candidate's connection
    todo,          \* candidates phase 2 has not finished with
    listed,        \* tools of the current candidate registerProxies has seen
    registry,      \* sess.mcpServer's tools: whose connection serves slug__tool
    slugToServer,  \* sess.slugToServer
    upstreams      \* sess.upstreams

vars == <<pc, ents, dial, watchdog, conn, todo, listed, registry, slugToServer,
          upstreams>>

-----------------------------------------------------------------------------
(* Entitlements (internal/rbac/rbac.go) *)

VisibleServerIDs == {e.server : e \in ents}

ToolAllowed(s, t) == \E e \in ents : e.server = s /\ t \in e.tools

(* toolCallAuthorization for a session without a virtual key. *)
ToolCallAllowed(slug, t) ==
    slugToServer[slug] # None /\ ToolAllowed(slugToServer[slug], t)

Candidates == VisibleServerIDs \cap Active

TypeOK ==
    /\ pc \in {"dial", "register", "done"}
    /\ ents \in EntitlementSets
    /\ dial \in [Servers -> {"queued", "dialing", "ok", "skipped", "failed"}]
    /\ watchdog \in [Servers -> {"off", "armed", "fired", "stopped"}]
    /\ conn \in [Servers -> {"none", "open", "closing", "closed"}]
    /\ todo \subseteq Candidates
    /\ listed \subseteq Tools
    /\ registry \in [Slugs \X Tools -> Servers \cup {None}]
    /\ slugToServer \in [Slugs -> Servers \cup {None}]
    /\ upstreams \subseteq Candidates

Init ==
    /\ pc = "dial"
    /\ ents \in EntitlementSets
    /\ dial = [s \in Servers |-> "queued"]
    /\ watchdog = [s \in Servers |-> "off"]
    /\ conn = [s \in Servers |-> "none"]
    /\ todo = Candidates
    /\ listed = {}
    /\ registry = [x \in Slugs \X Tools |-> None]
    /\ slugToServer = [g \in Slugs |-> None]
    /\ upstreams = {}

-----------------------------------------------------------------------------
(* Phase 1: dialUpstream, one goroutine per candidate *)

Phase2 == <<pc, ents, todo, listed, registry, slugToServer, upstreams>>

Dialing == {s \in Candidates : dial[s] = "dialing"}

(* Unsupported transport, or a secret or CA that does not resolve: the      *)
(* goroutine returns before it arms a watchdog.                             *)
DialSkip(s) ==
    /\ dial[s] = "queued"
    /\ Cardinality(Dialing) < MaxParallelDials
    /\ dial' = [dial EXCEPT ![s] = "skipped"]
    /\ UNCHANGED <<watchdog, conn>> /\ UNCHANGED Phase2

\* the dial starts without its watchdog
DialStart_NoWatchdog(s) ==
    /\ dial[s] = "queued"
    /\ Cardinality(Dialing) < MaxParallelDials
    /\ dial' = [dial EXCEPT ![s] = "dialing"]
    /\ UNCHANGED <<watchdog, conn>> /\ UNCHANGED Phase2

DialStart(s) ==
    /\ dial[s] = "queued"
    /\ Cardinality(Dialing) < MaxParallelDials
    /\ dial' = [dial EXCEPT ![s] = "dialing"]
    /\ watchdog' = [watchdog EXCEPT ![s] = "armed"]
    /\ UNCHANGED conn /\ UNCHANGED Phase2

(* connectUpstream succeeds; a cancelled context can no longer connect. *)
DialOK(s) ==
    /\ dial[s] = "dialing"
    /\ watchdog[s] = "armed"
    /\ dial' = [dial EXCEPT ![s] = "ok"]
    /\ conn' = [conn EXCEPT ![s] = "open"]
    /\ UNCHANGED watchdog /\ UNCHANGED Phase2

(* connectUpstream fails: refused, or cut off by the watchdog. *)
DialFail(s) ==
    /\ dial[s] = "dialing"
    /\ dial' = [dial EXCEPT ![s] = "failed"]
    /\ UNCHANGED <<watchdog, conn>> /\ UNCHANGED Phase2

(* time.AfterFunc(upstreamDialTimeout, cancel): at any time until stopped.  *)
WatchdogFires(s) ==
    /\ watchdog[s] = "armed"
    /\ watchdog' = [watchdog EXCEPT ![s] = "fired"]
    /\ UNCHANGED <<dial, conn>> /\ UNCHANGED Phase2

(* wg.Wait returns. *)
BeginRegister ==
    /\ pc = "dial"
    /\ \A s \in Candidates : dial[s] \in {"ok", "skipped", "failed"}
    /\ pc' = "register"
    /\ UNCHANGED <<ents, dial, watchdog, conn, todo, listed, registry, slugToServer,
                   upstreams>>

-----------------------------------------------------------------------------
(* Phase 2: one candidate at a time *)

(* The candidate the loop has reached. *)
Reached(s) == pc = "register" /\ s \in todo /\ \A u \in todo : s <= u

(* It is not being given up on. *)
Turn(s) == Reached(s) /\ conn[s] # "closing"

Stopped(s) == [watchdog EXCEPT ![s] = IF @ = "armed" THEN "stopped" ELSE @]

\* the connection of a skipped upstream is forgotten, not closed
SkipUpstream_NotClosed(s) ==
    /\ watchdog' = Stopped(s)
    /\ todo' = todo \ {s}
    /\ listed' = {}
    /\ UNCHANGED <<conn, pc, ents, dial, registry, slugToServer, upstreams>>

(* skipUpstream: disarm, close what was opened, cancel (and audit). The     *)
(* watchdog is stopped first and the close has no timeout, so a candidate   *)
(* that had a connection keeps the loop until SkipClosed.                   *)
SkipUpstream(s) ==
    /\ watchdog' = Stopped(s)
    /\ conn' = [conn EXCEPT ![s] = IF @ = "open" THEN "closing" ELSE @]
    /\ todo' = IF conn[s] = "open" THEN todo ELSE todo \ {s}
    /\ listed' = {}
    /\ UNCHANGED <<pc, ents, dial, registry, slugToServer, upstreams>>

(* session.Close() of a skipped upstream returns, if it ever does. *)
SkipClosed(s) ==
    /\ Reached(s)
    /\ conn[s] = "closing"
    /\ conn' = [conn EXCEPT ![s] = "closed"]
    /\ todo' = todo \ {s}
    /\ UNCHANGED <<pc, ents, dial, watchdog, listed, registry, slugToServer, upstreams>>

(* The dial did not produce a connection. *)
SkipDialed(s) ==
    /\ Turn(s)
    /\ dial[s] \in {"skipped", "failed"}
    /\ SkipUpstream(s)

\* no collision guard
Taken_Never(s) == FALSE

(* The slug already belongs to a server of this session. *)
Taken(s) == slugToServer[SlugOf[s]] # None

(* The slug-collision guard. *)
Collide(s) ==
    /\ Turn(s)
    /\ dial[s] = "ok" /\ Taken(s)
    /\ SkipUpstream(s)

(* registerProxies meets one more of the upstream's tools and registers it  *)
(* if the caller is entitled to it on this server. AddTool replaces a tool  *)
(* of the same name.                                                        *)
RegisterTool(s, t) ==
    /\ Turn(s)
    /\ dial[s] = "ok" /\ ~Taken(s)
    /\ t \in ToolsOf[s] \ listed
    /\ listed' = listed \cup {t}
    /\ registry' = [registry EXCEPT ![<<SlugOf[s], t>>] = IF ToolAllowed(s, t) THEN s ELSE @]
    /\ UNCHANGED <<pc, ents, dial, watchdog, conn, todo, slugToServer, upstreams>>

(* Listing the tools fails part-way: a bad page, or the watchdog. *)
RegisterFail(s) ==
    /\ Turn(s)
    /\ dial[s] = "ok" /\ ~Taken(s)
    /\ SkipUpstream(s)

(* watchdog.Stop() reports that the timer fired after the last page. *)
RegisterRace(s) ==
    /\ Turn(s)
    /\ dial[s] = "ok" /\ ~Taken(s)
    /\ listed = ToolsOf[s]
    /\ watchdog[s] = "fired"
    /\ SkipUpstream(s)

(* The upstream joins the session. *)
RegisterOK(s) ==
    /\ Turn(s)
    /\ dial[s] = "ok" /\ ~Taken(s)
    /\ listed = ToolsOf[s]
    /\ watchdog[s] = "armed"
    /\ watchdog' = Stopped(s)
    /\ slugToServer' = [slugToServer EXCEPT ![SlugOf[s]] = s]
    /\ upstreams' = upstreams \cup {s}
    /\ todo' = todo \ {s}
    /\ listed' = {}
    /\ UNCHANGED <<pc, ents, dial, conn, registry>>

Finish ==
    /\ pc = "register"
    /\ todo = {}
    /\ pc' = "done"
    /\ UNCHANGED <<ents, dial, watchdog, conn, todo, listed, registry, slugToServer,
                   upstreams>>

-----------------------------------------------------------------------------

Dial(s) == DialSkip(s) \/ DialStart(s) \/ DialOK(s) \/ DialFail(s)

Register(s) ==
    \/ SkipDialed(s) \/ Collide(s) \/ RegisterFail(s) \/ RegisterRace(s) \/ RegisterOK(s)
    \/ SkipClosed(s)
    \/ \E t \in Tools : RegisterTool(s, t)

Next ==
    \/ \E s \in Candidates : Dial(s) \/ WatchdogFires(s) \/ Register(s)
    \/ BeginRegister \/ Finish

Spec == Init /\ [][Next]_vars

(* A dial or a listing may hang for as long as its context lives, so only   *)
(* the timer is owed, and what follows once it has fired. The close of a    *)
(* skipped upstream (SkipClosed) has no timer and is owed nothing.          *)
Starts(s) == s \in Candidates /\ (DialStart(s) \/ DialSkip(s))
TimesOut(s) == s \in Candidates /\ WatchdogFires(s)
CutOff(s) == s \in Candidates /\ watchdog[s] = "fired" /\ (DialFail(s) \/ RegisterFail(s))
SkipsOver(s) == s \in Candidates /\ (SkipDialed(s) \/ Collide(s))

-----------------------------------------------------------------------------
(* Properties *)

(* A call is authorized against the server that runs it: whenever per-call  *)
(* RBAC lets slug__tool through to a live connection, that connection is    *)
(* the one RBAC looked up, whatever lossy slugs, failures and leftovers     *)
(* preceded it.                                                             *)
CallsReachAuthorizedServer ==
    \A g \in Slugs, t \in Tools :
        (ToolCallAllowed(g, t) /\ registry[g, t] \in upstreams) =>
            registry[g, t] = slugToServer[g]

(* No connection leaks from a build: what is not closed once it is done is  *)
(* owned by the session, which will close it. And the session keeps no      *)
(* connection a watchdog has severed or still can: the timer of every       *)
(* upstream was disarmed before it fired.                                   *)
ConnectionsOwned ==
    pc = "done" => \A s \in Servers :
        /\ conn[s] \in {"open", "closing"} <=> s \in upstreams
        /\ s \in upstreams => watchdog[s] = "stopped"

(* What the comment on rbacToolsList says: tools/list can only enumerate    *)
(* what a real tools/call could also reach.                                 *)
ListedIsCallable ==
    pc = "done" =>
        \A g \in Slugs, t \in Tools : registry[g, t] # None => ToolCallAllowed(g, t)

=============================================================================
