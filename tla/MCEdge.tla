------------------------------- MODULE MCEdge -------------------------------
(***************************************************************************)
(* What stands in front of an upstream: how a session is built              *)
(* (SessionBuild), the pipeline of its requests (ToolCall over              *)
(* ConcurrencyLimiter) and the token buckets (RateLimiter). They share no   *)
(* variable: a request runs in a session that is built, and ToolCall leaves *)
(* the outcome of a bucket open. So one is explored while the others rest.  *)
(***************************************************************************)
EXTENDS ToolCall, TLC

CONSTANTS
    Principals, Unit, Rate, BurstTokens, IdleTTL, MaxEntries, IdleCap,  \* RateLimiter
    Servers, Active, SlugOf, BareTools, ToolsOf, EntitlementSets,
    MaxParallelDials                                                    \* SessionBuild

VARIABLES
    side,       \* which of the three is explored
    buckets, ideal, evicted, callAge,
    pc, ents, dial, watchdog, conn, todo, listed, registry, slugToServer, upstreams

bucketVars == <<buckets, ideal, evicted, callAge>>
buildVars == <<pc, ents, dial, watchdog, conn, todo, listed, registry, slugToServer,
               upstreams>>
edgeVars == <<side, allVars, bucketVars, buildVars>>

(* What Edge.cfg gives a build: servers 1, 2 and 4 share a slug. *)
SharedSlugs == (1 :> "a") @@ (2 :> "a") @@ (3 :> "b") @@ (4 :> "a")

UpstreamTools == [s \in Servers |-> IF s = 2 THEN {"read"} ELSE BareTools]

Grant(s, T) == [server |-> s, tools |-> T]

Grants ==
    {{Grant(1, {"read"}), Grant(2, {"read", "write"}), Grant(3, {"write"}),
      Grant(4, {"read"})},
     {Grant(1, {"read", "write"}), Grant(2, {"read", "write"}), Grant(2, {})},
     {Grant(1, {}), Grant(2, {"write"}), Grant(4, {"read", "write"})}}

R == INSTANCE RateLimiter WITH Keys <- Principals, TTL <- IdleTTL, AgeCap <- IdleCap

B == INSTANCE SessionBuild WITH Tools <- BareTools

ASSUME BucketAssumption == R!ParameterAssumption
ASSUME ServersAssumption == B!ParameterAssumption

EdgeInit ==
    /\ side \in {"calls", "buckets", "build"} /\ InitCall /\ R!Init /\ B!Init
    /\ side # "calls" => ~interceptor /\ keySessions = {}
    /\ side # "build" => ents = CHOOSE E \in EntitlementSets : TRUE

OnCalls(A) == side = "calls" /\ A /\ UNCHANGED <<side, bucketVars, buildVars>>

OnBuild(A) == side = "build" /\ A /\ UNCHANGED <<side, allVars, bucketVars>>

(* A build is over once; nothing follows it here. *)
Built == pc = "done" /\ UNCHANGED buildVars

EdgeNext ==
    \/ OnCalls(NextCall)
    \/ side = "buckets" /\ R!Next /\ UNCHANGED <<side, allVars, buildVars>>
    \/ OnBuild(B!Next)
    \/ OnBuild(Built)

(* The handler's own steps are taken; a connection that is cut fails the    *)
(* call that waits on it; timers fire. An upstream owes nothing, neither to *)
(* a call nor to a dial nor to a close: a session may stay for ever at a    *)
(* close that does not return, and a reaper held by one retires no other,   *)
(* so neither Retire nor Sever is owed. Of a build only its own steps and   *)
(* its watchdogs are.                                                       *)
EdgeFairness ==
    /\ \A c \in Calls :
          /\ WF_edgeVars(OnCalls(Handler(c)))
          /\ WF_edgeVars(OnCalls(frame[c].conn = "cut" /\ UpstreamClosed(c)))
          /\ WF_edgeVars(OnCalls(ListenExpires(c)))
    /\ \A s \in Servers :
          /\ WF_edgeVars(OnBuild(B!Starts(s)))
          /\ WF_edgeVars(OnBuild(B!TimesOut(s)))
          /\ WF_edgeVars(OnBuild(B!CutOff(s)))
          /\ WF_edgeVars(OnBuild(B!SkipsOver(s)))
    /\ WF_edgeVars(OnBuild(B!BeginRegister)) /\ WF_edgeVars(OnBuild(B!Finish))

EdgeSpec == EdgeInit /\ [][EdgeNext]_edgeVars /\ EdgeFairness

-----------------------------------------------------------------------------

(* RateLimiter's: sweeping an idle bucket gives no tokens away. *)
SweepIsTransparent == R!SweepIsTransparent

(* RateLimiter's: a full map never drops a key that keeps calling while     *)
(* another has been silent for longer.                                      *)
ActiveKeysKept == R!ActiveKeysKept

(* SessionBuild's: a call is authorized against the server that runs it,    *)
(* whatever slugs, failed registrations and leftovers preceded it.          *)
CallsReachAuthorizedServer == B!CallsReachAuthorizedServer

(* SessionBuild's: what a finished build left open is what the session      *)
(* owns, and no watchdog can still sever it.                                *)
ConnectionsOwned == B!ConnectionsOwned

(* SessionBuild's: a build ends although every upstream may hang, while it  *)
(* is dialled and while its tools are listed. The one thing that can hold   *)
(* it is an upstream that, once connected and skipped, never answers its    *)
(* close, for which the code sets no limit.                                 *)
BuildEnds ==
    side = "build" => \/ <>(pc = "done")
                      \/ \E s \in Servers : <>[](conn[s] = "closing")
=============================================================================
