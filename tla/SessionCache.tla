---------------------------- MODULE SessionCache ----------------------------
(***************************************************************************)
(* The gateway's per-principal session cache (internal/gateway/session.go)  *)
(* together with the HTTP handler that reads it (withSession and the part   *)
(* of buildSession that decides what is cached, internal/gateway/server.go).*)
(*                                                                          *)
(* Each action is one critical section of sessionCache.mu, or one step a    *)
(* goroutine takes between two of them: requests run getOrBuild, share one  *)
(* build per key through singleflight, are checked against the              *)
(* Mcp-Session-Id index and are then served; a reaper, the entitlement      *)
(* nudge and shutdown evict sessions underneath them.                       *)
(*                                                                          *)
(* Instants are modelled by AGES: the code only ever compares differences   *)
(* now.Sub(t), so builtAt, lastSeen and staleAt become the time elapsed     *)
(* since, which Tick advances and AgeCap saturates above every threshold.   *)
(* time.Now() and the lock acquisition that follows it are one instant.     *)
(***************************************************************************)
EXTENDS Naturals, FiniteSets

CONSTANTS
    Requests,     \* concurrent HTTP request slots (goroutines)
    Keys,         \* cache keys, ratelimit.KeyFor(p): "subject|azp"
    TenantOf,     \* the tenant each key resolves into
    Sessions,     \* session objects that may be built
    Ids,          \* Mcp-Session-Ids that may be minted (rand.Text: never reused)
    MaxAge,       \* sessionCache.maxAge
    TTL,          \* sessionCache.ttl
    BuildBound,   \* how long a build that ends may take after it has read entitlements
    AgeCap,       \* ages saturate here, above every threshold
    None          \* no session / no id / no key

ASSUME KeyAssumption ==
    /\ TenantOf \in [Keys -> {TenantOf[k] : k \in Keys}]
    /\ None \notin Keys \cup Sessions \cup Ids

ASSUME TimeAssumption ==
    /\ MaxAge \in Nat /\ TTL \in Nat /\ BuildBound \in Nat /\ AgeCap \in Nat
    /\ AgeCap > 2 * MaxAge
    /\ AgeCap > TTL
    /\ AgeCap > MaxAge + BuildBound

VARIABLES
    m,        \* sessionCache.m: the current session of each key
    closed,   \* sessionCache.closed
    sess,     \* every session object
    bound,    \* sessionCache.bound: the Mcp-Session-Id index
    minted,   \* history: the session whose mcpServer minted each id
    flight,   \* singleflight.Group: the one running build of each key
    req,      \* the goroutine of each request slot
    reaper    \* the reaper goroutine: running, or stopped by closeAll

vars == <<m, closed, sess, bound, minted, flight, req, reaper>>

-----------------------------------------------------------------------------
(* Types *)

Age == 0 .. AgeCap
Causes == {"", "dirty", "max_age", "idle_timeout", "explicit_close",
           "entitlement_change", "unknown"}
Methods == {"POST", "DELETE"}

(* A session object. state follows its upstream connections: "free" not yet *)
(* built, "open" connections live, "evicted" removed from the cache with    *)
(* close() still to run or running, "closed" after close() returned.        *)
Session == [state : {"free", "open", "evicted", "closed"},
            key : Keys \cup {None}, builtAge : Age, idleAge : Age,
            readAge : Age, dirty : BOOLEAN, transportIDs : SUBSET Ids]

FreeSession == [state |-> "free", key |-> None, builtAge |-> 0, idleAge |-> 0,
                readAge |-> 0, dirty |-> FALSE, transportIDs |-> {}]

(* A binding. "none" is an id absent from the map; a tombstone has sess nil. *)
TransportBinding == [state : {"none", "live", "tombstone"},
                     sess : Sessions \cup {None}, cause : Causes, staleAge : Age]
Unbound == [state |-> "none", sess |-> None, cause |-> "", staleAge |-> 0]

(* The build of one key: the closure getOrBuild passes to group.Do. "hung"  *)
(* is a build that never comes back from closing an upstream it gave up on. *)
Flight == [pc : {"idle", "recheck", "closing", "resolve", "put", "hung", "putclose",
                 "return"},
           sess : Sessions \cup {None}]
NoFlight == [pc |-> "idle", sess |-> None]

(* A request's goroutine: in getOrBuild ("closing", "join", "wait"), at     *)
(* withSession's binding check ("check"), or in the MCP handler ("serve").  *)
RequestState == [pc : {"idle", "closing", "join", "wait", "check", "serve"},
                 key : Keys \cup {None}, id : Ids \cup {None}, method : Methods,
                 sess : Sessions \cup {None}]
Idle == [pc |-> "idle", key |-> None, id |-> None, method |-> "POST", sess |-> None]

Types ==
    /\ m \in [Keys -> Sessions \cup {None}]
    /\ closed \in BOOLEAN
    /\ sess \in [Sessions -> Session]
    /\ bound \in [Ids -> TransportBinding]
    /\ minted \in [Ids -> Sessions \cup {None}]
    /\ flight \in [Keys -> Flight]
    /\ req \in [Requests -> RequestState]
    /\ reaper \in [stopped : BOOLEAN, victims : SUBSET Sessions]

TypeOK ==
    /\ Types
    /\ \A k \in Keys : flight[k].pc \in {"closing", "put", "hung", "putclose", "return"}
                           => flight[k].sess # None
    /\ \A r \in Requests : /\ req[r].pc # "idle" => req[r].key # None
                           /\ req[r].pc \in {"closing", "check", "serve"} => req[r].sess # None
    /\ \A i \in Ids : bound[i].state = "live" <=> bound[i].sess # None

Init ==
    /\ m = [k \in Keys |-> None]
    /\ closed = FALSE
    /\ sess = [s \in Sessions |-> FreeSession]
    /\ bound = [i \in Ids |-> Unbound]
    /\ minted = [i \in Ids |-> None]
    /\ flight = [k \in Keys |-> NoFlight]
    /\ req = [r \in Requests |-> Idle]
    /\ reaper = [stopped |-> FALSE, victims |-> {}]

-----------------------------------------------------------------------------
(* Eviction *)

(* Mutants, here and below: plausible slips of the definition that follows. *)
(* Each is named for its definition and used only to show that some         *)
(* property notices it.                                                     *)

(* The rule that reclaims s, "" when s may stay: dirty, then max-age, then  *)
(* idle, the first that matches.                                            *)
ReclaimCause(s) ==
    IF sess[s].dirty THEN "dirty"
    ELSE IF sess[s].builtAge > MaxAge THEN "max_age"
    ELSE IF sess[s].idleAge > TTL THEN "idle_timeout"
    ELSE ""

Expired(s) == ReclaimCause(s) # ""

ReclaimCauses == [s \in Sessions |-> ReclaimCause(s)]
All(cause) == [s \in Sessions |-> cause]

Cached == {m[k] : k \in Keys} \ {None}

Tombstone(cause) ==
    [state |-> "tombstone", sess |-> None, cause |-> cause, staleAge |-> 0]

(* The index once every session of V has been through                       *)
(* staleTransportsLocked, session s with the reason cause[s].               *)
StaleTransports(V, cause) ==
    [i \in Ids |->
        IF bound[i].sess \in V /\ i \in sess[bound[i].sess].transportIDs
        THEN Tombstone(cause[bound[i].sess])
        ELSE bound[i]]

(* Sessions V leave the cache, their close() still to run. Their times and  *)
(* dirty flags are never read again.                                        *)
Evict(V) ==
    [s \in Sessions |->
        IF s \in V THEN [FreeSession EXCEPT !.state = "evicted", !.key = sess[s].key]
        ELSE sess[s]]

Without(V) == [k \in Keys |-> IF m[k] \in V THEN None ELSE m[k]]

TombstoneHorizon == 2 * MaxAge

\* live bindings are left alone, only tombstones expire
SweepTransports_TombstonesOnly(b, c) ==
    [i \in Ids |->
        IF b[i].state = "tombstone" /\ b[i].staleAge > TombstoneHorizon
        THEN Unbound ELSE b[i]]

(* sweepTransportsLocked over index b and cache c: a live binding whose     *)
(* session is no longer current becomes a tombstone, an old tombstone is    *)
(* forgotten.                                                               *)
SweepTransports(b, c) ==
    [i \in Ids |->
        CASE b[i].state = "live" /\ c[sess[b[i].sess].key] # b[i].sess
                 -> Tombstone("unknown")
          [] b[i].state = "tombstone" /\ b[i].staleAge > TombstoneHorizon
                 -> Unbound
          [] OTHER -> b[i]]

-----------------------------------------------------------------------------
(* A request: withSession and getOrBuild *)

(* A bearer token with key k arrives, carrying an Mcp-Session-Id some       *)
(* session minted (any client may hold any of them), or none. Its first     *)
(* step is the optimistic get of getOrBuild, below.                         *)
Received(r, k, i, meth) ==
    /\ req[r].pc = "idle"
    /\ i \in {None} \cup {j \in Ids : minted[j] # None}
    /\ meth = "DELETE" => i # None

Request(pc, k, i, meth, s) ==
    [pc |-> pc, key |-> k, id |-> i, method |-> meth, sess |-> s]

\* a hit renews the session's age as well as its lastSeen
GetHit_RenewsAge(r, k, i, meth) ==
    /\ Received(r, k, i, meth)
    /\ m[k] # None
    /\ ~Expired(m[k])
    /\ sess' = [sess EXCEPT ![m[k]].idleAge = 0, ![m[k]].builtAge = 0]
    /\ req' = [req EXCEPT ![r] = Request("check", k, i, meth, m[k])]
    /\ UNCHANGED <<m, closed, bound, minted, flight, reaper>>

(* get returns the cached session and stamps lastSeen. *)
GetHit(r, k, i, meth) ==
    /\ Received(r, k, i, meth)
    /\ m[k] # None
    /\ ~Expired(m[k])
    /\ sess' = [sess EXCEPT ![m[k]].idleAge = 0]
    /\ req' = [req EXCEPT ![r] = Request("check", k, i, meth, m[k])]
    /\ UNCHANGED <<m, closed, bound, minted, flight, reaper>>

\* the entry is closed without being deleted from the map
GetExpired_KeepsEntry(r, k, i, meth) ==
    /\ Received(r, k, i, meth)
    /\ m[k] # None
    /\ Expired(m[k])
    /\ bound' = StaleTransports({m[k]}, ReclaimCauses)
    /\ sess' = Evict({m[k]})
    /\ req' = [req EXCEPT ![r] = Request("closing", k, i, meth, m[k])]
    /\ UNCHANGED <<m, closed, minted, flight, reaper>>

(* get finds an expired session: tombstone its ids and delete it under the  *)
(* mutex, then close it off the mutex, in this goroutine.                   *)
GetExpired(r, k, i, meth) ==
    /\ Received(r, k, i, meth)
    /\ m[k] # None
    /\ Expired(m[k])
    /\ bound' = StaleTransports({m[k]}, ReclaimCauses)
    /\ m' = Without({m[k]})
    /\ sess' = Evict({m[k]})
    /\ req' = [req EXCEPT ![r] = Request("closing", k, i, meth, m[k])]
    /\ UNCHANGED <<closed, minted, flight, reaper>>

GetMiss(r, k, i, meth) ==
    /\ Received(r, k, i, meth)
    /\ m[k] = None
    /\ req' = [req EXCEPT ![r] = Request("join", k, i, meth, None)]
    /\ UNCHANGED <<m, closed, sess, bound, minted, flight, reaper>>

(* close() returned in a goroutine that had to wait for it. *)
GetClosed(r) ==
    /\ req[r].pc = "closing"
    /\ sess[req[r].sess].state = "closed"
    /\ req' = [req EXCEPT ![r].pc = "join", ![r].sess = None]
    /\ UNCHANGED <<m, closed, sess, bound, minted, flight, reaper>>

(* group.Do: run the build of this key, or share the one already running.   *)
Join(r) ==
    LET k == req[r].key IN
    /\ req[r].pc = "join"
    /\ req' = [req EXCEPT ![r].pc = "wait"]
    /\ flight' = IF flight[k].pc = "idle"
                 THEN [flight EXCEPT ![k].pc = "recheck"]
                 ELSE flight
    /\ UNCHANGED <<m, closed, sess, bound, minted, reaper>>

-----------------------------------------------------------------------------
(* A flight: the function passed to group.Do, once per key *)

\* no second look at the cache: the flight always builds
FlightRecheck_Skipped(k) ==
    /\ flight[k].pc = "recheck"
    /\ flight' = [flight EXCEPT ![k].pc = "resolve"]
    /\ UNCHANGED <<m, closed, sess, bound, minted, req, reaper>>

(* Re-check under the flight: a prior flight may have filled the cache. *)
FlightRecheck(k) ==
    LET s == m[k] IN
    /\ flight[k].pc = "recheck"
    /\ IF s = None
       THEN /\ flight' = [flight EXCEPT ![k].pc = "resolve"]
            /\ UNCHANGED <<m, sess, bound>>
       ELSE IF Expired(s)
       THEN /\ bound' = StaleTransports({s}, ReclaimCauses)
            /\ m' = Without({s})
            /\ sess' = Evict({s})
            /\ flight' = [flight EXCEPT ![k] = [pc |-> "closing", sess |-> s]]
       ELSE /\ sess' = [sess EXCEPT ![s].idleAge = 0]
            /\ flight' = [flight EXCEPT ![k] = [pc |-> "return", sess |-> s]]
            /\ UNCHANGED <<m, bound>>
    /\ UNCHANGED <<closed, minted, req, reaper>>

FlightClosed(k) ==
    /\ flight[k].pc = "closing"
    /\ sess[flight[k].sess].state = "closed"
    /\ flight' = [flight EXCEPT ![k] = [pc |-> "resolve", sess |-> None]]
    /\ UNCHANGED <<m, closed, sess, bound, minted, req, reaper>>

(* buildSession reads the caller's entitlements, makes the session and      *)
(* starts opening its upstream connections.                                 *)
BuildResolve(k, s) ==
    /\ flight[k].pc = "resolve"
    /\ sess[s].state = "free"
    /\ sess' = [sess EXCEPT ![s] = [FreeSession EXCEPT !.state = "open", !.key = k]]
    /\ flight' = [flight EXCEPT ![k] = [pc |-> "put", sess |-> s]]
    /\ UNCHANGED <<m, closed, bound, minted, req, reaper>>

\* a failed build leaves the group without waking those who joined it
BuildFail_ForgetsWaiters(k) ==
    /\ flight[k].pc = "resolve"
    /\ flight' = [flight EXCEPT ![k] = NoFlight]
    /\ UNCHANGED <<m, closed, sess, bound, minted, req, reaper>>

(* buildSession fails (resolver or store error): every waiter answers 503.  *)
BuildFail(k) ==
    /\ flight[k].pc = "resolve"
    /\ flight' = [flight EXCEPT ![k] = NoFlight]
    /\ req' = [r \in Requests |->
                  IF req[r].pc = "wait" /\ req[r].key = k THEN Idle ELSE req[r]]
    /\ UNCHANGED <<m, closed, sess, bound, minted, reaper>>

(* The skip path of a build closes the upstream it gives up on with the     *)
(* watchdog already stopped and no timeout: an upstream that does not       *)
(* answer that close holds the build, and everyone who shares it, for ever. *)
BuildHangs(k) ==
    /\ flight[k].pc = "put"
    /\ flight' = [flight EXCEPT ![k].pc = "hung"]
    /\ UNCHANGED <<m, closed, sess, bound, minted, req, reaper>>

\* a build that finishes after closeAll is dropped without being closed
Put_DropsLateBuild(k) ==
    LET s == flight[k].sess IN
    /\ flight[k].pc = "put"
    /\ flight' = [flight EXCEPT ![k].pc = "return"]
    /\ IF closed
       THEN UNCHANGED <<m, sess>>
       ELSE /\ sess' = [sess EXCEPT ![s].builtAge = 0, ![s].idleAge = 0]
            /\ m' = [m EXCEPT ![k] = s]
    /\ UNCHANGED <<closed, bound, minted, req, reaper>>

(* put: insert the built session, or close it when closeAll already ran.    *)
Put(k) ==
    LET s == flight[k].sess IN
    /\ flight[k].pc = "put"
    /\ IF closed
       THEN /\ bound' = StaleTransports({s}, All("explicit_close"))
            /\ sess' = Evict({s})
            /\ flight' = [flight EXCEPT ![k].pc = "putclose"]
            /\ UNCHANGED m
       ELSE /\ sess' = [sess EXCEPT ![s].builtAge = 0, ![s].idleAge = 0, ![s].key = k]
            /\ m' = [m EXCEPT ![k] = s]
            /\ flight' = [flight EXCEPT ![k].pc = "return"]
            /\ UNCHANGED bound
    /\ UNCHANGED <<closed, minted, req, reaper>>

PutClosed(k) ==
    /\ flight[k].pc = "putclose"
    /\ sess[flight[k].sess].state = "closed"
    /\ flight' = [flight EXCEPT ![k].pc = "return"]
    /\ UNCHANGED <<m, closed, sess, bound, minted, req, reaper>>

(* The flight leaves the group and hands its session to every waiter. *)
FlightReturn(k) ==
    /\ flight[k].pc = "return"
    /\ flight' = [flight EXCEPT ![k] = NoFlight]
    /\ req' = [r \in Requests |->
                  IF req[r].pc = "wait" /\ req[r].key = k
                  THEN [req[r] EXCEPT !.pc = "check", !.sess = flight[k].sess]
                  ELSE req[r]]
    /\ UNCHANGED <<m, closed, sess, bound, minted, reaper>>

-----------------------------------------------------------------------------
(* The binding check, and the MCP server behind it *)

\* any live binding is good enough, whoever's session it names
Admitted_AnyBinding(r) ==
    (req[r].id # None /\ req[r].method # "DELETE") => bound[req[r].id].state = "live"

(* withSession's switch: which requests reach the MCP handler. *)
Admitted(r) ==
    (req[r].id # None /\ req[r].method # "DELETE") =>
        /\ bound[req[r].id].state = "live"
        /\ bound[req[r].id].sess = req[r].sess

CheckPass(r) ==
    /\ req[r].pc = "check"
    /\ Admitted(r)
    /\ req' = [req EXCEPT ![r].pc = "serve"]
    /\ UNCHANGED <<m, closed, sess, bound, minted, flight, reaper>>

(* 404: a tombstone, another session's id, or an id with no binding. *)
CheckReject(r) ==
    /\ req[r].pc = "check"
    /\ ~Admitted(r)
    /\ req' = [req EXCEPT ![r] = Idle]
    /\ UNCHANGED <<m, closed, sess, bound, minted, flight, reaper>>

(* A request without an id: getServer hands the SDK the session's own       *)
(* mcpServer, whose GetSessionID mints an id and binds it (bindTransport).  *)
ServeInitialize(r, i) ==
    LET s == req[r].sess IN
    /\ req[r].pc = "serve"
    /\ req[r].id = None
    /\ minted[i] = None
    /\ minted' = [minted EXCEPT ![i] = s]
    /\ IF closed \/ bound[i].state # "none"
       THEN UNCHANGED <<bound, sess>>
       ELSE /\ bound' = [bound EXCEPT ![i] = [Unbound EXCEPT !.state = "live", !.sess = s]]
            /\ sess' = [sess EXCEPT ![s].transportIDs = @ \cup {i}]
    /\ req' = [req EXCEPT ![r] = Idle]
    /\ UNCHANGED <<m, closed, flight, reaper>>

(* A request that ends without a session id being minted: an ordinary call  *)
(* or a DELETE on a known transport, or a body the SDK refuses.             *)
ServeDone(r) ==
    /\ req[r].pc = "serve"
    /\ req' = [req EXCEPT ![r] = Idle]
    /\ UNCHANGED <<m, closed, sess, bound, minted, flight, reaper>>

(* A proxied call meets a closed upstream: the session whose frozen         *)
(* mcpServer serves the transport is marked dirty (markDirty).              *)
ServeDirty(r) ==
    /\ req[r].pc = "serve"
    /\ req[r].id # None
    /\ req[r].method = "POST"
    /\ sess' = [sess EXCEPT ![minted[req[r].id]].dirty = (@ \/ minted[req[r].id] \in Cached)]
    /\ req' = [req EXCEPT ![r] = Idle]
    /\ UNCHANGED <<m, closed, bound, minted, flight, reaper>>

-----------------------------------------------------------------------------
(* Eviction from outside the request path *)

(* reap: evict what get would, sweep the index, close the victims after.    *)
(* A tick already delivered may still win the select against c.done.        *)
Reap ==
    LET V == {s \in Cached : Expired(s)} IN
    /\ ~reaper.stopped
    /\ reaper.victims = {}
    /\ m' = Without(V)
    /\ sess' = Evict(V)
    /\ bound' = SweepTransports(StaleTransports(V, ReclaimCauses), Without(V))
    /\ reaper' = [reaper EXCEPT !.victims = V]
    /\ UNCHANGED <<closed, minted, flight, req>>

ReaperClosed ==
    /\ reaper.victims # {}
    /\ \A s \in reaper.victims : sess[s].state = "closed"
    /\ reaper' = [reaper EXCEPT !.victims = {}]
    /\ UNCHANGED <<m, closed, sess, bound, minted, flight, req>>

ReaperStop ==
    /\ closed
    /\ ~reaper.stopped
    /\ reaper.victims = {}
    /\ reaper' = [reaper EXCEPT !.stopped = TRUE]
    /\ UNCHANGED <<m, closed, sess, bound, minted, flight, req>>

(* invalidateTenant: the entitlement nudge drops a tenant's sessions. *)
InvalidateTenant(t) ==
    LET V == {s \in Cached : TenantOf[sess[s].key] = t} IN
    /\ ~closed
    /\ m' = Without(V)
    /\ sess' = Evict(V)
    /\ bound' = StaleTransports(V, All("entitlement_change"))
    /\ UNCHANGED <<closed, minted, flight, req, reaper>>

(* closeAll: graceful shutdown. *)
CloseAll ==
    /\ closed' = TRUE
    /\ m' = Without(Cached)
    /\ sess' = Evict(Cached)
    /\ bound' = StaleTransports(Cached, All("explicit_close"))
    /\ UNCHANGED <<minted, flight, req, reaper>>

(* session.close() returns: every upstream connection has been released.    *)
(* It may never do so. Each upstream's session.Close() is an HTTP DELETE    *)
(* without a timeout that runs BEFORE the context is cancelled, and one     *)
(* goroutine closes its victims one after the other, so an upstream that    *)
(* does not answer holds that goroutine and the sessions after it: the      *)
(* action has no fairness, and any set of closes may stay pending for ever. *)
SessionClose(s) ==
    /\ sess[s].state = "evicted"
    /\ sess' = [sess EXCEPT ![s].state = "closed"]
    /\ UNCHANGED <<m, closed, bound, minted, flight, req, reaper>>

-----------------------------------------------------------------------------
(* Time *)

Building == {flight[k].sess : k \in {j \in Keys : flight[j].pc = "put"}}

Older(a) == IF a < AgeCap THEN a + 1 ELSE a

(* One unit of time passes. A build in progress bounds it: dials are cut    *)
(* off by the watchdog, so no build that ends outlives BuildBound (one that *)
(* hangs is never put). So does closeAll: a reaper that is not busy closing *)
(* wakes up on c.done at once.                                              *)
Tick ==
    /\ closed => reaper.stopped \/ reaper.victims # {}
    /\ \A s \in Building : sess[s].readAge < BuildBound
    /\ sess' = [s \in Sessions |->
                   IF s \in Cached
                   THEN [sess[s] EXCEPT !.builtAge = Older(@), !.idleAge = Older(@),
                                        !.readAge = Older(@)]
                   ELSE IF s \in Building
                   THEN [sess[s] EXCEPT !.readAge = Older(@)]
                   ELSE sess[s]]
    /\ bound' = [i \in Ids |->
                    IF bound[i].state = "tombstone"
                    THEN [bound[i] EXCEPT !.staleAge = Older(@)]
                    ELSE bound[i]]
    /\ UNCHANGED <<m, closed, minted, flight, req, reaper>>

-----------------------------------------------------------------------------

RequestStep(r) ==
    \/ \E k \in Keys, i \in Ids \cup {None}, meth \in Methods :
          GetHit(r, k, i, meth) \/ GetExpired(r, k, i, meth) \/ GetMiss(r, k, i, meth)
    \/ GetClosed(r) \/ Join(r)
    \/ CheckPass(r) \/ CheckReject(r)
    \/ \E i \in Ids : ServeInitialize(r, i)
    \/ ServeDone(r) \/ ServeDirty(r)

FlightStep(k) ==
    \/ FlightRecheck(k) \/ FlightClosed(k)
    \/ \E s \in Sessions : BuildResolve(k, s)
    \/ BuildFail(k) \/ BuildHangs(k)
    \/ Put(k) \/ PutClosed(k) \/ FlightReturn(k)

Next ==
    \/ \E r \in Requests : RequestStep(r)
    \/ \E k \in Keys : FlightStep(k)
    \/ Reap \/ ReaperClosed \/ ReaperStop
    \/ \E t \in {TenantOf[k] : k \in Keys} : InvalidateTenant(t)
    \/ CloseAll
    \/ \E s \in Sessions : SessionClose(s)
    \/ Tick

Spec == Init /\ [][Next]_vars

(* Every goroutine that can run is eventually scheduled, the ticker keeps   *)
(* firing and time passes. An upstream owes nothing (a close may never      *)
(* return, a build may hang, a served call may last) and neither do         *)
(* clients, the nudge and shutdown.                                         *)
Fairness ==
    /\ \A r \in Requests :
          /\ WF_vars(GetClosed(r))
          /\ WF_vars(Join(r))
          /\ WF_vars(CheckPass(r) \/ CheckReject(r))
    /\ \A k \in Keys : WF_vars(FlightStep(k))
    /\ WF_vars(Reap)
    /\ WF_vars(ReaperClosed)
    /\ WF_vars(Tick)

FairSpec == Spec /\ Fairness

-----------------------------------------------------------------------------
(* Properties *)

(* No upstream connection set leaks: a session whose connections are open   *)
(* is the cache's current one for some key, or is still owned by the build  *)
(* that will put it. singleflight, put's closed branch and every eviction   *)
(* path have to agree for this to hold.                                     *)
NoLeakedSession ==
    \A s \in Sessions :
        sess[s].state = "open" =>
            \/ \E k \in Keys : m[k] = s
            \/ \E k \in Keys : flight[k].pc \in {"put", "hung"} /\ flight[k].sess = s

(* The cache never hands out a session that somebody is closing or has      *)
(* closed, and an entry is always the session built for that very key.      *)
CachedIsOpen ==
    \A k \in Keys :
        m[k] # None => sess[m[k]].state = "open" /\ sess[m[k]].key = k

(* A call admitted on an Mcp-Session-Id runs on the frozen MCP server that  *)
(* minted the id; that server belongs to the session getOrBuild just chose  *)
(* for the caller's own key. No interleaving of evictions, rebuilds and     *)
(* replays puts a call on another principal's server.                       *)
ServedByOwnSession ==
    \A r \in Requests :
        (req[r].pc = "serve" /\ req[r].id # None /\ req[r].method = "POST") =>
            /\ minted[req[r].id] = req[r].sess
            /\ sess[req[r].sess].key = req[r].key

(* A cache hit never serves entitlements read more than MaxAge plus the     *)
(* length of one build ago, with or without the nudge: builtAt is stamped   *)
(* by put, after the dials, so sessionMaxAge alone is not the ceiling.      *)
(* (BuildBound counts what a build that ends may spend in the close of an   *)
(* upstream it skipped, which nothing in the code limits.)                  *)
StalenessBounded ==
    [][\A r \in Requests :
          req[r].pc = "idle" /\ req'[r].pc = "check" =>
              sess[req'[r].sess].readAge <= MaxAge + BuildBound]_vars

(* The goroutine of request r stands at a close() it inherited (its own     *)
(* get's, or its flight's), or at a build that hangs in one.                *)
BehindClose(r) ==
    \/ req[r].pc = "closing"
    \/ /\ req[r].pc = "wait"
       /\ flight[req[r].key].pc \in {"closing", "putclose", "hung"}

(* Every request is refused or handed to the MCP handler: nobody waits for  *)
(* ever on a shared build, whichever way it ends. The one thing that can    *)
(* hold a request is an upstream that never answers the close its own key's *)
(* session ran into, which is where closing off the mutex (session.go:296)  *)
(* confines it: every other request still goes through.                     *)
RequestsAnswered ==
    \A r \in Requests :
        req[r].pc \notin {"idle", "serve"}
            ~> (req[r].pc \in {"idle", "serve"} \/ []BehindClose(r))

(* Shutdown lets go of everything: a session open once the cache is closed, *)
(* even one whose build finishes later, is eventually taken out and handed  *)
(* to the goroutine that closes it, unless its build never ends.            *)
ShutdownReleases ==
    \A s \in Sessions :
        closed /\ sess[s].state = "open"
            ~> (\/ sess[s].state # "open"
                \/ \E k \in Keys : flight[k].pc = "hung" /\ flight[k].sess = s)

(* The reclaimUnknown race heals: a binding taken out on a session already  *)
(* evicted is tombstoned by a later sweep, and every tombstone is forgotten *)
(* in the end, so the index stays bounded while the cache is open and the   *)
(* reaper lives: a reaper whose own close() never returns sweeps no more.   *)
IndexDrains ==
    \A i \in Ids :
        (/\ bound[i].state # "none"
         /\ bound[i].state = "live" => sess[bound[i].sess].state # "open")
        ~> (\/ bound[i].state = "none" \/ closed
            \/ [](reaper.victims # {}))

=============================================================================
