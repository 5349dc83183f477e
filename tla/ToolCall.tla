------------------------------ MODULE ToolCall ------------------------------
(***************************************************************************)
(* One MCP request inside a gateway session, from the first receiving       *)
(* middleware to the answer (internal/gateway/server.go, rbac_middleware.go,*)
(* intercept.go, broker.go; internal/ratelimit/mcp.go). The middlewares run *)
(* in this order: rate limiter, in-flight cap (ConcurrencyLimiter, whose    *)
(* steps these are), the bound on subscriptions/listen, per-call RBAC. RBAC *)
(* decides, scans the arguments, checks the quota, counts the call and      *)
(* hands it to the proxy of an upstream, which scans the result.            *)
(*                                                                          *)
(* A payload is the set of rules it trips, over "plain" content. Sessions   *)
(* are what SessionCache keeps; here a request only notices that its own    *)
(* one has been closed under it. Whether the token bucket has a token is    *)
(* RateLimiter's business. Virtual keys, quotas and usage counts are seams  *)
(* that this edition fills with stubs (no key, never refuse, count          *)
(* nothing); the middleware is modelled against all a seam may answer.      *)
(***************************************************************************)
EXTENDS ConcurrencyLimiter

CONSTANTS
    Tools,        \* namespaced tool names a client may ask for
    Entitled,     \* those toolCallAuthorization accepts in the session
    Rules,        \* the scanner's rules
    Blocking      \* those of severity "block"

ASSUME ToolCallAssumption ==
    /\ Entitled \subseteq Tools
    /\ Blocking \subseteq Rules /\ "plain" \notin Rules

VARIABLES
    frame,        \* each request's position and what it has left behind
    dirty,        \* session.dirty of each principal's current session
    interceptor,  \* whether Server.interceptor is set
    keySessions,  \* principals whose session belongs to a virtual key
    revoked,      \* virtual keys revoked in the store
    known         \* revocationCache: keys proven revoked

requestVars == <<frame, dirty, interceptor, keySessions, revoked, known>>
allVars == <<slots, calls, frame, dirty, interceptor, keySessions, revoked, known>>

-----------------------------------------------------------------------------

Methods == {"tools/call", "tools/list", "subscriptions/listen", "initialize"}
RateLimited == {"tools/call", "initialize"}

(* What a CallToolResult carries of the upstream's: content,                *)
(* structuredContent and _meta.                                             *)
Parts == {"content", "structured", "meta"}

(* What is scanned trips one rule at most, in one place. *)
Payloads == {{}} \cup {{r} : r \in Rules}
Results == {[p \in Parts |-> IF p = q THEN {"plain"} \cup t ELSE {"plain"}] :
               q \in Parts, t \in Payloads}

(* conn: the session's upstream connections, "closing" once close() has     *)
(* been called on it under the request, "cut" once it has cancelled their   *)
(* contexts. late: the key was already revoked when the request arrived.    *)
(* trips, out: the rules that what the upstream returned trips, and what    *)
(* the client is given of it.                                               *)
NoRequest ==
    [pc |-> "idle", method |-> "tools/call", key |-> None, tool |-> None, args |-> {},
     conn |-> "open", late |-> FALSE, throttled |-> FALSE, decisions |-> {},
     findings |-> {}, scanFailed |-> FALSE, counted |-> FALSE, forwarded |-> FALSE,
     trips |-> {}, out |-> {}]

RequestState ==
    [pc : {"idle", "rate", "cap", "rbac", "listening", "args", "quota", "upstream",
           "answered", "leaving"},
     method : Methods, key : Keys \cup {None}, tool : Tools \cup {None},
     args : SUBSET Rules, conn : {"open", "closing", "cut"}, late : BOOLEAN,
     throttled : BOOLEAN, decisions : SUBSET {"allow", "deny"},
     findings : SUBSET ({"arguments", "result"} \X Rules), scanFailed : BOOLEAN,
     counted : BOOLEAN, forwarded : BOOLEAN, trips : SUBSET Rules,
     out : SUBSET (Rules \cup {"plain"})]

RequestTypeOK ==
    /\ TypeOK
    /\ frame \in [Calls -> RequestState]
    /\ \A c \in Calls : frame[c].pc \notin {"idle", "leaving"} => frame[c].key \in Keys
    /\ dirty \in [Keys -> BOOLEAN] /\ interceptor \in BOOLEAN
    /\ keySessions \in SUBSET Keys /\ revoked \in SUBSET keySessions
    /\ known \in SUBSET revoked

InitCall ==
    /\ Init
    /\ frame = [c \in Calls |-> NoRequest]
    /\ dirty = [k \in Keys |-> FALSE]
    /\ interceptor \in BOOLEAN /\ keySessions \in SUBSET Keys
    /\ revoked = {} /\ known = {}

At(c, pc) == frame[c].pc = pc

(* The handler returns. From here on the session does not matter. *)
Answer(f) == [f EXCEPT !.pc = "answered", !.conn = "open"]

Session == <<dirty, interceptor, keySessions, revoked, known>>

-----------------------------------------------------------------------------
(* The session under the request *)

(* session.close is called on the session of every request of that key. It  *)
(* asks the upstream to close (an HTTP DELETE without a timeout) before it  *)
(* cancels anything, so a call in flight is not cut off yet: see Sever.     *)
Severed(f, k) ==
    IF f.key = k /\ f.pc # "answered" /\ f.conn = "open"
    THEN [f EXCEPT !.conn = "closing"] ELSE f

(* The reaper or an entitlement nudge retires the session, busy or not. *)
Retire(k) ==
    /\ frame' = [c \in Calls |-> Severed(frame[c], k)]
    /\ dirty' = [dirty EXCEPT ![k] = FALSE]
    /\ UNCHANGED <<slots, calls, interceptor, keySessions, revoked, known>>

(* The upstream's close returned and cancel() severs the request's          *)
(* connection. It may never come.                                           *)
Sever(c) ==
    /\ frame[c].conn = "closing"
    /\ frame' = [frame EXCEPT ![c].conn = "cut"]
    /\ UNCHANGED <<slots, calls>> /\ UNCHANGED Session

(* withSession: a dirty session is closed and rebuilt for the next request. *)
(* What the request asks for is chosen where it is first looked at.         *)
Arrive(c, k, m) ==
    /\ At(c, "idle") /\ calls[c].pc = "idle"
    /\ frame' = [[d \in Calls |-> IF dirty[k] THEN Severed(frame[d], k) ELSE frame[d]]
                  EXCEPT ![c] =
                     [NoRequest EXCEPT
                        !.pc = IF m \in RateLimited THEN "rate" ELSE "rbac",
                        !.method = m, !.key = k, !.late = k \in revoked]]
    /\ dirty' = [dirty EXCEPT ![k] = FALSE]
    /\ UNCHANGED <<slots, calls, interceptor, keySessions, revoked, known>>

(* RevokeVirtualKey, in the store. A key never un-revokes. *)
Revoke(k) ==
    /\ k \in keySessions \ revoked
    /\ revoked' = revoked \cup {k}
    /\ UNCHANGED <<slots, calls, frame, dirty, interceptor, keySessions, known>>

-----------------------------------------------------------------------------
(* The limiters *)

RatePass(c) ==
    /\ At(c, "rate")
    /\ frame' = [frame EXCEPT ![c].pc = IF frame[c].method = "tools/call" THEN "cap" ELSE "rbac"]
    /\ UNCHANGED <<slots, calls>> /\ UNCHANGED Session

(* rateLimitedError. *)
RateRefuse(c) ==
    /\ At(c, "rate")
    /\ frame' = [frame EXCEPT ![c] = Answer([@ EXCEPT !.throttled = TRUE])]
    /\ UNCHANGED <<slots, calls>> /\ UNCHANGED Session

CapPass(c) ==
    /\ At(c, "cap")
    /\ AcquireAdmitted(c, frame[c].key)
    /\ frame' = [frame EXCEPT ![c].pc = "rbac"]
    /\ UNCHANGED Session

\* the cap sits inside rbacMiddleware: the decision is on record already
CapRefuse_AfterRBAC(c) ==
    /\ At(c, "cap")
    /\ AcquireRejected(c, frame[c].key)
    /\ frame' = [frame EXCEPT ![c] =
                    Answer([@ EXCEPT !.throttled = TRUE, !.decisions = {"allow"}])]
    /\ UNCHANGED Session

\* a call over the cap waits for a slot instead of being refused
CapRefuse_Waits(c) ==
    /\ At(c, "cap") /\ slots[frame[c].key].n >= Max
    /\ UNCHANGED allVars

(* concurrencyLimitedError. *)
CapRefuse(c) ==
    /\ At(c, "cap")
    /\ AcquireRejected(c, frame[c].key)
    /\ frame' = [frame EXCEPT ![c] = Answer([@ EXCEPT !.throttled = TRUE])]
    /\ UNCHANGED Session

-----------------------------------------------------------------------------
(* rbacMiddleware *)

\* "not revoked" is cached as well as "revoked"
KeyAnswers_CachesLive(c) ==
    IF frame[c].key \notin keySessions THEN {"live"}
    ELSE IF frame[c].key \in known THEN {"revoked"}
    ELSE {"live", IF frame[c].key \in revoked THEN "revoked" ELSE "live", "error"}

(* keyRevoked: only "revoked" is ever cached, anything else is asked of the *)
(* store, which may not answer. A person's session is not asked about.      *)
KeyAnswers(c) ==
    IF frame[c].key \notin keySessions THEN {"live"}
    ELSE IF frame[c].key \in known THEN {"revoked"}
    ELSE {IF frame[c].key \in revoked THEN "revoked" ELSE "live", "error"}

(* markRevoked. *)
Learn(c, answer) ==
    known' = IF answer = "revoked" THEN known \cup {frame[c].key} ELSE known

Deny(f) == Answer([f EXCEPT !.decisions = @ \cup {"deny"}])

(* rbacToolsCall: the key, then the entitlement, each denial audited. *)
Decide(c) ==
    /\ At(c, "rbac") /\ frame[c].method = "tools/call"
    /\ \E answer \in KeyAnswers(c), t \in Tools :
          /\ Learn(c, answer)
          /\ frame' = [frame EXCEPT ![c] =
                IF answer # "live" \/ t \notin Entitled THEN Deny([@ EXCEPT !.tool = t])
                ELSE [@ EXCEPT !.pc = "args", !.tool = t,
                               !.decisions = frame[c].decisions \cup {"allow"}]]
    /\ UNCHANGED <<slots, calls, dirty, interceptor, keySessions, revoked>>

(* rbacToolsList: a denial is audited; otherwise the registry answers.      *)
DecideList(c) ==
    /\ At(c, "rbac") /\ frame[c].method = "tools/list"
    /\ \E answer \in KeyAnswers(c) :
          /\ Learn(c, answer)
          /\ frame' = [frame EXCEPT ![c] =
                IF answer # "live" THEN Deny(@) ELSE Answer([@ EXCEPT !.forwarded = TRUE])]
    /\ UNCHANGED <<slots, calls, dirty, interceptor, keySessions, revoked>>

(* Every other method goes straight through: initialize is answered, and    *)
(* subscriptions/listen blocks.                                             *)
PassThrough(c) ==
    /\ At(c, "rbac") /\ frame[c].method \in {"initialize", "subscriptions/listen"}
    /\ frame' = [frame EXCEPT ![c] =
                    IF @.method = "initialize" THEN Answer(@)
                    ELSE [@ EXCEPT !.pc = "listening"]]
    /\ UNCHANGED <<slots, calls>> /\ UNCHANGED Session

(* boundListen: the context expires after listenMaxHold. *)
ListenExpires(c) ==
    /\ At(c, "listening")
    /\ frame' = [frame EXCEPT ![c] = Answer(@)]
    /\ UNCHANGED <<slots, calls>> /\ UNCHANGED Session

-----------------------------------------------------------------------------
(* Interception and forwarding *)

(* The findings of a scan: one per rule the payload trips. *)
ScanCall(payload) == payload \cap Rules

HasBlocking(findings) == findings \cap Blocking # {}

(* auditCallFinding for every finding. *)
Audited(f, direction, findings) ==
    [f EXCEPT !.findings = @ \cup ({direction} \X findings)]

(* interceptArguments. *)
ScanArguments(c) ==
    /\ At(c, "args")
    /\ \E a \in Payloads : frame' = [frame EXCEPT ![c] =
          IF ~interceptor THEN [@ EXCEPT !.pc = "quota", !.args = a]
          ELSE LET f == Audited([@ EXCEPT !.args = a], "arguments", ScanCall(a)) IN
               IF HasBlocking(ScanCall(a)) THEN Answer(f) ELSE [f EXCEPT !.pc = "quota"]]
    /\ UNCHANGED <<slots, calls>> /\ UNCHANGED Session

(* The scan fails: the call is refused. *)
ScanArgumentsError(c) ==
    /\ At(c, "args") /\ interceptor
    /\ frame' = [frame EXCEPT ![c] = Answer([@ EXCEPT !.scanFailed = TRUE])]
    /\ UNCHANGED <<slots, calls>> /\ UNCHANGED Session

QuotaRefuse(c) ==
    /\ At(c, "quota")
    /\ frame' = [frame EXCEPT ![c] = Answer(@)]
    /\ UNCHANGED <<slots, calls>> /\ UNCHANGED Session

(* Within the quota: count the call and hand it to the upstream's proxy. *)
Forward(c) ==
    /\ At(c, "quota")
    /\ frame' = [frame EXCEPT ![c] =
                    [@ EXCEPT !.pc = "upstream", !.counted = TRUE, !.forwarded = TRUE]]
    /\ UNCHANGED <<slots, calls>> /\ UNCHANGED Session

(* CallTool returns an error, or the client has gone away. *)
UpstreamError(c) ==
    /\ At(c, "upstream")
    /\ frame' = [frame EXCEPT ![c] = Answer(@)]
    /\ UNCHANGED <<slots, calls>> /\ UNCHANGED Session

(* ErrConnectionClosed, because the upstream is gone or the session was     *)
(* closed: markDirty, on the session the request belongs to.                *)
UpstreamClosed(c) ==
    /\ At(c, "upstream")
    /\ frame' = [frame EXCEPT ![c] = Answer(@)]
    /\ dirty' = [dirty EXCEPT ![frame[c].key] = @ \/ frame[c].conn = "open"]
    /\ UNCHANGED <<slots, calls, interceptor, keySessions, revoked, known>>

(* marshalResult: all the parts are scanned together. *)
Marshalled(r) == UNION {r[p] : p \in Parts}

\* only the content is replaced by the refusal
withholdResult_Content(r) == [r EXCEPT !["content"] = {}]

withholdResult(r) == [p \in Parts |-> {}]

(* interceptResult: what may become of a result, the scan failing or not.   *)
InterceptResult(f, r) ==
    LET findings == ScanCall(Marshalled(r)) IN
    IF ~interceptor THEN {[f EXCEPT !.out = Marshalled(r)]}
    ELSE {[Audited(f, "result", findings) EXCEPT
              !.out = Marshalled(IF HasBlocking(findings) THEN withholdResult(r) ELSE r)],
          [f EXCEPT !.scanFailed = TRUE, !.out = Marshalled(withholdResult(r))]}

(* CallTool returns a result, which the proxy scans before it passes it on. *)
UpstreamReturns(c) ==
    /\ At(c, "upstream") /\ frame[c].conn # "cut"
    /\ \E r \in Results : \E f \in InterceptResult(frame[c], r) :
          frame' = [frame EXCEPT ![c] = Answer([f EXCEPT !.trips = Marshalled(r) \cap Rules])]
    /\ UNCHANGED <<slots, calls>> /\ UNCHANGED Session

-----------------------------------------------------------------------------
(* The way out *)

(* The deferred release of a call that held a slot. *)
Leave(c) ==
    /\ At(c, "answered")
    /\ Release(c)
    /\ frame' = [frame EXCEPT ![c] = [NoRequest EXCEPT !.pc = "leaving"]]
    /\ UNCHANGED Session

(* The answer is sent, also by a request that never held one. *)
Respond(c) ==
    /\ At(c, "answered") \/ At(c, "leaving")
    /\ Return(c) \/ (calls[c].pc = "idle" /\ UNCHANGED <<slots, calls>>)
    /\ frame' = [frame EXCEPT ![c] = NoRequest]
    /\ UNCHANGED Session

Handler(c) ==
    \/ RatePass(c) \/ RateRefuse(c) \/ CapPass(c) \/ CapRefuse(c)
    \/ Decide(c) \/ DecideList(c) \/ PassThrough(c)
    \/ ScanArguments(c) \/ ScanArgumentsError(c) \/ QuotaRefuse(c) \/ Forward(c)
    \/ Leave(c) \/ Respond(c)

Upstream(c) == UpstreamReturns(c) \/ UpstreamError(c) \/ UpstreamClosed(c)

Environment ==
    \/ \E k \in Keys : Retire(k) \/ Revoke(k)
    \/ (Sweep \/ Tick) /\ UNCHANGED requestVars

NextCall ==
    \/ \E c \in Calls :
          \/ \E k \in Keys, m \in Methods : Arrive(c, k, m)
          \/ Handler(c) \/ Upstream(c) \/ ListenExpires(c) \/ Sever(c)
    \/ Environment

CallSpec == InitCall /\ [][NextCall]_allVars

-----------------------------------------------------------------------------
(* Properties *)

(* Nothing is forwarded that was not cleared on every count: a call that    *)
(* reaches an upstream was entitled, allowed and nothing else on the audit  *)
(* trail, scanned without a failure or a blocking finding when interception *)
(* is on, and is counted; and only such calls are counted. A request of a   *)
(* virtual key that arrived after the key was revoked is never forwarded,   *)
(* whatever the cache of revocations or the store answers.                  *)
OnlyClearedForwarded ==
    \A c \in Calls : LET f == frame[c] IN
        /\ f.forwarded => ~f.late
        /\ f.method = "tools/call" =>
              /\ f.counted = f.forwarded
              /\ f.forwarded =>
                    /\ f.tool \in Entitled /\ f.decisions = {"allow"}
                    /\ interceptor => ~HasBlocking(f.args)
                    /\ (interceptor /\ f.pc = "upstream") => ~f.scanFailed

(* The audit trail tells the truth about a finished call: a throttled one   *)
(* has no decision on record, any other exactly one, a denied one reached   *)
(* nobody, and every finding of a scan that completed is on record.         *)
TrailTruthful ==
    \A c \in Calls : LET f == frame[c] IN
        (f.pc = "answered" /\ f.method = "tools/call") =>
            /\ f.throttled => f.decisions = {} /\ f.findings = {}
            /\ ~f.throttled => Cardinality(f.decisions) = 1
            /\ "deny" \in f.decisions => ~f.forwarded
            /\ (interceptor /\ f.decisions = {"allow"} /\ ~f.scanFailed) =>
                  f.findings = ({"arguments"} \X f.args)
                               \cup ({"result"} \X f.trips)

(* With interception on, no part of a result that trips a blocking rule     *)
(* anywhere, or that could not be scanned, reaches the client.              *)
NothingBlockedDelivered ==
    \A c \in Calls : LET f == frame[c] IN
        (interceptor /\ f.pc = "answered" /\ (f.scanFailed \/ HasBlocking(f.trips)))
            => f.out = {}

(* No request is held by another one's upstream: every request is answered  *)
(* and gives its slot back, although upstreams may hang for ever, nothing   *)
(* bounds a tool call and slots can all be taken by calls that hang. Only a *)
(* call whose own upstream neither answers it nor, when the session is      *)
(* retired, the close that has to return before the call is cut off, may    *)
(* stay.                                                                    *)
CallsEnd ==
    \A c \in Calls :
        frame[c].pc # "idle"
            ~> (\/ frame[c].pc = "idle"
                \/ [](frame[c].pc = "upstream" /\ frame[c].conn # "cut"))

=============================================================================
