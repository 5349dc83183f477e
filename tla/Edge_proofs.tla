----------------------------- MODULE Edge_proofs -----------------------------
(***************************************************************************)
(* What stands in front of an upstream, proved for any number of requests,  *)
(* principals, tools, rules and servers, and any rate, burst and cap.       *)
(*                                                                          *)
(* The concurrency limiter comes first, by itself. CapHolds is not          *)
(* inductive: the limiter never looks at the calls, only at its counters,   *)
(* so the proof carries CountExact, each counter being the number of calls  *)
(* that hold a slot. Then the call pipeline: Good says what each middleware *)
(* has established when the request has passed it, the three properties     *)
(* being what it says of an answered one; that the pipeline implements the  *)
(* limiter carries the cap over. Then the rate limiter, key by key          *)
(* (BucketGood), and the build of a session (BuildInv). They share no       *)
(* variable, so each is proved from its own specification.                  *)
(***************************************************************************)
EXTENDS MCEdge, FiniteSetTheorems, TLAPS

-----------------------------------------------------------------------------
(* The limiter *)

(* The calls of one key are finitely many, so counting them is meaningful. *)
LEMMA RunningFinite ==
    ASSUME NEW k \in Keys
    PROVE  IsFiniteSet(Running(k)) /\ Cardinality(Running(k)) \in Nat
  <1>1. IsFiniteSet(Running(k))
    BY FS_Subset, CallsAssumption DEF Running
  <1> QED BY <1>1, FS_CardinalityType

(* An absent entry is a slot. *)
LEMMA AbsentType == Absent \in Slot
  BY AgeAssumption DEF Absent, Slot, Age

(* Older stays an age. *)
LEMMA OlderType == \A a \in Age : Older(a) \in Age
  BY AgeAssumption DEF Older, Age

(* The initial state is well typed. *)
LEMMA InitType == Init => TypeOK
  BY AbsentType, AgeAssumption DEF Init, TypeOK, Call, Idle, Absent, Age

(* Every action preserves the types, and a positive count keeps its entry. *)
LEMMA NextType == TypeOK /\ [Next]_vars => TypeOK'
  <1> SUFFICES ASSUME TypeOK, [Next]_vars PROVE TypeOK'
    OBVIOUS
  <1> USE DEF TypeOK
  <1>1. ASSUME NEW c \in Calls, NEW k \in Keys, AcquireAdmitted(c, k) PROVE TypeOK'
    BY <1>1, CallsAssumption DEF AcquireAdmitted, Slot, Call
  <1>2. ASSUME NEW c \in Calls, NEW k \in Keys, AcquireRejected(c, k) PROVE TypeOK'
    BY <1>2, CallsAssumption DEF AcquireRejected, Call
  <1>4. ASSUME NEW c \in Calls, Release(c) PROVE TypeOK'
    <2> DEFINE k == calls[c].key
    <2>1. calls' \in [Calls -> Call] /\ \A d \in Calls : calls'[d].pc # "idle" => calls'[d].key # None
      BY <1>4 DEF Release, Call
    <2>2. k \in Keys
      BY <1>4 DEF Release, Call
    <2>3. CASE calls[c].pc = "running" /\ slots[k].n > 0
      <3>1. slots[k].n \in Nat /\ slots[k].n - 1 \in Nat
        BY <2>2, <2>3 DEF Slot
      <3>2. slots' = [slots EXCEPT ![k].n = @ - 1,
                                   ![k].idleAge = IF slots[k].n = 1 THEN 0 ELSE @]
        BY <1>4, <2>3 DEF Release
      <3>3. 0 \in Age
        BY AgeAssumption DEF Age
      <3>4. slots' \in [Keys -> Slot]
        BY <2>2, <3>1, <3>2, <3>3 DEF Slot
      <3>5. \A j \in Keys : slots'[j].n > 0 => slots'[j].present
        BY <2>2, <2>3, <3>2 DEF Slot
      <3> QED BY <1>4, <2>1, <3>4, <3>5 DEF Release
    <2>4. CASE ~(calls[c].pc = "running" /\ slots[k].n > 0)
      BY <1>4, <2>1, <2>4 DEF Release
    <2> QED BY <2>3, <2>4
  <1>5. ASSUME NEW c \in Calls, Return(c) PROVE TypeOK'
    BY <1>5 DEF Return, Call, Idle
  <1>6. CASE Sweep
    BY <1>6, AbsentType DEF Sweep, Slot, Absent
  <1>7. CASE Tick
    BY <1>7, OlderType DEF Tick, Slot
  <1>8. CASE UNCHANGED vars
    BY <1>8 DEF vars
  <1> QED BY <1>1, <1>2, <1>4, <1>5, <1>6, <1>7, <1>8 DEF Next, CallStep

(* The limiter's map and the middleware frames keep their types. *)
THEOREM TypeCorrect == Spec => []TypeOK
  BY InitType, NextType, PTL DEF Spec

(* A step that moves no call into or out of the handler keeps the counts.   *)
LEMMA SameRunning ==
    ASSUME TypeOK, CountExact,
           \A k \in Keys : slots'[k].n = slots[k].n /\ Running(k)' = Running(k)
    PROVE  CountExact'
  BY DEF CountExact

(* Every action keeps the counters equal to the calls they stand for.       *)
LEMMA NextCount == TypeOK /\ CountExact /\ [Next]_vars => CountExact'
  <1> SUFFICES ASSUME TypeOK, CountExact, [Next]_vars PROVE CountExact'
    OBVIOUS
  <1> USE DEF TypeOK
  <1>1. ASSUME NEW c \in Calls, NEW k \in Keys, AcquireAdmitted(c, k) PROVE CountExact'
    <2> SUFFICES ASSUME NEW j \in Keys PROVE slots'[j].n = Cardinality(Running(j)')
      BY DEF CountExact
    <2>1. CASE j = k
      <3>1. Running(k)' = Running(k) \cup {c} /\ c \notin Running(k)
        BY <1>1, CallsAssumption DEF AcquireAdmitted, Running, Call
      <3>2. Cardinality(Running(k)') = Cardinality(Running(k)) + 1
        BY <3>1, RunningFinite, FS_AddElement
      <3>3. slots'[k].n = slots[k].n + 1
        BY <1>1 DEF AcquireAdmitted, Slot
      <3> QED BY <2>1, <3>2, <3>3 DEF CountExact
    <2>2. CASE j # k
      <3>1. Running(j)' = Running(j) /\ slots'[j].n = slots[j].n
        BY <1>1, <2>2 DEF AcquireAdmitted, Running, Call, Slot
      <3> QED BY <3>1 DEF CountExact
    <2> QED BY <2>1, <2>2
  <1>2. ASSUME NEW c \in Calls, NEW k \in Keys, AcquireRejected(c, k) PROVE CountExact'
    BY <1>2, SameRunning DEF AcquireRejected, Running, Call, Slot
  <1>4. ASSUME NEW c \in Calls, Release(c) PROVE CountExact'
    <2>1. PICK k \in Keys : k = calls[c].key
      BY <1>4 DEF Release, Call
    <2>2. CASE calls[c].pc = "running"
      <3>1. c \in Running(k)
        BY <2>1, <2>2 DEF Running
      <3>2. Cardinality(Running(k)) \in Nat /\ Cardinality(Running(k)) # 0
        BY <2>1, <3>1, RunningFinite, FS_EmptySet
      <3>3. slots[k].n > 0
        BY <2>1, <3>2 DEF CountExact
      <3>4. slots' = [slots EXCEPT ![k].n = @ - 1,
                                   ![k].idleAge = IF slots[k].n = 1 THEN 0 ELSE @]
        BY <1>4, <2>1, <2>2, <3>3 DEF Release
      <3>5. slots'[k].n = slots[k].n - 1 /\ \A j \in Keys \ {k} : slots'[j].n = slots[j].n
        BY <2>1, <3>4 DEF Slot
      <3>6. Running(k)' = Running(k) \ {c} /\ \A j \in Keys \ {k} : Running(j)' = Running(j)
        BY <1>4, <2>1, <2>2 DEF Release, Running, Call
      <3>7. Cardinality(Running(k) \ {c}) = Cardinality(Running(k)) - 1
        BY <2>1, <3>1, RunningFinite, FS_RemoveElement
      <3>8. slots'[k].n = Cardinality(Running(k)')
        BY <2>1, <3>5, <3>6, <3>7 DEF CountExact
      <3>9. ASSUME NEW j \in Keys, j # k PROVE slots'[j].n = Cardinality(Running(j)')
        BY <3>5, <3>6, <3>9 DEF CountExact
      <3> QED BY <3>8, <3>9 DEF CountExact
    <2>3. CASE calls[c].pc # "running"
      BY <1>4, <2>3, SameRunning DEF Release, Running, Call
    <2> QED BY <2>2, <2>3
  <1>5. ASSUME NEW c \in Calls, Return(c) PROVE CountExact'
    BY <1>5, SameRunning DEF Return, Running, Call, Idle
  <1>6. CASE Sweep
    BY <1>6, SameRunning DEF Sweep, Running, Absent
  <1>7. CASE Tick
    BY <1>7, SameRunning DEF Tick, Running, Slot
  <1>8. CASE UNCHANGED vars
    BY <1>8, SameRunning DEF vars, Running
  <1> QED BY <1>1, <1>2, <1>4, <1>5, <1>6, <1>7, <1>8 DEF Next, CallStep

(* No slot leaks and none is counted twice: each counter is the number of   *)
(* calls its principal has in the handler.                                  *)
THEOREM CountsAreExact == Spec => []CountExact
  <1>1. Init => CountExact
    <2> SUFFICES ASSUME Init, NEW k \in Keys PROVE slots[k].n = Cardinality(Running(k))
      BY DEF CountExact
    <2>1. Running(k) = {}
      BY DEF Init, Running, Idle
    <2> QED BY <2>1, FS_EmptySet DEF Init, Absent
  <1> QED BY <1>1, NextCount, TypeCorrect, PTL DEF Spec

(* A principal never has more than Max calls in flight, for any number of   *)
(* callers, principals and sweeps.                                          *)
THEOREM CapIsNeverExceeded == Spec => []CapHolds
  <1> DEFINE Bounded == \A k \in Keys : slots[k].n <= Max
  <1>1. Init => Bounded
    BY MaxAssumption DEF Init, Absent
  <1>2. TypeOK /\ Bounded /\ [Next]_vars => Bounded'
    <2> SUFFICES ASSUME TypeOK, Bounded, [Next]_vars PROVE Bounded'
      OBVIOUS
    <2> USE MaxAssumption DEF TypeOK
    <2>1. ASSUME NEW c \in Calls, NEW k \in Keys, AcquireAdmitted(c, k) PROVE Bounded'
      BY <2>1 DEF AcquireAdmitted, Slot
    <2>2. ASSUME NEW c \in Calls, NEW k \in Keys, AcquireRejected(c, k) PROVE Bounded'
      BY <2>2 DEF AcquireRejected, Slot
    <2>3. ASSUME NEW c \in Calls, Return(c) PROVE Bounded'
      BY <2>3 DEF Return
    <2>4. ASSUME NEW c \in Calls, Release(c) PROVE Bounded'
      <3> DEFINE j == calls[c].key
      <3>1. j \in Keys /\ slots[j].n \in Nat
        BY <2>4 DEF Release, Call, Slot
      <3>2. slots' = slots \/ slots' = [slots EXCEPT ![j].n = @ - 1,
                                   ![j].idleAge = IF slots[j].n = 1 THEN 0 ELSE @]
        BY <2>4 DEF Release
      <3>3. \A k \in Keys : slots'[k].n = slots[k].n \/ slots'[k].n = slots[k].n - 1
        BY <3>1, <3>2 DEF Slot
      <3> QED BY <3>3 DEF Slot
    <2>5. CASE Sweep
      BY <2>5 DEF Sweep, Slot, Absent
    <2>6. CASE Tick
      BY <2>6 DEF Tick, Slot
    <2>7. CASE UNCHANGED vars
      BY <2>7 DEF vars
    <2> QED BY <2>1, <2>2, <2>3, <2>4, <2>5, <2>6, <2>7 DEF Next, CallStep
  <1>3. Bounded /\ CountExact => CapHolds
    BY DEF CountExact, CapHolds
  <1> QED BY <1>1, <1>2, <1>3, TypeCorrect, CountsAreExact, PTL DEF Spec

-----------------------------------------------------------------------------
(* The pipeline *)

(* Nothing is on record and nothing was done. *)
Blank(f) ==
    /\ f.decisions = {} /\ f.findings = {} /\ f.args = {} /\ f.trips = {} /\ f.out = {}
    /\ ~f.throttled /\ ~f.scanFailed /\ ~f.counted /\ ~f.forwarded

(* rbacToolsCall let it through. *)
Allowed(f) ==
    /\ f.method = "tools/call" /\ ~f.late
    /\ f.tool \in Entitled /\ f.decisions = {"allow"}
    /\ ~f.throttled /\ ~f.scanFailed /\ f.trips = {} /\ f.out = {}

(* interceptArguments, if interception is on, found nothing that blocks. *)
Scanned(f, on) ==
    on => ~HasBlocking(f.args) /\ f.findings = {"arguments"} \X f.args

Cleared(f, on) ==
    /\ f.forwarded => ~f.late
    /\ f.method = "tools/call" =>
          /\ f.counted = f.forwarded
          /\ f.forwarded => /\ f.tool \in Entitled /\ f.decisions = {"allow"}
                            /\ on => ~HasBlocking(f.args)

Truthful(f, on) ==
    f.method = "tools/call" =>
        /\ f.throttled => f.decisions = {} /\ f.findings = {}
        /\ ~f.throttled => f.decisions = {"allow"} \/ f.decisions = {"deny"}
        /\ "deny" \in f.decisions => ~f.forwarded
        /\ (on /\ f.decisions = {"allow"} /\ ~f.scanFailed) =>
              f.findings = ({"arguments"} \X f.args) \cup ({"result"} \X f.trips)

Withheld(f, on) ==
    (on /\ (f.scanFailed \/ HasBlocking(f.trips))) => f.out = {}

Answered(f, on) == Cleared(f, on) /\ Truthful(f, on) /\ Withheld(f, on)

Good(f, on, gone) ==
    /\ f.late => f.key \in gone
    /\ f.pc \in {"idle", "rate", "cap", "rbac", "listening", "leaving"} => Blank(f)
    /\ f.pc = "listening" => f.method # "tools/call"
    /\ f.pc = "args" => /\ Allowed(f) /\ f.findings = {}
                        /\ ~f.counted /\ ~f.forwarded
    /\ f.pc = "quota" => Allowed(f) /\ Scanned(f, on) /\ ~f.counted /\ ~f.forwarded
    /\ f.pc = "upstream" => Allowed(f) /\ Scanned(f, on) /\ f.counted /\ f.forwarded
    /\ f.pc = "answered" => Answered(f, on)

Keyed(f) == f.pc \notin {"idle", "leaving"} => f.key \in Keys

IInv == RequestTypeOK /\ \A c \in Calls : Good(frame[c], interceptor, revoked)

-----------------------------------------------------------------------------

(* A slot with no request is in order. *)
LEMMA NoRequestGood ==
  ASSUME NEW on, NEW gone
  PROVE  NoRequest \in RequestState /\ Keyed(NoRequest) /\ Good(NoRequest, on, gone)
  BY DEF NoRequest, RequestState, Methods, Keyed, Good, Blank

(* A step of one request. *)
LEMMA FrameStep ==
  ASSUME IInv, TypeOK', NEW c \in Calls, NEW new \in RequestState,
         frame' = [frame EXCEPT ![c] = new], Keyed(new), Good(new, interceptor, revoked),
         UNCHANGED <<interceptor, keySessions, revoked>>,
         dirty' \in [Keys -> BOOLEAN], known' \in SUBSET revoked
  PROVE  IInv'
  <1>1. /\ frame' \in [Calls -> RequestState] /\ frame'[c] = new
        /\ \A d \in Calls \ {c} : frame'[d] = frame[d]
    BY DEF IInv, RequestTypeOK
  <1>2. \A d \in Calls : Keyed(frame'[d])
    BY <1>1 DEF IInv, RequestTypeOK, Keyed
  <1>3. RequestTypeOK'
    BY <1>1, <1>2 DEF IInv, RequestTypeOK, Keyed
  <1>4. \A d \in Calls : Good(frame'[d], interceptor', revoked')
    BY <1>1 DEF IInv
  <1> QED BY <1>3, <1>4 DEF IInv

(* A request whose session matters no more is what it was. *)
LEMMA AnswerShape ==
  ASSUME NEW f \in RequestState, NEW on, NEW gone, Keyed(f), f.pc \notin {"idle", "leaving"},
         f.late => f.key \in gone, Answered(f, on)
  PROVE  Answer(f) \in RequestState /\ Keyed(Answer(f)) /\ Good(Answer(f), on, gone)
  <1> DEFINE g == Answer(f)
  <1>1. /\ g \in RequestState /\ g.pc = "answered" /\ g.key = f.key /\ g.late = f.late
        /\ g.method = f.method /\ g.counted = f.counted /\ g.forwarded = f.forwarded
        /\ g.tool = f.tool /\ g.decisions = f.decisions /\ g.args = f.args
        /\ g.throttled = f.throttled /\ g.findings = f.findings
        /\ g.scanFailed = f.scanFailed /\ g.trips = f.trips /\ g.out = f.out
    BY DEF Answer, RequestState
  <1> HIDE DEF g
  <1>2. Answered(g, on)
    BY <1>1 DEF Answered, Cleared, Truthful, Withheld
  <1>3. Keyed(g) /\ Good(g, on, gone)
    BY <1>1, <1>2 DEF Keyed, Good
  <1> QED BY <1>1, <1>3 DEF g

(* What the invariant says of one request. *)
LEMMA KnowCall ==
  ASSUME IInv, NEW c \in Calls
  PROVE  /\ frame[c] \in RequestState /\ Keyed(frame[c])
         /\ Good(frame[c], interceptor, revoked)
  BY DEF IInv, RequestTypeOK, Keyed

-----------------------------------------------------------------------------
(* The limiter under the pipeline *)

(* A request drives the in-flight cap through its own operations and no     *)
(* other way: every step is a step of ConcurrencyLimiter or none of its.    *)
LEMMA LimiterStep ==
  ASSUME RequestTypeOK, [NextCall]_allVars
  PROVE  [Next]_vars
  <1> USE DEF vars
  <1>1. ASSUME NEW c \in Calls, Handler(c) PROVE [Next]_vars
    <2>1. CASE CapPass(c) \/ CapRefuse(c)
      <3>1. frame[c].key \in Keys
        BY <2>1 DEF CapPass, CapRefuse, At, RequestTypeOK
      <3> QED BY <2>1, <3>1 DEF CapPass, CapRefuse, Next, CallStep
    <2>2. CASE Leave(c) \/ Respond(c)
      BY <2>2 DEF Leave, Respond, Next, CallStep
    <2>3. CASE RatePass(c) \/ RateRefuse(c) \/ Decide(c) \/ DecideList(c) \/ PassThrough(c)
      BY <2>3 DEF RatePass, RateRefuse, Decide, DecideList, PassThrough
    <2>4. CASE ScanArguments(c) \/ ScanArgumentsError(c) \/ QuotaRefuse(c) \/ Forward(c)
      BY <2>4 DEF ScanArguments, ScanArgumentsError, QuotaRefuse, Forward
    <2> QED BY <1>1, <2>1, <2>2, <2>3, <2>4 DEF Handler
  <1>2. ASSUME NEW c \in Calls, Upstream(c) \/ ListenExpires(c) \/ Sever(c) PROVE [Next]_vars
    BY <1>2 DEF Upstream, UpstreamReturns, UpstreamError, UpstreamClosed, ListenExpires, Sever
  <1>3. ASSUME NEW c \in Calls, NEW k \in Keys, NEW m \in Methods, Arrive(c, k, m)
        PROVE  [Next]_vars
    BY <1>3 DEF Arrive
  <1>4. CASE Environment
    BY <1>4 DEF Environment, Retire, Revoke, Next
  <1>5. CASE UNCHANGED allVars
    BY <1>5 DEF allVars
  <1> QED BY <1>1, <1>2, <1>3, <1>4, <1>5 DEF NextCall
-----------------------------------------------------------------------------
(* The middlewares *)

(* The request goes on with nothing on record. *)
LEMMA MovesOn ==
  ASSUME IInv, TypeOK', NEW c \in Calls, frame[c].pc \in {"rate", "cap", "rbac"},
         NEW to \in {"cap", "rbac", "listening"},
         to = "listening" => frame[c].method # "tools/call",
         frame' = [frame EXCEPT ![c] = [frame[c] EXCEPT !.pc = to]], UNCHANGED Session
  PROVE  IInv'
  <1> DEFINE new == [frame[c] EXCEPT !.pc = to]
  <1>1. /\ frame[c] \in RequestState /\ frame[c].key \in Keys
        /\ Blank(frame[c]) /\ (frame[c].late => frame[c].key \in revoked)
    BY KnowCall DEF Keyed, Good
  <1>2. /\ new \in RequestState /\ new.pc = to /\ new.key = frame[c].key
        /\ new.late = frame[c].late /\ new.method = frame[c].method /\ Blank(new)
    BY <1>1 DEF RequestState, Blank
  <1>3. frame' = [frame EXCEPT ![c] = new]
    OBVIOUS
  <1> HIDE DEF new
  <1>4. Keyed(new) /\ Good(new, interceptor, revoked)
    BY <1>1, <1>2 DEF Keyed, Good
  <1> QED BY <1>2, <1>3, <1>4, FrameStep DEF Session, IInv, RequestTypeOK

(* rateLimitedError, concurrencyLimitedError: no decision was taken. *)
LEMMA Throttles ==
  ASSUME IInv, TypeOK', NEW c \in Calls, frame[c].pc \in {"rate", "cap"},
         frame' = [frame EXCEPT ![c] = Answer([frame[c] EXCEPT !.throttled = TRUE])],
         UNCHANGED Session
  PROVE  IInv'
  <1> DEFINE f == [frame[c] EXCEPT !.throttled = TRUE]
  <1>1. /\ frame[c] \in RequestState /\ frame[c].key \in Keys
        /\ Blank(frame[c]) /\ (frame[c].late => frame[c].key \in revoked)
    BY KnowCall DEF Keyed, Good
  <1>2. /\ f \in RequestState /\ f.pc = frame[c].pc /\ f.key = frame[c].key
        /\ f.late = frame[c].late /\ f.throttled /\ ~f.forwarded /\ ~f.counted /\ ~f.scanFailed
        /\ f.decisions = {} /\ f.findings = {} /\ f.trips = {} /\ f.out = {}
    BY <1>1 DEF RequestState, Blank
  <1>3. frame' = [frame EXCEPT ![c] = Answer(f)]
    OBVIOUS
  <1> HIDE DEF f
  <1>4. Answered(f, interceptor)
    BY <1>2 DEF Answered, Cleared, Truthful, Withheld, RequestState
  <1>5. /\ Answer(f) \in RequestState /\ Keyed(Answer(f))
        /\ Good(Answer(f), interceptor, revoked)
    BY <1>1, <1>2, <1>4, AnswerShape DEF Keyed
  <1> QED BY <1>3, <1>5, FrameStep DEF Session, IInv, RequestTypeOK

(* Both limiters, passing or refusing. *)
LEMMA LimitersStep ==
  ASSUME IInv, TypeOK', NEW c \in Calls,
         RatePass(c) \/ RateRefuse(c) \/ CapPass(c) \/ CapRefuse(c)
  PROVE  IInv'
  <1>0. frame \in [Calls -> RequestState]
    BY DEF IInv, RequestTypeOK
  <1>1. CASE RatePass(c)
    <2>1. PICK to \in {"cap", "rbac"} :
             to = IF frame[c].method = "tools/call" THEN "cap" ELSE "rbac"
      OBVIOUS
    <2>2. frame' = [frame EXCEPT ![c] = [frame[c] EXCEPT !.pc = to]]
      BY <1>0, <1>1, <2>1 DEF RatePass
    <2> QED BY <1>1, <2>1, <2>2, MovesOn DEF RatePass, At
  <1>2. CASE CapPass(c)
    <2>1. frame' = [frame EXCEPT ![c] = [frame[c] EXCEPT !.pc = "rbac"]]
      BY <1>0, <1>2 DEF CapPass
    <2> QED BY <1>2, <2>1, MovesOn DEF CapPass, At
  <1>3. CASE RateRefuse(c) \/ CapRefuse(c)
    <2>1. frame' = [frame EXCEPT ![c] = Answer([frame[c] EXCEPT !.throttled = TRUE])]
      BY <1>0, <1>3 DEF RateRefuse, CapRefuse
    <2> QED BY <1>3, <2>1, Throttles DEF RateRefuse, CapRefuse, At
  <1> QED BY <1>1, <1>2, <1>3

(* keyRevoked never says "live" of a key that was revoked on arrival. *)
LEMMA RevokedIsSeen ==
  ASSUME IInv, NEW c \in Calls, NEW answer \in KeyAnswers(c), Learn(c, answer)
  PROVE  /\ frame[c].late => answer # "live"
         /\ known' \in SUBSET revoked
  <1>1. /\ revoked \in SUBSET keySessions /\ known \in SUBSET revoked
        /\ frame[c].late => frame[c].key \in revoked
    BY KnowCall DEF IInv, RequestTypeOK, Good
  <1>2. frame[c].late => answer # "live"
    BY <1>1 DEF KeyAnswers
  <1>3. answer = "revoked" => frame[c].key \in revoked
    BY <1>1 DEF KeyAnswers
  <1> QED BY <1>1, <1>2, <1>3 DEF Learn

(* Deny: the refusal is on record and nothing was done. *)
LEMMA DenyGood ==
  ASSUME NEW f \in RequestState, NEW on, NEW gone, Keyed(f), f.pc \notin {"idle", "leaving"},
         f.late => f.key \in gone, Blank(f)
  PROVE  Deny(f) \in RequestState /\ Keyed(Deny(f)) /\ Good(Deny(f), on, gone)
  <1> DEFINE g == [f EXCEPT !.decisions = @ \cup {"deny"}]
  <1>1. /\ g \in RequestState /\ g.pc = f.pc /\ g.key = f.key /\ g.late = f.late
        /\ g.decisions = {"deny"} /\ g.findings = {} /\ g.trips = {} /\ g.out = {}
        /\ ~g.throttled /\ ~g.forwarded /\ ~g.counted /\ ~g.scanFailed
    BY DEF RequestState, Blank
  <1> HIDE DEF g
  <1>2. Answered(g, on)
    BY <1>1 DEF Answered, Cleared, Truthful, Withheld, RequestState
  <1>3. Answer(g) \in RequestState /\ Keyed(Answer(g)) /\ Good(Answer(g), on, gone)
    BY <1>1, <1>2, AnswerShape DEF Keyed
  <1> QED BY <1>3 DEF Deny, g

(* rbacToolsCall records one decision and lets only an entitled call on. *)
LEMMA DecideStep ==
  ASSUME IInv, TypeOK', NEW c \in Calls, Decide(c)
  PROVE  IInv'
  <1>1. /\ frame[c] \in RequestState /\ frame[c].key \in Keys /\ frame[c].pc = "rbac"
        /\ frame[c].method = "tools/call"
        /\ Blank(frame[c]) /\ (frame[c].late => frame[c].key \in revoked)
    BY KnowCall DEF Decide, At, Keyed, Good
  <1>2. PICK answer \in KeyAnswers(c), t \in Tools :
           /\ Learn(c, answer)
           /\ frame' = [frame EXCEPT ![c] =
                 IF answer # "live" \/ t \notin Entitled
                 THEN Deny([frame[c] EXCEPT !.tool = t])
                 ELSE [frame[c] EXCEPT !.pc = "args", !.tool = t,
                                       !.decisions = frame[c].decisions \cup {"allow"}]]
    BY Zenon DEF Decide
  <1>3. /\ known' \in SUBSET revoked /\ (frame[c].late => answer # "live")
        /\ UNCHANGED <<interceptor, keySessions, revoked>> /\ dirty' \in [Keys -> BOOLEAN]
    BY <1>2, RevokedIsSeen DEF Decide, IInv, RequestTypeOK
  <1>4. CASE answer # "live" \/ t \notin Entitled
    <2> DEFINE f == [frame[c] EXCEPT !.tool = t]
    <2>1. /\ f \in RequestState /\ f.pc = "rbac" /\ f.key = frame[c].key
          /\ f.late = frame[c].late /\ Blank(f)
      BY <1>1 DEF RequestState, Blank
    <2>2. frame' = [frame EXCEPT ![c] = Deny(f)]
      BY <1>2, <1>4
    <2> HIDE DEF f
    <2>3. Deny(f) \in RequestState /\ Keyed(Deny(f)) /\ Good(Deny(f), interceptor, revoked)
      BY <1>1, <2>1, DenyGood DEF Keyed
    <2> QED BY <1>3, <2>2, <2>3, FrameStep
  <1>5. CASE answer = "live" /\ t \in Entitled
    <2> DEFINE f == [frame[c] EXCEPT !.pc = "args", !.tool = t,
                                     !.decisions = frame[c].decisions \cup {"allow"}]
    <2>1. /\ f \in RequestState /\ f.pc = "args" /\ f.key = frame[c].key
          /\ f.late = frame[c].late /\ f.method = "tools/call" /\ f.tool = t
          /\ f.decisions = {"allow"} /\ f.findings = {} /\ f.trips = {} /\ f.out = {}
          /\ ~f.throttled /\ ~f.scanFailed /\ ~f.counted /\ ~f.forwarded
      BY <1>1 DEF RequestState, Blank
    <2>2. frame' = [frame EXCEPT ![c] = f]
      BY <1>2, <1>5
    <2> HIDE DEF f
    <2>3. Keyed(f) /\ Good(f, interceptor, revoked)
      BY <1>1, <1>3, <1>5, <2>1 DEF Keyed, Good, Allowed
    <2> QED BY <1>3, <2>1, <2>2, <2>3, FrameStep
  <1> QED BY <1>4, <1>5

(* tools/list is filtered and answered, never forwarded. *)
LEMMA DecideListStep ==
  ASSUME IInv, TypeOK', NEW c \in Calls, DecideList(c)
  PROVE  IInv'
  <1>1. /\ frame[c] \in RequestState /\ frame[c].key \in Keys /\ frame[c].pc = "rbac"
        /\ frame[c].method = "tools/list" /\ Keyed(frame[c])
        /\ Blank(frame[c]) /\ (frame[c].late => frame[c].key \in revoked)
    BY KnowCall DEF DecideList, At, Keyed, Good
  <1>2. PICK answer \in KeyAnswers(c) :
           /\ Learn(c, answer)
           /\ frame' = [frame EXCEPT ![c] =
                 IF answer # "live" THEN Deny(frame[c])
                 ELSE Answer([frame[c] EXCEPT !.forwarded = TRUE])]
    BY DEF DecideList, IInv, RequestTypeOK
  <1>3. /\ known' \in SUBSET revoked /\ (frame[c].late => answer # "live")
        /\ UNCHANGED <<interceptor, keySessions, revoked>> /\ dirty' \in [Keys -> BOOLEAN]
    BY <1>2, RevokedIsSeen DEF DecideList, IInv, RequestTypeOK
  <1>4. CASE answer # "live"
    <2>1. /\ Deny(frame[c]) \in RequestState /\ Keyed(Deny(frame[c]))
          /\ Good(Deny(frame[c]), interceptor, revoked)
      BY <1>1, DenyGood
    <2> QED BY <1>2, <1>3, <1>4, <2>1, FrameStep
  <1>5. CASE answer = "live"
    <2> DEFINE f == [frame[c] EXCEPT !.forwarded = TRUE]
    <2>1. /\ f \in RequestState /\ f.pc = "rbac" /\ f.key = frame[c].key
          /\ f.late = frame[c].late /\ f.method = "tools/list"
          /\ f.trips = {} /\ f.out = {} /\ ~f.scanFailed
      BY <1>1 DEF RequestState, Blank
    <2>2. frame' = [frame EXCEPT ![c] = Answer(f)]
      BY <1>2, <1>5
    <2> HIDE DEF f
    <2>3. Answered(f, interceptor)
      BY <1>3, <1>5, <2>1 DEF Answered, Cleared, Truthful, Withheld
    <2>4. Answer(f) \in RequestState /\ Keyed(Answer(f)) /\ Good(Answer(f), interceptor, revoked)
      BY <1>1, <2>1, <2>3, AnswerShape DEF Keyed
    <2> QED BY <1>3, <2>2, <2>4, FrameStep
  <1> QED BY <1>4, <1>5

(* A handler that returns a request as it stands, with Answered true of it. *)
LEMMA AnswersStep ==
  ASSUME IInv, TypeOK', NEW c \in Calls, frame[c].pc \notin {"idle", "leaving"},
         Answered(frame[c], interceptor),
         frame' = [frame EXCEPT ![c] = Answer(frame[c])],
         UNCHANGED <<interceptor, keySessions, revoked, known>>, dirty' \in [Keys -> BOOLEAN]
  PROVE  IInv'
  <1>1. /\ frame[c] \in RequestState /\ Keyed(frame[c])
        /\ frame[c].late => frame[c].key \in revoked
    BY KnowCall DEF Good
  <1>2. /\ Answer(frame[c]) \in RequestState /\ Keyed(Answer(frame[c]))
        /\ Good(Answer(frame[c]), interceptor, revoked)
    BY <1>1, AnswerShape
  <1>3. known' \in SUBSET revoked
    BY DEF IInv, RequestTypeOK
  <1> QED BY <1>2, <1>3, FrameStep

(* A request of another kind than tools/call with nothing on record. *)
LEMMA BlankAnswered ==
  ASSUME NEW f \in RequestState, NEW on, Blank(f), f.method # "tools/call"
  PROVE  Answered(f, on)
  BY DEF Blank, Answered, Cleared, Truthful, Withheld, HasBlocking

(* Methods without a decision of their own. *)
LEMMA PassThroughStep ==
  ASSUME IInv, TypeOK', NEW c \in Calls, PassThrough(c)
  PROVE  IInv'
  <1>1. /\ frame[c] \in RequestState /\ frame[c].pc = "rbac" /\ Blank(frame[c])
        /\ frame[c].method \in {"initialize", "subscriptions/listen"}
        /\ UNCHANGED Session
    BY KnowCall DEF PassThrough, At, Good
  <1>2. CASE frame[c].method = "initialize"
    <2>1. frame' = [frame EXCEPT ![c] = Answer(frame[c])]
      BY <1>2 DEF PassThrough, IInv, RequestTypeOK
    <2>2. Answered(frame[c], interceptor)
      BY <1>1, BlankAnswered
    <2> QED BY <1>1, <2>1, <2>2, AnswersStep DEF Session, IInv, RequestTypeOK
  <1>3. CASE frame[c].method # "initialize"
    <2>1. frame' = [frame EXCEPT ![c] = [frame[c] EXCEPT !.pc = "listening"]]
      BY <1>3 DEF PassThrough, IInv, RequestTypeOK
    <2> QED BY <1>1, <2>1, MovesOn
  <1> QED BY <1>2, <1>3

(* Only subscriptions/listen holds on. *)
LEMMA ListenStep ==
  ASSUME IInv, TypeOK', NEW c \in Calls, ListenExpires(c)
  PROVE  IInv'
  <1>1. /\ frame[c] \in RequestState /\ frame[c].pc = "listening" /\ Blank(frame[c])
        /\ frame' = [frame EXCEPT ![c] = Answer(frame[c])] /\ UNCHANGED Session
    BY KnowCall DEF ListenExpires, At, Good, IInv, RequestTypeOK
  <1>2. frame[c].method # "tools/call"
    BY <1>1, KnowCall DEF Good
  <1>3. Answered(frame[c], interceptor)
    BY <1>1, <1>2, BlankAnswered
  <1> QED BY <1>1, <1>3, AnswersStep DEF Session, IInv, RequestTypeOK

-----------------------------------------------------------------------------
(* Interception and forwarding *)

(* A scan reports the rules its payload trips. *)
LEMMA PayloadsType == \A a \in Payloads : a \in SUBSET Rules /\ ScanCall(a) = a
  BY DEF Payloads, ScanCall

(* Nothing is paired with an empty set. *)
LEMMA NoProduct == \A S : S \X {} = {}
  OBVIOUS

(* What the call is before the upstream has answered is a truthful record   *)
(* of a call that ends now.                                                 *)
LEMMA AllowedAnswered ==
  ASSUME NEW f \in RequestState, NEW on, Allowed(f), Scanned(f, on), f.counted = f.forwarded
  PROVE  Answered(f, on)
  <1>1. Cleared(f, on)
    BY DEF Allowed, Scanned, Cleared
  <1>2. Truthful(f, on)
    BY NoProduct DEF Allowed, Scanned, Truthful
  <1>3. Withheld(f, on)
    BY DEF Allowed, Withheld
  <1> QED BY <1>1, <1>2, <1>3 DEF Answered

(* The argument scan records its findings, and a blocking one ends the      *)
(* call.                                                                    *)
LEMMA ScanArgumentsStep ==
  ASSUME IInv, TypeOK', NEW c \in Calls, ScanArguments(c)
  PROVE  IInv'
  <1>1. /\ frame[c] \in RequestState /\ frame[c].pc = "args" /\ frame[c].key \in Keys
        /\ Allowed(frame[c]) /\ frame[c].findings = {}
        /\ ~frame[c].counted /\ ~frame[c].forwarded
        /\ UNCHANGED Session /\ UNCHANGED <<interceptor, keySessions, revoked, dirty, known>>
        /\ dirty \in [Keys -> BOOLEAN] /\ known \in SUBSET revoked
    BY KnowCall DEF ScanArguments, At, Good, Keyed, Session, IInv, RequestTypeOK
  <1>2. PICK a \in Payloads : frame' = [frame EXCEPT ![c] =
          IF ~interceptor THEN [frame[c] EXCEPT !.pc = "quota", !.args = a]
          ELSE LET f == Audited([frame[c] EXCEPT !.args = a], "arguments", ScanCall(a)) IN
               IF HasBlocking(ScanCall(a)) THEN Answer(f) ELSE [f EXCEPT !.pc = "quota"]]
    BY Zenon DEF ScanArguments
  <1>3. a \in SUBSET Rules /\ ScanCall(a) = a
    BY PayloadsType
  <1>4. CASE ~interceptor
    <2> DEFINE new == [frame[c] EXCEPT !.pc = "quota", !.args = a]
    <2>1. /\ new \in RequestState /\ new.pc = "quota" /\ new.key = frame[c].key
          /\ Allowed(new) /\ ~new.counted /\ ~new.forwarded
      BY <1>1, <1>3 DEF RequestState, Allowed
    <2>2. frame' = [frame EXCEPT ![c] = new]
      BY <1>2, <1>4
    <2> HIDE DEF new
    <2>3. Keyed(new) /\ Good(new, interceptor, revoked)
      BY <1>1, <1>4, <2>1 DEF Keyed, Good, Allowed, Scanned
    <2> QED BY <1>1, <2>1, <2>2, <2>3, FrameStep
  <1>5. CASE interceptor
    <2> DEFINE f == Audited([frame[c] EXCEPT !.args = a], "arguments", a)
    <2>1. /\ f \in RequestState /\ f.pc = "args" /\ f.key = frame[c].key /\ f.args = a
          /\ f.findings = {"arguments"} \X a
          /\ Allowed(f) /\ ~f.counted /\ ~f.forwarded
      <3>1. {"arguments"} \X a \in SUBSET ({"arguments", "result"} \X Rules)
        BY <1>3
      <3>2. {} \cup ({"arguments"} \X a) = {"arguments"} \X a
        OBVIOUS
      <3> DEFINE prod == {"arguments"} \X a
      <3> HIDE DEF prod
      <3>3. f = [[frame[c] EXCEPT !.args = a] EXCEPT !.findings = prod]
        BY <1>1, <3>2 DEF Audited, prod, RequestState
      <3>4. prod \in SUBSET ({"arguments", "result"} \X Rules)
        BY <3>1 DEF prod
      <3> HIDE DEF f
      <3>5. /\ f \in RequestState /\ f.pc = "args" /\ f.key = frame[c].key /\ f.args = a
            /\ f.findings = prod
            /\ Allowed(f) /\ ~f.counted /\ ~f.forwarded
        BY <1>1, <1>3, <3>3, <3>4 DEF RequestState, Allowed
      <3> QED BY <3>5 DEF prod
    <2>2. CASE HasBlocking(a)
      <3>1. frame' = [frame EXCEPT ![c] = Answer(f)]
        BY <1>2, <1>3, <1>5, <2>2, Zenon
      <3> HIDE DEF f
      <3>2. Answered(f, interceptor)
        <4>1. Cleared(f, interceptor) /\ Withheld(f, interceptor)
          BY <2>1 DEF Cleared, Withheld, Allowed, HasBlocking, RequestState
        <4>2. Truthful(f, interceptor)
          BY <2>1, NoProduct DEF Truthful, Allowed
        <4> QED BY <4>1, <4>2 DEF Answered
      <3>3. /\ Answer(f) \in RequestState /\ Keyed(Answer(f))
            /\ Good(Answer(f), interceptor, revoked)
        BY <1>1, <2>1, <3>2, AnswerShape DEF Keyed, Allowed
      <3> QED BY <1>1, <3>1, <3>3, FrameStep
    <2>3. CASE ~HasBlocking(a)
      <3> DEFINE new == [f EXCEPT !.pc = "quota"]
      <3>1. frame' = [frame EXCEPT ![c] = new]
        BY <1>2, <1>3, <1>5, <2>3, Zenon
      <3> HIDE DEF f
      <3>2. /\ new \in RequestState /\ new.pc = "quota" /\ new.key = frame[c].key
            /\ Allowed(new) /\ ~new.counted /\ ~new.forwarded
            /\ new.args = a /\ new.findings = f.findings
        BY <2>1 DEF RequestState, Allowed
      <3> HIDE DEF new
      <3>3. Keyed(new) /\ Good(new, interceptor, revoked)
        BY <1>1, <2>1, <2>3, <3>2 DEF Keyed, Good, Allowed, Scanned
      <3> QED BY <1>1, <3>1, <3>2, <3>3, FrameStep
    <2> QED BY <2>2, <2>3
  <1> QED BY <1>4, <1>5 DEF IInv, RequestTypeOK

(* An argument scan that fails denies the call. *)
LEMMA ScanErrorStep ==
  ASSUME IInv, TypeOK', NEW c \in Calls, ScanArgumentsError(c)
  PROVE  IInv'
  <1> DEFINE f == [frame[c] EXCEPT !.scanFailed = TRUE]
  <1>1. /\ frame[c] \in RequestState /\ frame[c].pc = "args" /\ frame[c].key \in Keys
        /\ Allowed(frame[c]) /\ ~frame[c].counted /\ ~frame[c].forwarded
        /\ UNCHANGED <<interceptor, keySessions, revoked, dirty, known>>
        /\ dirty \in [Keys -> BOOLEAN] /\ known \in SUBSET revoked
        /\ frame' = [frame EXCEPT ![c] = Answer(f)]
    BY KnowCall DEF ScanArgumentsError, At, Good, Keyed, Session, IInv, RequestTypeOK
  <1>2. /\ f \in RequestState /\ f.pc = "args" /\ f.key = frame[c].key /\ ~f.late
        /\ f.scanFailed /\ f.decisions = {"allow"} /\ ~f.throttled /\ f.out = {}
        /\ ~f.counted /\ ~f.forwarded
    BY <1>1 DEF RequestState, Allowed
  <1> HIDE DEF f
  <1>3. Answered(f, interceptor)
    BY <1>2 DEF Answered, Cleared, Truthful, Withheld, RequestState
  <1>4. Answer(f) \in RequestState /\ Keyed(Answer(f)) /\ Good(Answer(f), interceptor, revoked)
    BY <1>1, <1>2, <1>3, AnswerShape DEF Keyed
  <1> QED BY <1>1, <1>4, FrameStep

(* The call is counted and sent. *)
LEMMA ForwardStep ==
  ASSUME IInv, TypeOK', NEW c \in Calls, Forward(c)
  PROVE  IInv'
  <1> DEFINE new == [frame[c] EXCEPT !.pc = "upstream", !.counted = TRUE, !.forwarded = TRUE]
  <1>1. /\ frame[c] \in RequestState /\ frame[c].pc = "quota" /\ frame[c].key \in Keys
        /\ Allowed(frame[c]) /\ Scanned(frame[c], interceptor)
        /\ UNCHANGED <<interceptor, keySessions, revoked, dirty, known>>
        /\ dirty \in [Keys -> BOOLEAN] /\ known \in SUBSET revoked
        /\ frame' = [frame EXCEPT ![c] = new]
    BY KnowCall DEF Forward, At, Good, Keyed, Session, IInv, RequestTypeOK
  <1>2. /\ new \in RequestState /\ new.pc = "upstream" /\ new.key = frame[c].key
        /\ Allowed(new) /\ new.args = frame[c].args /\ new.findings = frame[c].findings
        /\ new.counted /\ new.forwarded
    BY <1>1 DEF RequestState, Allowed
  <1> HIDE DEF new
  <1>3. Keyed(new) /\ Good(new, interceptor, revoked)
    BY <1>1, <1>2 DEF Keyed, Good, Allowed, Scanned
  <1> QED BY <1>1, <1>2, <1>3, FrameStep

(* The quota refuses, or the upstream fails, after the scan of the          *)
(* arguments and before a result: nothing is added to the record.           *)
LEMMA EndsEarlyStep ==
  ASSUME IInv, TypeOK', NEW c \in Calls, QuotaRefuse(c) \/ UpstreamError(c) \/ UpstreamClosed(c)
  PROVE  IInv'
  <1>1. /\ frame[c] \in RequestState /\ frame[c].pc \in {"quota", "upstream"}
        /\ frame[c].key \in Keys
        /\ Allowed(frame[c]) /\ Scanned(frame[c], interceptor)
        /\ frame[c].counted <=> frame[c].forwarded
    BY KnowCall DEF QuotaRefuse, UpstreamError, UpstreamClosed, At, Good, Keyed
  <1>2. /\ UNCHANGED <<interceptor, keySessions, revoked, known>>
        /\ frame' = [frame EXCEPT ![c] = Answer(frame[c])]
    BY DEF QuotaRefuse, UpstreamError, UpstreamClosed, Session, IInv, RequestTypeOK
  <1>3. dirty' \in [Keys -> BOOLEAN]
    <2>1. dirty \in [Keys -> BOOLEAN]
      BY DEF IInv, RequestTypeOK
    <2>2. CASE QuotaRefuse(c) \/ UpstreamError(c)
      BY <2>1, <2>2 DEF QuotaRefuse, UpstreamError, Session
    <2>3. CASE UpstreamClosed(c)
      <3>1. (dirty[frame[c].key] \/ frame[c].conn = "open") \in BOOLEAN
        OBVIOUS
      <3> QED BY <2>1, <2>3, <3>1, Zenon DEF UpstreamClosed
    <2> QED BY <2>2, <2>3
  <1>4. Answered(frame[c], interceptor)
    <2>1. frame[c].counted = frame[c].forwarded
      BY <1>1 DEF RequestState
    <2> QED BY <1>1, <2>1, AllowedAnswered
  <1> QED BY <1>1, <1>2, <1>3, <1>4, AnswersStep

(* withholdResult leaves nothing of the upstream's in any part. *)
LEMMA WithheldIsNothing == \A r : Marshalled(withholdResult(r)) = {}
  BY DEF Marshalled, withholdResult

(* A result's text is made of its parts. *)
LEMMA MarshalledType == \A r \in Results : Marshalled(r) \in SUBSET (Rules \cup {"plain"})
  <1> SUFFICES ASSUME NEW r \in Results, NEW p \in Parts PROVE r[p] \in SUBSET (Rules \cup {"plain"})
    BY DEF Marshalled
  <1>1. PICK q \in Parts, t \in Payloads :
           r = [x \in Parts |-> IF x = q THEN {"plain"} \cup t ELSE {"plain"}]
    BY DEF Results
  <1>2. t \in SUBSET Rules
    BY PayloadsType
  <1> QED BY <1>1, <1>2

(* The upstream answers: the result is scanned, and withheld as a whole if  *)
(* a rule blocks it.                                                        *)
LEMMA UpstreamReturnsStep ==
  ASSUME IInv, TypeOK', NEW c \in Calls, UpstreamReturns(c)
  PROVE  IInv'
  <1>1. /\ frame[c] \in RequestState /\ frame[c].pc = "upstream" /\ frame[c].key \in Keys
        /\ Allowed(frame[c]) /\ Scanned(frame[c], interceptor)
        /\ frame[c].counted /\ frame[c].forwarded
        /\ UNCHANGED <<interceptor, keySessions, revoked, dirty, known>>
        /\ dirty \in [Keys -> BOOLEAN] /\ known \in SUBSET revoked
        /\ interceptor \in BOOLEAN
    BY KnowCall DEF UpstreamReturns, At, Good, Keyed, Session, IInv, RequestTypeOK
  <1>a. PICK r \in Results : \E f \in InterceptResult(frame[c], r) :
           frame' = [frame EXCEPT ![c] = Answer([f EXCEPT !.trips = Marshalled(r) \cap Rules])]
    BY DEF UpstreamReturns
  <1>2. PICK f \in InterceptResult(frame[c], r) :
           frame' = [frame EXCEPT ![c] = Answer([f EXCEPT !.trips = Marshalled(r) \cap Rules])]
    BY <1>a
  <1>3. PICK all, tr : all = Marshalled(r) /\ tr = all \cap Rules
    OBVIOUS
  <1>4. all \in SUBSET (Rules \cup {"plain"}) /\ tr \in SUBSET Rules /\ ScanCall(all) = tr
    BY <1>3, MarshalledType DEF ScanCall
  <1> DEFINE g == [f EXCEPT !.trips = tr]
  (* What interceptResult leaves alone, and what it adds. *)
  <1>5. /\ f \in RequestState /\ f.pc = "upstream" /\ f.key = frame[c].key
        /\ f.method = "tools/call" /\ ~f.late /\ f.tool \in Entitled /\ f.decisions = {"allow"}
        /\ ~f.throttled /\ f.counted /\ f.forwarded /\ f.args = frame[c].args
        /\ interceptor =>
              \/ f.scanFailed /\ f.out = {}
              \/ /\ f.findings = ({"arguments"} \X frame[c].args) \cup ({"result"} \X tr)
                 /\ HasBlocking(tr) => f.out = {}
                 /\ ~f.scanFailed
    <2>1. CASE ~interceptor
      <3>1. f = [frame[c] EXCEPT !.out = all]
        BY <1>2, <1>3, <2>1 DEF InterceptResult
      <3> QED BY <1>1, <1>4, <2>1, <3>1 DEF RequestState, Allowed
    <2>2. CASE interceptor
      <3>1. PICK found : found = frame[c].findings \cup ({"result"} \X tr)
        OBVIOUS
      <3>2. PICK out : out = IF HasBlocking(tr) THEN {} ELSE all
        OBVIOUS
      <3>3. /\ found \in SUBSET ({"arguments", "result"} \X Rules)
            /\ found = ({"arguments"} \X frame[c].args) \cup ({"result"} \X tr)
            /\ out \in SUBSET (Rules \cup {"plain"}) /\ (HasBlocking(tr) => out = {})
        BY <1>1, <1>4, <2>2, <3>1, <3>2 DEF Scanned, RequestState
      <3>4. \/ f = [[frame[c] EXCEPT !.findings = found] EXCEPT !.out = out]
            \/ f = [frame[c] EXCEPT !.scanFailed = TRUE, !.out = {}]
        <4>1. Marshalled(IF HasBlocking(tr) THEN withholdResult(r) ELSE r) = out
          BY <1>3, <3>2, WithheldIsNothing
        <4>2. Audited(frame[c], "result", tr) = [frame[c] EXCEPT !.findings = found]
          BY <3>1 DEF Audited
        <4>3. \/ f = [Audited(frame[c], "result", tr) EXCEPT
                       !.out = Marshalled(IF HasBlocking(tr) THEN withholdResult(r) ELSE r)]
              \/ f = [frame[c] EXCEPT !.scanFailed = TRUE, !.out = Marshalled(withholdResult(r))]
          BY <1>2, <1>3, <1>4, <2>2, Zenon DEF InterceptResult
        <4> QED BY <4>1, <4>2, <4>3, WithheldIsNothing, Zenon
      <3>5. CASE f = [[frame[c] EXCEPT !.findings = found] EXCEPT !.out = out]
        <4>1. /\ f \in RequestState /\ f.findings = found /\ f.out = out /\ ~f.scanFailed
              /\ f.pc = "upstream" /\ f.key = frame[c].key /\ f.args = frame[c].args
              /\ f.method = "tools/call" /\ ~f.late /\ f.tool \in Entitled
              /\ f.decisions = {"allow"} /\ ~f.throttled /\ f.counted /\ f.forwarded
          BY <1>1, <3>3, <3>5 DEF RequestState, Allowed
        <4> QED BY <3>3, <4>1
      <3>6. CASE f = [frame[c] EXCEPT !.scanFailed = TRUE, !.out = {}]
        BY <1>1, <3>6 DEF RequestState, Allowed
      <3> QED BY <3>4, <3>5, <3>6
    <2> QED BY <2>1, <2>2
  <1>6. /\ g \in RequestState /\ g.pc = "upstream" /\ g.key = f.key /\ g.late = f.late
        /\ g.method = f.method /\ g.tool = f.tool /\ g.decisions = f.decisions
        /\ g.throttled = f.throttled /\ g.counted = f.counted /\ g.forwarded = f.forwarded
        /\ g.args = f.args /\ g.findings = f.findings /\ g.scanFailed = f.scanFailed
        /\ g.out = f.out /\ g.trips = tr
    BY <1>4, <1>5 DEF RequestState
  <1>7. frame' = [frame EXCEPT ![c] = Answer(g)]
    BY <1>2, <1>3
  <1> HIDE DEF g
  <1>8. Answered(g, interceptor)
    <2>1. Cleared(g, interceptor)
      BY <1>1, <1>5, <1>6 DEF Cleared, Scanned, RequestState
    <2>2. Truthful(g, interceptor)
      BY <1>5, <1>6 DEF Truthful
    <2>3. Withheld(g, interceptor)
      BY <1>5, <1>6 DEF Withheld
    <2> QED BY <2>1, <2>2, <2>3 DEF Answered
  <1>9. Answer(g) \in RequestState /\ Keyed(Answer(g)) /\ Good(Answer(g), interceptor, revoked)
    BY <1>1, <1>5, <1>6, <1>8, AnswerShape DEF Keyed
  <1> QED BY <1>1, <1>7, <1>9, FrameStep

-----------------------------------------------------------------------------
(* The way out, and what happens around the requests *)

(* The slot is given back and the answer sent. *)
LEMMA LeaveStep ==
  ASSUME IInv, TypeOK', NEW c \in Calls, Leave(c) \/ Respond(c)
  PROVE  IInv'
  <1>1. /\ UNCHANGED <<interceptor, keySessions, revoked, dirty, known>>
        /\ dirty \in [Keys -> BOOLEAN] /\ known \in SUBSET revoked
    BY DEF Leave, Respond, Session, IInv, RequestTypeOK
  <1>2. CASE Respond(c)
    BY <1>1, <1>2, NoRequestGood, FrameStep DEF Respond
  <1>3. CASE Leave(c)
    <2> DEFINE new == [NoRequest EXCEPT !.pc = "leaving"]
    <2>1. new \in RequestState /\ Keyed(new) /\ Good(new, interceptor, revoked)
      BY DEF NoRequest, RequestState, Methods, Keyed, Good, Blank
    <2>2. frame' = [frame EXCEPT ![c] = new]
      BY <1>3 DEF Leave
    <2> HIDE DEF new
    <2> QED BY <1>1, <2>1, <2>2, FrameStep
  <1> QED BY <1>2, <1>3

(* What becomes of its connection is not on a request's record. *)
LEMMA ConnGood ==
  ASSUME NEW f \in RequestState, NEW v \in {"closing", "cut"}, NEW on, NEW gone,
         Keyed(f), Good(f, on, gone)
  PROVE  /\ [f EXCEPT !.conn = v] \in RequestState /\ Keyed([f EXCEPT !.conn = v])
         /\ Good([f EXCEPT !.conn = v], on, gone)
  <1> DEFINE g == [f EXCEPT !.conn = v]
  <1>1. /\ g \in RequestState /\ g.pc = f.pc /\ g.key = f.key /\ g.late = f.late
        /\ g.method = f.method /\ g.counted = f.counted /\ g.forwarded = f.forwarded
        /\ g.tool = f.tool /\ g.decisions = f.decisions /\ g.args = f.args
        /\ g.throttled = f.throttled /\ g.findings = f.findings
        /\ g.scanFailed = f.scanFailed /\ g.trips = f.trips /\ g.out = f.out
    BY DEF RequestState
  <1> HIDE DEF g
  <1>2. Answered(f, on) => Answered(g, on)
    BY <1>1 DEF Answered, Cleared, Truthful, Withheld
  <1>3. Keyed(g) /\ Good(g, on, gone)
    BY <1>1, <1>2 DEF Keyed, Good, Blank, Allowed, Scanned
  <1> QED BY <1>1, <1>3 DEF g

(* Closing its session changes nothing that a request has on record. *)
LEMMA SeveredGood ==
  ASSUME NEW f \in RequestState, NEW k, NEW on, NEW gone, Keyed(f), Good(f, on, gone)
  PROVE  Severed(f, k) \in RequestState /\ Keyed(Severed(f, k)) /\ Good(Severed(f, k), on, gone)
  <1>1. CASE Severed(f, k) = f
    BY <1>1
  <1>2. CASE Severed(f, k) # f
    <2>1. Severed(f, k) = [f EXCEPT !.conn = "closing"]
      BY <1>2 DEF Severed
    <2>2. /\ [f EXCEPT !.conn = "closing"] \in RequestState
          /\ Keyed([f EXCEPT !.conn = "closing"])
          /\ Good([f EXCEPT !.conn = "closing"], on, gone)
      BY ConnGood
    <2> QED BY <2>1, <2>2, Zenon
  <1> QED BY <1>1, <1>2

(* Every request is Good in the frames after the step. *)
LEMMA FramesStep ==
  ASSUME IInv, TypeOK', frame' = [d \in Calls |-> frame'[d]],
         \A d \in Calls : /\ frame'[d] \in RequestState /\ Keyed(frame'[d])
                          /\ Good(frame'[d], interceptor, revoked),
         UNCHANGED <<interceptor, keySessions, revoked, known>>,
         dirty' \in [Keys -> BOOLEAN]
  PROVE  IInv'
  <1>1. frame' \in [Calls -> RequestState]
    OBVIOUS
  <1>2. RequestTypeOK'
    BY <1>1 DEF IInv, RequestTypeOK, Keyed
  <1> QED BY <1>2 DEF IInv

(* A session is retired: calls that wait on its connections are severed. *)
LEMMA RetireStep ==
  ASSUME IInv, TypeOK', NEW k \in Keys, Retire(k)
  PROVE  IInv'
  <1>1. /\ UNCHANGED <<interceptor, keySessions, revoked, known>>
        /\ dirty' \in [Keys -> BOOLEAN]
        /\ frame' = [d \in Calls |-> Severed(frame[d], k)]
    BY DEF Retire, IInv, RequestTypeOK
  <1>2. \A d \in Calls : frame'[d] = Severed(frame[d], k)
    BY <1>1
  <1>3. \A d \in Calls : /\ frame'[d] \in RequestState /\ Keyed(frame'[d])
                         /\ Good(frame'[d], interceptor, revoked)
    BY <1>2, KnowCall, SeveredGood
  <1>4. frame' = [d \in Calls |-> frame'[d]]
    BY <1>1
  <1> QED BY <1>1, <1>3, <1>4, FramesStep

(* A close returns and a connection is cut. *)
LEMMA SeverStep ==
  ASSUME IInv, TypeOK', NEW c \in Calls, Sever(c)
  PROVE  IInv'
  <1>1. /\ frame' = [frame EXCEPT ![c] = [frame[c] EXCEPT !.conn = "cut"]]
        /\ UNCHANGED <<interceptor, keySessions, revoked, dirty, known>>
        /\ dirty \in [Keys -> BOOLEAN] /\ known \in SUBSET revoked
    BY DEF Sever, Session, IInv, RequestTypeOK
  <1>2. /\ [frame[c] EXCEPT !.conn = "cut"] \in RequestState
        /\ Keyed([frame[c] EXCEPT !.conn = "cut"])
        /\ Good([frame[c] EXCEPT !.conn = "cut"], interceptor, revoked)
    BY KnowCall, ConnGood
  <1> QED BY <1>1, <1>2, FrameStep

(* A request arrives. *)
LEMMA ArriveStep ==
  ASSUME IInv, TypeOK', NEW c \in Calls, NEW k \in Keys, NEW m \in Methods, Arrive(c, k, m)
  PROVE  IInv'
  <1>1. PICK p, l : /\ p = (IF m \in RateLimited THEN "rate" ELSE "rbac")
                    /\ l = (k \in revoked)
    OBVIOUS
  <1> DEFINE new == [NoRequest EXCEPT !.pc = p, !.method = m, !.key = k, !.late = l]
             old == [d \in Calls |-> IF dirty[k] THEN Severed(frame[d], k) ELSE frame[d]]
  <1>2. /\ UNCHANGED <<interceptor, keySessions, revoked, known>>
        /\ dirty' \in [Keys -> BOOLEAN]
        /\ frame' = [old EXCEPT ![c] = new]
    BY <1>1 DEF Arrive, IInv, RequestTypeOK
  <1>3. new \in RequestState /\ Keyed(new) /\ Good(new, interceptor, revoked)
    <2>1. p \in {"rate", "rbac"} /\ l \in BOOLEAN
      BY <1>1
    <2>2. /\ new \in RequestState /\ new.pc = p /\ new.key = k /\ new.late = l
          /\ Blank(new)
      BY <2>1 DEF NoRequest, RequestState, Blank
    <2> HIDE DEF new
    <2> QED BY <1>1, <2>1, <2>2 DEF Keyed, Good
  <1>4. ASSUME NEW d \in Calls
        PROVE  /\ old[d] \in RequestState /\ Keyed(old[d]) /\ Good(old[d], interceptor, revoked)
    <2>1. old[d] = Severed(frame[d], k) \/ old[d] = frame[d]
      OBVIOUS
    <2> HIDE DEF old
    <2> QED BY <2>1, KnowCall, SeveredGood
  <1>5. /\ frame' = [d \in Calls |-> frame'[d]]
        /\ frame'[c] = new /\ \A d \in Calls \ {c} : frame'[d] = old[d]
    BY <1>2
  <1> HIDE DEF old, new
  <1>6. \A d \in Calls : /\ frame'[d] \in RequestState /\ Keyed(frame'[d])
                         /\ Good(frame'[d], interceptor, revoked)
    BY <1>3, <1>4, <1>5
  <1> QED BY <1>2, <1>5, <1>6, FramesStep

(* A key revoked in the store makes no request later than it was. *)
LEMMA RevokeStep ==
  ASSUME IInv, TypeOK', NEW k \in Keys, Revoke(k)
  PROVE  IInv'
  <1>1. /\ UNCHANGED <<frame, dirty, interceptor, keySessions, known>>
        /\ revoked' = revoked \cup {k} /\ k \in keySessions
    BY DEF Revoke
  <1>2. RequestTypeOK'
    BY <1>1 DEF IInv, RequestTypeOK
  <1>3. \A d \in Calls : Good(frame[d], interceptor, revoked')
    BY <1>1 DEF IInv, Good
  <1> QED BY <1>1, <1>2, <1>3 DEF IInv

(* Steps of the limiter alone leave the requests as they are. *)
LEMMA IdleStep ==
  ASSUME IInv, TypeOK', UNCHANGED requestVars
  PROVE  IInv'
  BY DEF IInv, RequestTypeOK, requestVars

-----------------------------------------------------------------------------

(* Nobody has called yet. *)
LEMMA InvInit == InitCall => IInv
  <1> SUFFICES ASSUME InitCall PROVE IInv
    OBVIOUS
  <1>1. TypeOK
    BY InitType DEF InitCall
  <1>2. \A c \in Calls : frame[c] = NoRequest
    BY DEF InitCall
  <1>3. RequestTypeOK
    BY <1>1, <1>2, NoRequestGood DEF InitCall, RequestTypeOK, Keyed
  <1> QED BY <1>2, <1>3, NoRequestGood DEF IInv

(* Every step of the pipeline keeps the invariant. *)
LEMMA InvStep == IInv /\ [NextCall]_allVars => IInv'
  <1> SUFFICES ASSUME IInv, [NextCall]_allVars PROVE IInv'
    OBVIOUS
  <1>1. TypeOK'
    BY LimiterStep, NextType DEF IInv, RequestTypeOK
  <1>2. ASSUME NEW c \in Calls, Handler(c) PROVE IInv'
    BY <1>1, <1>2, LimitersStep, DecideStep, DecideListStep, PassThroughStep, ScanArgumentsStep,
       ScanErrorStep, EndsEarlyStep, ForwardStep, LeaveStep DEF Handler
  <1>3. ASSUME NEW c \in Calls, Upstream(c) PROVE IInv'
    BY <1>1, <1>3, UpstreamReturnsStep, EndsEarlyStep DEF Upstream
  <1>4. ASSUME NEW c \in Calls, ListenExpires(c) PROVE IInv'
    BY <1>1, <1>4, ListenStep
  <1>7. ASSUME NEW c \in Calls, Sever(c) PROVE IInv'
    BY <1>1, <1>7, SeverStep
  <1>5. CASE Environment
    BY <1>1, <1>5, RetireStep, RevokeStep, IdleStep DEF Environment
  <1>6. CASE UNCHANGED allVars
    BY <1>1, <1>6, IdleStep DEF allVars, requestVars
  <1> QED BY <1>1, <1>2, <1>3, <1>4, <1>5, <1>6, <1>7, ArriveStep DEF NextCall

(* So it holds always. *)
LEMMA Invariance == CallSpec => []IInv
  BY InvInit, InvStep, PTL DEF CallSpec

(* The frames of the pipeline and of the limiter under it keep their types, *)
(* and the cache of revocations only holds keys that are revoked.           *)
THEOREM RequestTypeCorrect == CallSpec => []RequestTypeOK
  <1>1. IInv => RequestTypeOK
    BY DEF IInv
  <1> QED BY <1>1, Invariance, PTL

(* Nothing reaches an upstream that RBAC did not allow, that a scan would   *)
(* have blocked, that is not counted, or whose key was already revoked when *)
(* the request arrived (rbacToolsCall, interceptArguments, broker.go).      *)
THEOREM ForwardedIsCleared == CallSpec => []OnlyClearedForwarded
  <1>1. IInv => OnlyClearedForwarded
    <2> SUFFICES ASSUME IInv, NEW c \in Calls
                 PROVE  /\ Cleared(frame[c], interceptor)
                        /\ frame[c].forwarded /\ frame[c].pc = "upstream" => ~frame[c].scanFailed
      BY DEF OnlyClearedForwarded, Cleared
    <2>1. PICK f : f = frame[c]
      OBVIOUS
    <2>2. f \in RequestState /\ Good(f, interceptor, revoked)
      BY <2>1, KnowCall
    <2>3. /\ Cleared(f, interceptor)
          /\ f.forwarded /\ f.pc = "upstream" => ~f.scanFailed
      BY <2>2 DEF Good, Blank, Allowed, Scanned, Answered, Cleared, RequestState
    <2> QED BY <2>1, <2>3
  <1> QED BY <1>1, Invariance, PTL

(* A finished call has one decision on the audit trail, none if a limiter   *)
(* turned it away, and every finding of the scans that completed.           *)
THEOREM TrailIsTruthful == CallSpec => []TrailTruthful
  <1>1. IInv => TrailTruthful
    <2> SUFFICES ASSUME IInv, NEW c \in Calls, frame[c].pc = "answered",
                        frame[c].method = "tools/call"
                 PROVE  /\ frame[c].throttled => frame[c].decisions = {} /\ frame[c].findings = {}
                        /\ ~frame[c].throttled => Cardinality(frame[c].decisions) = 1
                        /\ "deny" \in frame[c].decisions => ~frame[c].forwarded
                        /\ (interceptor /\ frame[c].decisions = {"allow"} /\ ~frame[c].scanFailed) =>
                              frame[c].findings = ({"arguments"} \X frame[c].args)
                                                  \cup ({"result"} \X frame[c].trips)
      BY DEF TrailTruthful
    <2>1. Truthful(frame[c], interceptor)
      BY KnowCall DEF Good, Answered
    <2>2. Cardinality({"allow"}) = 1 /\ Cardinality({"deny"}) = 1
      BY FS_Singleton
    <2>3. ~frame[c].throttled => Cardinality(frame[c].decisions) = 1
      BY <2>1, <2>2, Zenon DEF Truthful
    <2> QED BY <2>1, <2>3 DEF Truthful
  <1> QED BY <1>1, Invariance, PTL

(* Interception withholds every part of a result that trips a blocking rule *)
(* anywhere, or that could not be scanned (interceptResult).                *)
THEOREM BlockedIsWithheld == CallSpec => []NothingBlockedDelivered
  <1>1. IInv => NothingBlockedDelivered
    BY KnowCall DEF NothingBlockedDelivered, Good, Answered, Withheld
  <1> QED BY <1>1, Invariance, PTL

(* The pipeline uses the limiter only as ConcurrencyLimiter describes: each *)
(* of its behaviours is one of the limiter's, whatever the requests do.     *)
THEOREM LimiterImplemented == CallSpec => Spec
  <1>1. InitCall => Init
    BY DEF InitCall
  <1>2. RequestTypeOK /\ [NextCall]_allVars => [Next]_vars
    BY LimiterStep
  <1> QED BY <1>1, <1>2, RequestTypeCorrect, PTL DEF CallSpec, Spec

(* So the cap holds in the pipeline too: no retirement, revocation, refusal *)
(* or failed scan leaks a slot or gives one away.                           *)
THEOREM PipelineKeepsCap == CallSpec => []CapHolds
  BY LimiterImplemented, CapIsNeverExceeded, PTL


-----------------------------------------------------------------------------
(* The rate limiter *)

Bucket == [present : BOOLEAN, tokens : 0 .. R!Burst, idleAge : R!Age]

(* One key: its bucket b, its ideal tokens i, whether it was a victim of    *)
(* the full map, and the time a since its last call. The idle age is that   *)
(* time (refusals are stamped too), and a bucket that was idle for a while  *)
(* holds what was refilled meanwhile: so sweeping it forgets a full one.    *)
BucketGood(b, i, victim, a) ==
    /\ b \in Bucket /\ i \in 0 .. R!Burst /\ a \in R!Age
    /\ b.present => b.idleAge = a
    /\ b.tokens >= R!Smaller(R!Burst, Rate * b.idleAge)
    /\ IdleTTL * Rate >= R!Burst /\ ~victim => (IF b.present THEN b.tokens ELSE R!Burst) = i

BucketInv ==
    /\ buckets \in [Principals -> Bucket] /\ ideal \in [Principals -> 0 .. R!Burst]
    /\ evicted \subseteq Principals /\ callAge \in [Principals -> R!Age]
    /\ \A k \in Principals : BucketGood(buckets[k], ideal[k], k \in evicted, callAge[k])

(* A bucket holds at least one token when it is full, also if the burst was *)
(* configured as none.                                                      *)
LEMMA BurstType == R!Burst \in Nat /\ R!Burst >= Unit
  <1>1. PICK n \in Nat : n >= 1 /\ R!Burst = n * Unit
    BY BucketAssumption DEF R!ParameterAssumption, R!Burst
  <1>2. PICK m \in Nat : n = m + 1
    BY <1>1
  <1>3. m * Unit \in Nat /\ n * Unit = m * Unit + Unit
    BY <1>2, BucketAssumption DEF R!ParameterAssumption
  <1> QED BY <1>1, <1>3, BucketAssumption DEF R!ParameterAssumption

(* What a span of time refills grows with it. *)
LEMMA RefillGrows ==
    /\ \A a \in Nat : Rate * a \in Nat /\ Rate * (a + 1) = Rate * a + Rate
    /\ \A a, b \in Nat : a <= b => Rate * a <= Rate * b
  <1> USE BucketAssumption DEF R!ParameterAssumption
  <1>1. \A a \in Nat : Rate * a \in Nat /\ Rate * (a + 1) = Rate * a + Rate
    OBVIOUS
  <1>2. ASSUME NEW a \in Nat, NEW b \in Nat, a <= b PROVE Rate * a <= Rate * b
    <2>1. b - a \in Nat /\ b = a + (b - a)
      BY <1>2
    <2>2. PICK d \in Nat : b = a + d
      BY <2>1
    <2>3. Rate * b = Rate * a + Rate * d /\ Rate * d \in Nat /\ Rate * a \in Nat
      BY <2>2
    <2> QED BY <2>3
  <1> QED BY <1>1, <1>2

(* The smaller of two numbers. *)
LEMMA SmallerIs ==
    \A a, b \in Nat : /\ R!Smaller(a, b) \in 0 .. a /\ R!Smaller(a, b) <= b
                      /\ R!Smaller(a, b) \in {a, b}
  BY DEF R!Smaller

(* An absent bucket is well typed and counts as full. *)
LEMMA AbsentBucket ==
    /\ R!Absent \in Bucket
    /\ ~R!Absent.present /\ R!Absent.tokens = R!Burst /\ R!Absent.idleAge = IdleCap
  BY BurstType, BucketAssumption DEF Bucket, R!Absent, R!Age, R!ParameterAssumption

(* So a key without a bucket is as it should be if it was a victim or would *)
(* have a full bucket.                                                      *)
LEMMA AbsentGood ==
    ASSUME NEW i \in 0 .. R!Burst, NEW e, NEW a \in R!Age,
           IdleTTL * Rate >= R!Burst /\ ~e => i = R!Burst
    PROVE  BucketGood(R!Absent, i, e, a)
  <1>1. PICK r \in Nat : r = Rate * R!Absent.idleAge
    BY AbsentBucket, RefillGrows, BucketAssumption DEF R!ParameterAssumption
  <1>2. R!Absent.tokens >= R!Smaller(R!Burst, Rate * R!Absent.idleAge)
    BY <1>1, SmallerIs, AbsentBucket, BurstType
  <1> QED BY <1>2, AbsentBucket DEF BucketGood

(* Nobody has called yet, and every bucket is full. *)
LEMMA BucketInit == R!Init => BucketInv
  <1> SUFFICES ASSUME R!Init PROVE BucketInv
    OBVIOUS
  <1>1. R!Burst \in 0 .. R!Burst /\ IdleCap \in R!Age
    BY BurstType, BucketAssumption DEF R!Age, R!ParameterAssumption
  <1>2. BucketGood(R!Absent, R!Burst, FALSE, IdleCap)
    BY <1>1, AbsentGood
  <1>3. \A k \in Principals : /\ buckets[k] = R!Absent /\ ideal[k] = R!Burst
                              /\ ~(k \in evicted) /\ callAge[k] = IdleCap
    BY DEF R!Init
  <1>4. \A k \in Principals : BucketGood(buckets[k], ideal[k], k \in evicted, callAge[k])
    BY <1>2, <1>3 DEF BucketGood
  <1> QED BY <1>1, <1>4, AbsentBucket DEF R!Init, BucketInv

(* A bucket the sweeper drops, or the full map, leaves its key in order. *)
LEMMA DroppedGood ==
    ASSUME NEW b, NEW i, NEW e, NEW f, NEW a, BucketGood(b, i, e, a), b.present,
           f \/ (b.idleAge > IdleTTL /\ ~e)
    PROVE  BucketGood(R!Absent, i, f, a)
  <1>1. /\ b \in Bucket /\ i \in 0 .. R!Burst /\ a \in R!Age
        /\ b.tokens >= R!Smaller(R!Burst, Rate * b.idleAge)
        /\ IdleTTL * Rate >= R!Burst /\ ~e => b.tokens = i
    BY DEF BucketGood
  <1>2. b.tokens \in 0 .. R!Burst /\ b.idleAge \in Nat
    BY <1>1, BucketAssumption DEF Bucket, R!Age, R!ParameterAssumption
  <1>3. ASSUME IdleTTL * Rate >= R!Burst, ~f PROVE i = R!Burst
    <2>1. PICK r \in Nat : r = Rate * b.idleAge
      BY <1>2, RefillGrows
    <2>2. PICK q \in Nat : q = Rate * IdleTTL
      BY RefillGrows, BucketAssumption DEF R!ParameterAssumption
    <2>3. q <= r /\ q >= R!Burst
      <3>1. q = IdleTTL * Rate
        BY <2>2, BucketAssumption DEF R!ParameterAssumption
      <3>2. IdleTTL <= b.idleAge /\ IdleTTL \in Nat
        BY <1>2, <1>3, BucketAssumption DEF R!ParameterAssumption
      <3> QED BY <3>1, <3>2, <1>2, <1>3, <2>1, <2>2, RefillGrows
    <2>4. R!Smaller(R!Burst, r) = R!Burst
      BY <2>3, BurstType DEF R!Smaller
    <2> QED BY <2>4, <1>1, <1>2, <1>3, <2>1, BurstType
  <1> QED BY <1>1, <1>3, AbsentGood

(* The tokens a call may count on. *)
LEMMA TokensType ==
    ASSUME NEW b, NEW i, NEW e, NEW a, BucketGood(b, i, e, a),
           NEW t, t = (IF b.present THEN b.tokens ELSE R!Burst)
    PROVE  t \in 0 .. R!Burst /\ i \in 0 .. R!Burst
  BY BurstType DEF BucketGood, Bucket

(* A bucket that was just used owes nothing to a refill. *)
LEMMA JustUsed ==
    ASSUME NEW b \in Bucket, b.idleAge = 0
    PROVE  b.tokens >= R!Smaller(R!Burst, Rate * b.idleAge)
  <1>1. Rate * b.idleAge = 0 /\ b.tokens \in Nat
    BY BucketAssumption, BurstType DEF Bucket, R!ParameterAssumption
  <1> QED BY <1>1, BurstType DEF R!Smaller

(* An admitted call takes a token of both buckets and stamps the key. *)
LEMMA ChargedGood ==
    ASSUME NEW b, NEW i, NEW e, NEW a, BucketGood(b, i, e, a),
           NEW t, t = (IF b.present THEN b.tokens ELSE R!Burst), t >= Unit
    PROVE  BucketGood([b EXCEPT !.present = TRUE, !.idleAge = 0, !.tokens = t - Unit],
                      IF i >= Unit THEN i - Unit ELSE 0, e, 0)
  <1>1. t \in 0 .. R!Burst /\ i \in 0 .. R!Burst /\ b \in Bucket
    BY TokensType DEF BucketGood
  <1>2. Unit \in Nat /\ R!Burst \in Nat /\ 0 \in R!Age
    BY BurstType, BucketAssumption DEF R!Age, R!ParameterAssumption
  <1>3. PICK c : c = [b EXCEPT !.present = TRUE, !.idleAge = 0, !.tokens = t - Unit]
    OBVIOUS
  <1>4. t - Unit \in 0 .. R!Burst
    BY <1>1, <1>2
  <1>5. c \in Bucket /\ c.present = TRUE /\ c.idleAge = 0 /\ c.tokens = t - Unit
    BY <1>1, <1>2, <1>3, <1>4 DEF Bucket
  <1>6. c.tokens >= R!Smaller(R!Burst, Rate * c.idleAge)
    BY <1>5, JustUsed
  <1>7. IdleTTL * Rate >= R!Burst /\ ~e => t = i
    BY DEF BucketGood
  <1>8. PICK j : j = IF i >= Unit THEN i - Unit ELSE 0
    OBVIOUS
  <1>9. j \in 0 .. R!Burst /\ (i = t => j = t - Unit)
    BY <1>1, <1>2, <1>8
  <1>10. BucketGood(c, j, e, 0)
    BY <1>2, <1>5, <1>6, <1>7, <1>9 DEF BucketGood
  <1> QED BY <1>3, <1>8, <1>10

(* A refused call only stamps the bucket, which is there: a full one does   *)
(* not refuse.                                                              *)
LEMMA RefusedGood ==
    ASSUME NEW b, NEW i, NEW e, NEW a, BucketGood(b, i, e, a),
           (IF b.present THEN b.tokens ELSE R!Burst) < Unit
    PROVE  BucketGood([b EXCEPT !.present = TRUE, !.idleAge = 0], i, e, 0)
  <1>1. i \in 0 .. R!Burst /\ b \in Bucket
    BY DEF BucketGood
  <1>2. Unit \in Nat /\ R!Burst \in Nat /\ Unit <= R!Burst /\ 0 \in R!Age
    BY BurstType, BucketAssumption DEF R!Age, R!ParameterAssumption
  <1>3. b.present
    BY <1>2
  <1>4. PICK c : c = [b EXCEPT !.present = TRUE, !.idleAge = 0]
    OBVIOUS
  <1>5. c \in Bucket /\ c.present = TRUE /\ c.idleAge = 0 /\ c.tokens = b.tokens
    BY <1>1, <1>2, <1>4 DEF Bucket
  <1>6. c.tokens >= R!Smaller(R!Burst, Rate * c.idleAge)
    BY <1>5, JustUsed
  <1>7. IdleTTL * Rate >= R!Burst /\ ~e => b.tokens = i
    BY <1>3 DEF BucketGood
  <1>8. BucketGood(c, i, e, 0)
    BY <1>1, <1>2, <1>5, <1>6, <1>7 DEF BucketGood
  <1> QED BY <1>4, <1>8

(* A tick refills both buckets alike and ages the key. *)
LEMMA TickedGood ==
    ASSUME NEW b, NEW i, NEW e, NEW a, BucketGood(b, i, e, a)
    PROVE  BucketGood([b EXCEPT !.tokens = R!Smaller(R!Burst, @ + Rate), !.idleAge = R!Older(@)],
                      R!Smaller(R!Burst, i + Rate), e, R!Older(a))
  <1>1. i \in 0 .. R!Burst /\ b \in Bucket /\ a \in R!Age
    BY DEF BucketGood
  <1>2. Rate \in Nat /\ R!Burst \in Nat /\ IdleCap \in Nat
    BY BurstType, BucketAssumption DEF R!ParameterAssumption
  <1>3. b.tokens \in 0 .. R!Burst /\ b.idleAge \in R!Age /\ b.present \in BOOLEAN
    BY <1>1 DEF Bucket
  <1>4. PICK u : u = R!Smaller(R!Burst, b.tokens + Rate)
    OBVIOUS
  <1>5. u \in 0 .. R!Burst /\ u >= b.tokens /\ u \in {R!Burst, b.tokens + Rate}
    BY <1>2, <1>3, <1>4 DEF R!Smaller
  <1>6. PICK o : o = R!Older(b.idleAge)
    OBVIOUS
  <1>7. o \in R!Age /\ o \in Nat /\ o \in {b.idleAge, b.idleAge + 1}
    BY <1>2, <1>3, <1>6 DEF R!Age, R!Older
  <1>8. R!Older(a) \in R!Age
    BY <1>1, <1>2 DEF R!Age, R!Older
  <1>9. PICK j : j = R!Smaller(R!Burst, i + Rate)
    OBVIOUS
  <1>10. j \in 0 .. R!Burst /\ (i = R!Burst => j = R!Burst) /\ (i = b.tokens => j = u)
    BY <1>1, <1>2, <1>4, <1>9 DEF R!Smaller
  <1>11. PICK c : c = [b EXCEPT !.tokens = R!Smaller(R!Burst, @ + Rate), !.idleAge = R!Older(@)]
    OBVIOUS
  <1>12. c \in Bucket /\ c.present = b.present /\ c.tokens = u /\ c.idleAge = o
    BY <1>1, <1>4, <1>5, <1>6, <1>7, <1>11 DEF Bucket
  <1>13. u >= R!Smaller(R!Burst, Rate * o)
    <2>1. PICK r \in Nat : r = Rate * b.idleAge
      BY <1>2, <1>3, RefillGrows DEF R!Age
    <2>2. PICK q \in Nat : q = Rate * o /\ q <= r + Rate /\ (o = b.idleAge => q = r)
      BY <1>2, <1>3, <1>7, <2>1, RefillGrows DEF R!Age
    <2>3. b.tokens >= R!Smaller(R!Burst, r)
      BY <2>1 DEF BucketGood
    <2>4. u >= R!Smaller(R!Burst, q)
      BY <1>2, <1>3, <1>5, <2>2, <2>3 DEF R!Smaller
    <2> QED BY <2>2, <2>4
  <1>14. c.present => c.idleAge = R!Older(a)
    BY <1>6, <1>12 DEF BucketGood
  <1>15. IdleTTL * Rate >= R!Burst /\ ~e => (IF c.present THEN c.tokens ELSE R!Burst) = j
    BY <1>10, <1>12 DEF BucketGood
  <1>16. c.tokens >= R!Smaller(R!Burst, Rate * c.idleAge)
    BY <1>12, <1>13
  <1>17. BucketGood(c, j, e, R!Older(a))
    BY <1>8, <1>10, <1>12, <1>14, <1>15, <1>16 DEF BucketGood
  <1> QED BY <1>9, <1>11, <1>17

(* The full map drops buckets that are there, and never that of the key it  *)
(* makes room for.                                                          *)
LEMMA VictimsPresent ==
    ASSUME BucketInv, NEW k \in Principals, NEW V \in R!Victims(k)
    PROVE  /\ V \subseteq R!LeastRecent /\ V \subseteq Principals /\ k \notin V
           /\ \A v \in V : buckets[v].present
  <1>1. V = {} \/ (~buckets[k].present /\ \E v \in R!LeastRecent : V = {v})
    BY DEF R!Victims
  <1> QED BY <1>1 DEF R!LeastRecent, R!Present

(* A step is good when every key is in order after it. *)
LEMMA BucketsStep ==
    ASSUME NEW b, NEW i, NEW e, NEW a,
           b = [k \in Principals |-> b[k]], i = [k \in Principals |-> i[k]],
           a = [k \in Principals |-> a[k]], e \subseteq Principals,
           \A k \in Principals : BucketGood(b[k], i[k], k \in e, a[k])
    PROVE  /\ b \in [Principals -> Bucket] /\ i \in [Principals -> 0 .. R!Burst]
           /\ a \in [Principals -> R!Age]
  <1>1. \A k \in Principals : b[k] \in Bucket /\ i[k] \in 0 .. R!Burst /\ a[k] \in R!Age
    BY DEF BucketGood
  <1> QED BY <1>1

(* An admitted call, with the bucket it may have displaced. *)
LEMMA AllowStep ==
    ASSUME BucketInv, NEW k \in Principals, R!Allow(k)
    PROVE  BucketInv'
  <1>1. PICK V \in R!Victims(k) :
           /\ buckets' = [R!Without(V) EXCEPT ![k] =
                            [buckets[k] EXCEPT !.present = TRUE, !.idleAge = 0,
                                               !.tokens = R!Tokens(k) - Unit]]
           /\ evicted' = evicted \cup V
    BY DEF R!Allow
  <1>2. /\ ideal' = [ideal EXCEPT ![k] = IF @ >= Unit THEN @ - Unit ELSE 0]
        /\ callAge' = [callAge EXCEPT ![k] = 0] /\ R!Tokens(k) >= Unit
    BY DEF R!Allow
  <1>3. /\ V \subseteq Principals /\ k \notin V /\ \A v \in V : buckets[v].present
    BY VictimsPresent
  <1>4. /\ buckets \in [Principals -> Bucket] /\ ideal \in [Principals -> 0 .. R!Burst]
        /\ evicted \subseteq Principals /\ callAge \in [Principals -> R!Age]
        /\ \A j \in Principals : BucketGood(buckets[j], ideal[j], j \in evicted, callAge[j])
    BY DEF BucketInv
  <1>5. /\ buckets' = [j \in Principals |-> buckets'[j]]
        /\ ideal' = [j \in Principals |-> ideal'[j]]
        /\ callAge' = [j \in Principals |-> callAge'[j]]
        /\ evicted' \subseteq Principals
    BY <1>1, <1>2, <1>3, <1>4 DEF R!Without
  <1>6. ASSUME NEW j \in Principals
        PROVE  BucketGood(buckets'[j], ideal'[j], j \in evicted', callAge'[j])
    <2>0. BucketGood(buckets[j], ideal[j], j \in evicted, callAge[j])
      BY <1>4
    <2>1. CASE j = k
      <3>1. /\ buckets'[k] = [buckets[k] EXCEPT !.present = TRUE, !.idleAge = 0,
                                                !.tokens = R!Tokens(k) - Unit]
            /\ ideal'[k] = (IF ideal[k] >= Unit THEN ideal[k] - Unit ELSE 0)
            /\ callAge'[k] = 0
        BY <1>1, <1>2, <1>4 DEF R!Without
      <3>2. R!Tokens(k) = (IF buckets[k].present THEN buckets[k].tokens ELSE R!Burst)
        BY DEF R!Tokens
      <3>3. BucketGood([buckets[k] EXCEPT !.present = TRUE, !.idleAge = 0,
                                          !.tokens = R!Tokens(k) - Unit],
                       IF ideal[k] >= Unit THEN ideal[k] - Unit ELSE 0, k \in evicted, 0)
        BY <2>0, <2>1, <3>2, <1>2, ChargedGood
      <3>4. k \in evicted' <=> k \in evicted
        BY <1>1, <1>3
      <3> QED BY <2>1, <3>1, <3>3, <3>4 DEF BucketGood
    <2>2. CASE j \in V
      <3>1. /\ buckets'[j] = R!Absent /\ ideal'[j] = ideal[j] /\ callAge'[j] = callAge[j]
            /\ j \in evicted' /\ buckets[j].present
        BY <2>2, <1>1, <1>2, <1>3, <1>4 DEF R!Without
      <3>2. BucketGood(R!Absent, ideal[j], TRUE, callAge[j])
        BY <2>0, <3>1, DroppedGood
      <3> QED BY <3>1, <3>2 DEF BucketGood
    <2>3. CASE j # k /\ j \notin V
      <3>1. /\ buckets'[j] = buckets[j] /\ ideal'[j] = ideal[j] /\ callAge'[j] = callAge[j]
            /\ (j \in evicted' <=> j \in evicted)
        BY <2>3, <1>1, <1>2, <1>3, <1>4 DEF R!Without
      <3> QED BY <2>0, <3>1 DEF BucketGood
    <2> QED BY <2>1, <2>2, <2>3
  <1>7. /\ buckets' \in [Principals -> Bucket] /\ ideal' \in [Principals -> 0 .. R!Burst]
        /\ callAge' \in [Principals -> R!Age]
    BY <1>5, <1>6, BucketsStep
  <1> QED BY <1>5, <1>6, <1>7 DEF BucketInv

(* A refused call. *)
LEMMA RejectStep ==
    ASSUME BucketInv, NEW k \in Principals, R!Reject(k)
    PROVE  BucketInv'
  <1>1. /\ buckets' = [buckets EXCEPT ![k].present = TRUE, ![k].idleAge = 0]
        /\ callAge' = [callAge EXCEPT ![k] = 0] /\ R!Tokens(k) < Unit
        /\ ideal' = ideal /\ evicted' = evicted
    BY DEF R!Reject
  <1>2. /\ buckets \in [Principals -> Bucket] /\ ideal \in [Principals -> 0 .. R!Burst]
        /\ evicted \subseteq Principals /\ callAge \in [Principals -> R!Age]
        /\ \A j \in Principals : BucketGood(buckets[j], ideal[j], j \in evicted, callAge[j])
    BY DEF BucketInv
  <1>3. ASSUME NEW j \in Principals
        PROVE  BucketGood(buckets'[j], ideal'[j], j \in evicted', callAge'[j])
    <2>0. BucketGood(buckets[j], ideal[j], j \in evicted, callAge[j])
      BY <1>2
    <2>1. CASE j = k
      <3>1. /\ buckets'[k] = [buckets[k] EXCEPT !.present = TRUE, !.idleAge = 0]
            /\ callAge'[k] = 0
        BY <1>1, <1>2
      <3>2. (IF buckets[k].present THEN buckets[k].tokens ELSE R!Burst) < Unit
        BY <1>1 DEF R!Tokens
      <3>3. BucketGood([buckets[k] EXCEPT !.present = TRUE, !.idleAge = 0], ideal[k],
                       k \in evicted, 0)
        BY <2>0, <2>1, <3>2, RefusedGood
      <3> QED BY <1>1, <2>1, <3>1, <3>3 DEF BucketGood
    <2>2. CASE j # k
      <3>1. buckets'[j] = buckets[j] /\ callAge'[j] = callAge[j]
        BY <2>2, <1>1, <1>2
      <3> QED BY <1>1, <2>0, <3>1 DEF BucketGood
    <2> QED BY <2>1, <2>2
  <1>4. /\ buckets' = [j \in Principals |-> buckets'[j]]
        /\ ideal' = [j \in Principals |-> ideal'[j]]
        /\ callAge' = [j \in Principals |-> callAge'[j]]
        /\ evicted' \subseteq Principals
    BY <1>1, <1>2
  <1>5. /\ buckets' \in [Principals -> Bucket] /\ ideal' \in [Principals -> 0 .. R!Burst]
        /\ callAge' \in [Principals -> R!Age]
    BY <1>3, <1>4, BucketsStep
  <1> QED BY <1>3, <1>4, <1>5 DEF BucketInv

(* The sweeper drops buckets that are full again. *)
LEMMA SweepStep ==
    ASSUME BucketInv, R!Sweep
    PROVE  BucketInv'
  <1> DEFINE W == {k \in Principals : buckets[k].present /\ buckets[k].idleAge > IdleTTL}
  <1>1. /\ buckets' = R!Without(W)
        /\ ideal' = ideal /\ evicted' = evicted /\ callAge' = callAge
    BY DEF R!Sweep
  <1>2. /\ buckets \in [Principals -> Bucket] /\ ideal \in [Principals -> 0 .. R!Burst]
        /\ evicted \subseteq Principals /\ callAge \in [Principals -> R!Age]
        /\ \A j \in Principals : BucketGood(buckets[j], ideal[j], j \in evicted, callAge[j])
    BY DEF BucketInv
  <1>3. ASSUME NEW j \in Principals
        PROVE  BucketGood(buckets'[j], ideal[j], j \in evicted, callAge[j])
    <2>0. BucketGood(buckets[j], ideal[j], j \in evicted, callAge[j])
      BY <1>2
    <2>1. CASE j \in W
      <3>1. buckets'[j] = R!Absent /\ buckets[j].present /\ buckets[j].idleAge > IdleTTL
        BY <2>1, <1>1 DEF R!Without
      <3>2. BucketGood(R!Absent, ideal[j], j \in evicted, callAge[j])
        BY <2>0, <3>1, DroppedGood
      <3> QED BY <3>1, <3>2
    <2>2. CASE j \notin W
      <3>1. buckets'[j] = buckets[j]
        BY <2>2, <1>1 DEF R!Without
      <3> QED BY <2>0, <3>1
    <2> QED BY <2>1, <2>2
  <1>4. buckets' = [j \in Principals |-> buckets'[j]]
    BY <1>1 DEF R!Without
  <1>5. buckets' \in [Principals -> Bucket]
    BY <1>3, <1>4 DEF BucketGood
  <1> QED BY <1>1, <1>2, <1>3, <1>5 DEF BucketInv

(* Time passes. *)
LEMMA TickStep ==
    ASSUME BucketInv, R!Tick
    PROVE  BucketInv'
  <1>1. /\ buckets' = [k \in Principals |->
                         [buckets[k] EXCEPT !.tokens = R!Smaller(R!Burst, @ + Rate),
                                            !.idleAge = R!Older(@)]]
        /\ ideal' = [k \in Principals |-> R!Smaller(R!Burst, ideal[k] + Rate)]
        /\ callAge' = [k \in Principals |-> R!Older(callAge[k])]
        /\ evicted' = evicted
    BY DEF R!Tick
  <1>2. /\ evicted \subseteq Principals
        /\ \A j \in Principals : BucketGood(buckets[j], ideal[j], j \in evicted, callAge[j])
    BY DEF BucketInv
  <1>3. ASSUME NEW j \in Principals
        PROVE  BucketGood(buckets'[j], ideal'[j], j \in evicted', callAge'[j])
    <2>1. /\ buckets'[j] = [buckets[j] EXCEPT !.tokens = R!Smaller(R!Burst, @ + Rate),
                                              !.idleAge = R!Older(@)]
          /\ ideal'[j] = R!Smaller(R!Burst, ideal[j] + Rate)
          /\ callAge'[j] = R!Older(callAge[j])
      BY <1>1
    <2>2. BucketGood([buckets[j] EXCEPT !.tokens = R!Smaller(R!Burst, @ + Rate),
                                        !.idleAge = R!Older(@)],
                     R!Smaller(R!Burst, ideal[j] + Rate), j \in evicted, R!Older(callAge[j]))
      BY <1>2, TickedGood
    <2> QED BY <1>1, <2>1, <2>2 DEF BucketGood
  <1>4. /\ buckets' = [j \in Principals |-> buckets'[j]]
        /\ ideal' = [j \in Principals |-> ideal'[j]]
        /\ callAge' = [j \in Principals |-> callAge'[j]]
        /\ evicted' \subseteq Principals
    BY <1>1, <1>2
  <1>5. /\ buckets' \in [Principals -> Bucket] /\ ideal' \in [Principals -> 0 .. R!Burst]
        /\ callAge' \in [Principals -> R!Age]
    BY <1>3, <1>4, BucketsStep
  <1> QED BY <1>3, <1>4, <1>5 DEF BucketInv

(* Every step of the limiter keeps every key in order. *)
LEMMA BucketStep == BucketInv /\ [R!Next]_(R!vars) => BucketInv'
  <1> SUFFICES ASSUME BucketInv, [R!Next]_(R!vars) PROVE BucketInv'
    OBVIOUS
  <1>1. CASE UNCHANGED R!vars
    BY <1>1 DEF R!vars, BucketInv
  <1>2. CASE R!Next
    BY <1>2, AllowStep, RejectStep, SweepStep, TickStep DEF R!Next
  <1> QED BY <1>1, <1>2

(* Always. *)
LEMMA BucketInvariance == R!Spec => []BucketInv
  BY BucketInit, BucketStep, PTL DEF R!Spec

(* For any number of principals, any rate, burst, ttl and size of the map,  *)
(* every variable of the rate limiter keeps its type.                       *)
THEOREM BucketTypeCorrect == R!Spec => []R!TypeOK
  <1>1. BucketInv => R!TypeOK
    BY DEF BucketInv, Bucket, R!TypeOK
  <1> QED BY <1>1, BucketInvariance, PTL

(* When the ttl is long enough to refill a bucket, sweeping gives nothing   *)
(* away: a key the full map never dropped has exactly the tokens it would   *)
(* have if the limiter remembered everything.                               *)
THEOREM SweepingGivesNothing == R!Spec => []SweepIsTransparent
  <1>1. BucketInv => SweepIsTransparent
    BY DEF BucketInv, BucketGood, SweepIsTransparent, R!SweepIsTransparent, R!Tokens
  <1> QED BY <1>1, BucketInvariance, PTL

(* The full map drops nobody who called more recently than somebody it      *)
(* keeps, whether the calls were admitted or refused.                       *)
THEOREM CallersAreKept == R!Spec => ActiveKeysKept
  <1> DEFINE Kept == \A k, j \in R!Present : k \in evicted' \ evicted => callAge[j] <= callAge[k]
  <1>1. ASSUME BucketInv, R!Next PROVE Kept
    <2>1. ASSUME NEW k \in Principals, R!Allow(k), NEW v \in R!Present, NEW j \in R!Present,
                 v \in evicted' \ evicted
          PROVE  callAge[j] <= callAge[v]
      <3>1. PICK V \in R!Victims(k) : evicted' = evicted \cup V
        BY <2>1 DEF R!Allow
      <3>2. v \in R!LeastRecent
        BY <1>1, <2>1, <3>1, VictimsPresent
      <3>3. buckets[j].idleAge <= buckets[v].idleAge
        BY <3>2 DEF R!LeastRecent
      <3>4. buckets[j].idleAge = callAge[j] /\ buckets[v].idleAge = callAge[v]
        BY <1>1 DEF R!Present, BucketInv, BucketGood
      <3> QED BY <3>3, <3>4
    <2>2. evicted' = evicted \/ \E k \in Principals : R!Allow(k)
      BY <1>1 DEF R!Next, R!Reject, R!Sweep, R!Tick
    <2> QED BY <2>1, <2>2
  <1>2. BucketInv /\ [R!Next]_(R!vars) => [Kept]_(R!vars)
    BY <1>1
  <1> QED BY <1>2, BucketInvariance, PTL DEF ActiveKeysKept, R!ActiveKeysKept, R!Spec

-----------------------------------------------------------------------------
(* The build of a session *)

(* A candidate phase 2 has finished with was dialled to an end, and either  *)
(* joined the session or holds no connection.                               *)
Settled ==
    /\ \A s \in B!Candidates \ todo : dial[s] \in {"ok", "skipped", "failed"}
    /\ \A s \in Servers : conn[s] \in {"open", "closing"} => s \in todo \cup upstreams
    /\ \A s \in todo :
          /\ dial[s] = "ok" => conn[s] \in {"open", "closing"}
          /\ conn[s] = "closing" => dial[s] \in {"ok", "skipped", "failed"}
    /\ pc = "done" => todo = {}

(* An upstream of the session is connected, its watchdog disarmed, and it   *)
(* alone owns its slug.                                                     *)
Joined ==
    /\ upstreams \cap todo = {}
    /\ \A s \in upstreams : /\ conn[s] = "open" /\ watchdog[s] = "stopped"
                            /\ slugToServer[SlugOf[s]] = s

(* A name in the registry belongs to a server of its slug: that may be one  *)
(* whose registration failed, but never one of another slug.                *)
Named == \A g \in B!Slugs, t \in BareTools : registry[g, t] # None => SlugOf[registry[g, t]] = g

BuildInv == B!TypeOK /\ Settled /\ Joined /\ Named

(* A server's slug is a slug, and no server is None. *)
LEMMA SlugType == \A s \in Servers : SlugOf[s] \in B!Slugs /\ s # None
  BY ServersAssumption DEF B!Slugs, B!ParameterAssumption

(* Candidates are servers, and which ones is fixed by the entitlements the  *)
(* build has read.                                                          *)
LEMMA CandidatesFixed ==
    /\ B!Candidates \subseteq Servers
    /\ ents' = ents => B!Candidates' = B!Candidates
  BY ServersAssumption DEF B!Candidates, B!VisibleServerIDs, B!ParameterAssumption

(* Nothing is dialled yet. *)
LEMMA BuildInit == B!Init => BuildInv
  <1> SUFFICES ASSUME B!Init PROVE BuildInv
    OBVIOUS
  <1>1. B!TypeOK
    <2>1. registry \in [B!Slugs \X BareTools -> Servers \cup {None}]
      BY DEF B!Init
    <2>2. slugToServer \in [B!Slugs -> Servers \cup {None}]
      BY DEF B!Init
    <2>3. /\ dial \in [Servers -> {"queued", "dialing", "ok", "skipped", "failed"}]
          /\ watchdog \in [Servers -> {"off", "armed", "fired", "stopped"}]
          /\ conn \in [Servers -> {"none", "open", "closing", "closed"}]
      BY DEF B!Init
    <2>4. pc = "dial" /\ ents \in EntitlementSets
      BY DEF B!Init
    <2>5. /\ todo \subseteq B!Candidates /\ listed \subseteq BareTools
          /\ upstreams \subseteq B!Candidates
      BY DEF B!Init
    <2> QED BY <2>1, <2>2, <2>3, <2>4, <2>5 DEF B!TypeOK
  <1>2. Settled
    BY CandidatesFixed DEF B!Init, Settled
  <1>3. Joined
    BY DEF B!Init, Joined
  <1>4. \A g \in B!Slugs, t \in BareTools : registry[g, t] = None
    BY DEF B!Init
  <1> QED BY <1>1, <1>2, <1>3, <1>4 DEF BuildInv, Named

(* Phase 1: a candidate that is still being dialled is not yet decided on. *)
LEMMA DialStep ==
    ASSUME BuildInv, NEW s \in B!Candidates, B!Dial(s) \/ B!WatchdogFires(s)
    PROVE  BuildInv'
  <1>1. UNCHANGED B!Phase2 /\ B!Candidates' = B!Candidates /\ s \in Servers
    BY CandidatesFixed
    DEF B!Dial, B!WatchdogFires, B!DialSkip, B!DialStart, B!DialOK, B!DialFail, B!Phase2
  <1>2. /\ pc' = pc /\ ents' = ents /\ todo' = todo /\ listed' = listed
        /\ registry' = registry /\ slugToServer' = slugToServer /\ upstreams' = upstreams
    BY <1>1 DEF B!Phase2
  <1>3. B!TypeOK'
    BY <1>1, <1>2 DEF BuildInv, B!TypeOK, B!Dial, B!WatchdogFires, B!DialSkip, B!DialStart,
                      B!DialOK, B!DialFail
  <1>4. Named'
    BY <1>2 DEF BuildInv, Named
  <1>5. Settled' /\ Joined'
    <2> USE <1>1, <1>2 DEF BuildInv, B!TypeOK, Settled, Joined
    <2>1. CASE B!DialSkip(s)
      BY <2>1 DEF B!DialSkip
    <2>2. CASE B!DialStart(s)
      BY <2>2 DEF B!DialStart
    <2>3. CASE B!DialOK(s)
      BY <2>3 DEF B!DialOK
    <2>4. CASE B!DialFail(s)
      BY <2>4 DEF B!DialFail
    <2>5. CASE B!WatchdogFires(s)
      BY <2>5 DEF B!WatchdogFires
    <2> QED BY <2>1, <2>2, <2>3, <2>4, <2>5 DEF B!Dial
  <1> QED BY <1>3, <1>4, <1>5 DEF BuildInv

(* The close of a skipped upstream returns. *)
LEMMA SkipClosedStep ==
    ASSUME BuildInv, NEW s, B!SkipClosed(s)
    PROVE  BuildInv'
  <1>1. B!Candidates' = B!Candidates /\ s \in Servers /\ s \notin upstreams /\ s \in todo
    BY CandidatesFixed DEF B!SkipClosed, B!Reached, BuildInv, Joined, B!TypeOK
  <1>2. B!TypeOK'
    BY <1>1 DEF BuildInv, B!TypeOK, B!SkipClosed
  <1>3. Named'
    BY DEF BuildInv, Named, B!SkipClosed
  <1>4. Settled'
    BY <1>1 DEF BuildInv, B!TypeOK, Settled, B!SkipClosed
  <1>5. Joined'
    BY <1>1 DEF BuildInv, B!TypeOK, Joined, B!SkipClosed
  <1> QED BY <1>2, <1>3, <1>4, <1>5 DEF BuildInv

(* skipUpstream leaves no timer behind and, at most, a connection that is   *)
(* being closed.                                                            *)
LEMMA SkipStep ==
    ASSUME BuildInv, NEW s \in todo, dial[s] \in {"ok", "skipped", "failed"},
           conn[s] # "closing", B!SkipUpstream(s)
    PROVE  BuildInv'
  <1>1. B!Candidates' = B!Candidates /\ s \in Servers /\ s \notin upstreams
    BY CandidatesFixed DEF B!SkipUpstream, BuildInv, Joined, B!TypeOK
  <1>2. B!TypeOK'
    BY <1>1 DEF BuildInv, B!TypeOK, B!SkipUpstream, B!Stopped
  <1>3. Named'
    BY DEF BuildInv, Named, B!SkipUpstream
  <1>4. Settled'
    BY <1>1 DEF BuildInv, B!TypeOK, Settled, B!SkipUpstream
  <1>5. Joined'
    BY <1>1 DEF BuildInv, B!TypeOK, Joined, B!SkipUpstream, B!Stopped
  <1> QED BY <1>2, <1>3, <1>4, <1>5 DEF BuildInv

(* One tool more: its name is of the slug of the server that lists it. *)
LEMMA RegisterToolStep ==
    ASSUME BuildInv, NEW s, NEW t \in BareTools, B!RegisterTool(s, t)
    PROVE  BuildInv'
  <1>1. B!Candidates' = B!Candidates /\ s \in Servers /\ SlugOf[s] \in B!Slugs
    BY CandidatesFixed, SlugType DEF B!RegisterTool, B!Turn, B!Reached, BuildInv, B!TypeOK
  <1>2. /\ registry \in [B!Slugs \X BareTools -> Servers \cup {None}]
        /\ registry' = [registry EXCEPT ![<<SlugOf[s], t>>] = IF B!ToolAllowed(s, t) THEN s ELSE @]
    BY DEF BuildInv, B!TypeOK, B!RegisterTool
  <1>3. registry' \in [B!Slugs \X BareTools -> Servers \cup {None}]
    BY <1>1, <1>2
  <1>4. B!TypeOK'
    BY <1>1, <1>3 DEF BuildInv, B!TypeOK, B!RegisterTool
  <1>5. Settled' /\ Joined'
    BY <1>1 DEF BuildInv, Settled, Joined, B!RegisterTool
  <1>6. Named'
    <2> SUFFICES ASSUME NEW g \in B!Slugs, NEW u \in BareTools, registry'[g, u] # None
                 PROVE  SlugOf[registry'[g, u]] = g
      BY DEF Named
    <2>1. registry'[g, u] = registry[g, u] \/ (registry'[g, u] = s /\ g = SlugOf[s])
      BY <1>1, <1>2
    <2> QED BY <2>1 DEF BuildInv, Named
  <1> QED BY <1>4, <1>5, <1>6 DEF BuildInv

(* An upstream joins: nobody owned its slug, and its timer is stopped       *)
(* before it fired.                                                         *)
LEMMA RegisterOKStep ==
    ASSUME BuildInv, NEW s, B!RegisterOK(s)
    PROVE  BuildInv'
  <1>1. /\ B!Candidates' = B!Candidates /\ s \in Servers /\ SlugOf[s] \in B!Slugs
        /\ s \in todo /\ s \in B!Candidates /\ conn[s] # "closing"
    BY CandidatesFixed, SlugType DEF B!RegisterOK, B!Turn, B!Reached, BuildInv, B!TypeOK
  <1>2. B!TypeOK'
    BY <1>1 DEF BuildInv, B!TypeOK, B!RegisterOK, B!Stopped
  <1>3. Named'
    BY DEF BuildInv, Named, B!RegisterOK
  <1>4. Settled'
    BY <1>1 DEF BuildInv, B!TypeOK, Settled, B!RegisterOK
  <1>5. Joined'
    <2>1. \A u \in upstreams : SlugOf[u] # SlugOf[s]
      <3>1. slugToServer[SlugOf[s]] = None
        BY DEF B!RegisterOK, B!Taken
      <3>2. \A u \in upstreams : u # None /\ slugToServer[SlugOf[u]] = u
        BY CandidatesFixed, SlugType DEF BuildInv, B!TypeOK, Joined
      <3> QED BY <3>1, <3>2
    <2>2. upstreams' \cap todo' = {}
      BY DEF BuildInv, Joined, B!RegisterOK
    <2>3. ASSUME NEW u \in upstreams'
          PROVE  conn'[u] = "open" /\ watchdog'[u] = "stopped" /\ slugToServer'[SlugOf[u]] = u
      <3>1. CASE u = s
        BY <3>1, <1>1 DEF BuildInv, B!TypeOK, Settled, B!RegisterOK, B!Stopped
      <3>2. CASE u \in upstreams
        BY <3>2, <1>1, <2>1 DEF BuildInv, B!TypeOK, Joined, B!RegisterOK, B!Stopped
      <3> QED BY <3>1, <3>2 DEF B!RegisterOK
    <2> QED BY <2>2, <2>3 DEF Joined
  <1> QED BY <1>2, <1>3, <1>4, <1>5 DEF BuildInv

(* Every step of a build. *)
LEMMA BuildStep == BuildInv /\ [B!Next]_(B!vars) => BuildInv'
  <1> SUFFICES ASSUME BuildInv, [B!Next]_(B!vars) PROVE BuildInv'
    OBVIOUS
  <1>1. CASE UNCHANGED B!vars
    <2>1. /\ pc' = pc /\ ents' = ents /\ dial' = dial /\ watchdog' = watchdog /\ conn' = conn
          /\ todo' = todo /\ listed' = listed /\ registry' = registry
          /\ slugToServer' = slugToServer /\ upstreams' = upstreams
      BY <1>1 DEF B!vars
    <2>2. B!Candidates' = B!Candidates
      BY <2>1, CandidatesFixed
    <2>3. B!TypeOK'
      BY <2>1, <2>2 DEF BuildInv, B!TypeOK
    <2>4. Joined' /\ Named'
      BY <2>1, <2>2 DEF BuildInv, Joined, Named
    <2>5. Settled'
      BY <2>1, <2>2, SMT DEF BuildInv, Settled
    <2> QED BY <2>3, <2>4, <2>5 DEF BuildInv
  <1>2. ASSUME NEW s \in B!Candidates, B!Dial(s) \/ B!WatchdogFires(s) PROVE BuildInv'
    BY <1>2, DialStep
  <1>3. ASSUME NEW s \in B!Candidates, B!Register(s) PROVE BuildInv'
    <2>1. ASSUME NEW t \in BareTools, B!RegisterTool(s, t) PROVE BuildInv'
      BY <2>1, RegisterToolStep
    <2>2. CASE B!RegisterOK(s)
      BY <2>2, RegisterOKStep
    <2>3. CASE B!SkipDialed(s) \/ B!Collide(s) \/ B!RegisterFail(s) \/ B!RegisterRace(s)
      <3>1. /\ s \in todo /\ dial[s] \in {"ok", "skipped", "failed"} /\ B!SkipUpstream(s)
            /\ conn[s] # "closing"
        BY <2>3 DEF B!SkipDialed, B!Collide, B!RegisterFail, B!RegisterRace, B!Turn, B!Reached
      <3> QED BY <3>1, SkipStep
    <2>4. CASE B!SkipClosed(s)
      BY <2>4, SkipClosedStep
    <2> QED BY <1>3, <2>1, <2>2, <2>3, <2>4 DEF B!Register
  <1>4. CASE B!BeginRegister \/ B!Finish
    <2>1. B!Candidates' = B!Candidates
      BY <1>4, CandidatesFixed DEF B!BeginRegister, B!Finish
    <2>2. /\ ents' = ents /\ dial' = dial /\ watchdog' = watchdog /\ conn' = conn
          /\ todo' = todo /\ listed' = listed /\ registry' = registry
          /\ slugToServer' = slugToServer /\ upstreams' = upstreams
          /\ pc' \in {"register", "done"} /\ (pc' = "done" => todo = {})
      BY <1>4 DEF B!BeginRegister, B!Finish
    <2>3. B!TypeOK'
      BY <2>1, <2>2 DEF BuildInv, B!TypeOK
    <2>4. Joined' /\ Named'
      BY <2>1, <2>2 DEF BuildInv, Joined, Named
    <2>5. Settled'
      BY <2>1, <2>2, SMT DEF BuildInv, Settled
    <2> QED BY <2>3, <2>4, <2>5 DEF BuildInv
  <1> QED BY <1>1, <1>2, <1>3, <1>4 DEF B!Next

(* Always. *)
LEMMA BuildInvariance == B!Spec => []BuildInv
  BY BuildInit, BuildStep, PTL DEF B!Spec

(* For any servers, slugs, tools and entitlements, every variable of a      *)
(* build keeps its type.                                                    *)
THEOREM BuildTypeCorrect == B!Spec => []B!TypeOK
  BY BuildInvariance, PTL DEF BuildInv

(* However dials end and registrations fail, and however many servers share *)
(* a slug, a call that per-call RBAC lets through to a live connection      *)
(* runs on the server it was authorized against.                            *)
THEOREM CallsAreAuthorized == B!Spec => []CallsReachAuthorizedServer
  <1>1. BuildInv => CallsReachAuthorizedServer
    <2> SUFFICES ASSUME BuildInv, NEW g \in B!Slugs, NEW t \in BareTools, NEW u,
                        u = registry[g, t], u \in upstreams
                 PROVE  u = slugToServer[g]
      BY DEF CallsReachAuthorizedServer, B!CallsReachAuthorizedServer
    <2>1. u # None
      BY CandidatesFixed, SlugType DEF BuildInv, B!TypeOK
    <2>2. SlugOf[u] = g
      BY <2>1 DEF BuildInv, Named
    <2> QED BY <2>2 DEF BuildInv, Joined
  <1> QED BY <1>1, BuildInvariance, PTL

(* A finished build has left open exactly the connections its session owns, *)
(* and none that a watchdog has severed or still can.                       *)
THEOREM OwnsItsConnections == B!Spec => []ConnectionsOwned
  <1>1. BuildInv => ConnectionsOwned
    BY DEF BuildInv, Settled, Joined, ConnectionsOwned, B!ConnectionsOwned
  <1> QED BY <1>1, BuildInvariance, PTL

-----------------------------------------------------------------------------
(* The three together *)

(* What the model checker explores, one component while the others rest, is *)
(* a behaviour of each of them: the theorems above are about its runs too.  *)
LEMMA EachIsItself == EdgeSpec => CallSpec /\ R!Spec /\ B!Spec
  <1>1. EdgeInit => InitCall /\ R!Init /\ B!Init
    BY DEF EdgeInit
  <1>2. [EdgeNext]_edgeVars => [NextCall]_allVars /\ [R!Next]_(R!vars) /\ [B!Next]_(B!vars)
    <2>1. UNCHANGED edgeVars => UNCHANGED allVars /\ UNCHANGED R!vars /\ UNCHANGED B!vars
      BY DEF edgeVars, bucketVars, buildVars, R!vars, B!vars
    <2> QED BY <2>1 DEF EdgeNext, OnCalls, OnBuild, Built, bucketVars, buildVars, R!vars, B!vars
  <1> QED BY <1>1, <1>2, PTL DEF EdgeSpec, CallSpec, R!Spec, B!Spec
=============================================================================
