------------------------- MODULE ConcurrencyLimiter -------------------------
(***************************************************************************)
(* The per-principal cap on tools/call in flight                            *)
(* (internal/ratelimit/concurrency.go) as its only caller uses it, the      *)
(* MCPConcurrency middleware (internal/ratelimit/mcp.go).                   *)
(*                                                                          *)
(* Every action is one critical section of ConcurrencyLimiter.mu. A call's  *)
(* release is a sync.Once, so it may be invoked again. What a rejected      *)
(* call is told and whether it is logged changes no count and is left out.  *)
(* Instants are ages, advanced by Tick and saturating at AgeCap; a zero     *)
(* time.Time is an age of AgeCap, which is what now.Sub gives for it.       *)
(***************************************************************************)
EXTENDS Naturals, FiniteSets

CONSTANTS
    Calls,      \* concurrent tools/call dispatches (goroutines)
    Keys,       \* per-principal keys, ratelimit.KeyFor
    Max,        \* ConcurrencyLimiter.max; a max <= 0 installs no cap at all
    TTL,        \* ConcurrencyLimiter.ttl
    AgeCap,     \* ages saturate here
    None        \* no key

ASSUME CallsAssumption == IsFiniteSet(Calls) /\ None \notin Keys
ASSUME MaxAssumption == Max \in Nat \ {0}
ASSUME AgeAssumption ==
    TTL \in Nat /\ AgeCap \in Nat /\ AgeCap > TTL

VARIABLES
    slots,    \* ConcurrencyLimiter.slots
    calls     \* the middleware frame of each call

vars == <<slots, calls>>

-----------------------------------------------------------------------------

Age == 0 .. AgeCap

Slot == [present : BOOLEAN, n : Nat, idleAge : Age]
Absent == [present |-> FALSE, n |-> 0, idleAge |-> AgeCap]

(* A call is "running" in the next handler while it holds a slot, and       *)
(* "released" once its deferred release ran; a rejected one is "answered".  *)
Call == [pc : {"idle", "running", "released", "answered"},
         key : Keys \cup {None}]
Idle == [pc |-> "idle", key |-> None]

TypeOK ==
    /\ slots \in [Keys -> Slot]
    /\ calls \in [Calls -> Call]
    /\ \A c \in Calls : calls[c].pc # "idle" => calls[c].key # None
    /\ \A k \in Keys : slots[k].n > 0 => slots[k].present

Init ==
    /\ slots = [k \in Keys |-> Absent]
    /\ calls = [c \in Calls |-> Idle]

-----------------------------------------------------------------------------

\* off by one at the cap
AcquireAdmitted_OffByOne(c, k) ==
    /\ calls[c].pc = "idle"
    /\ slots[k].n <= Max
    /\ slots' = [slots EXCEPT ![k].present = TRUE, ![k].n = @ + 1]
    /\ calls' = [calls EXCEPT ![c] = [pc |-> "running", key |-> k]]

(* acquireAt below the cap: take a slot, creating the entry if needed. *)
AcquireAdmitted(c, k) ==
    /\ calls[c].pc = "idle"
    /\ slots[k].n < Max
    /\ slots' = [slots EXCEPT ![k].present = TRUE, ![k].n = @ + 1]
    /\ calls' = [calls EXCEPT ![c] = [pc |-> "running", key |-> k]]

(* acquireAt at the cap: no slot is taken. *)
AcquireRejected(c, k) ==
    /\ calls[c].pc = "idle"
    /\ slots[k].n >= Max
    /\ calls' = [calls EXCEPT ![c] = [pc |-> "answered", key |-> k]]
    /\ UNCHANGED slots

(* The deferred release, wrapped in its sync.Once: only the first run has   *)
(* an effect, and it stamps idleSince when the count reaches zero.          *)
Release(c) ==
    LET k == calls[c].key IN
    /\ calls[c].pc \in {"running", "released"}
    /\ calls' = [calls EXCEPT ![c].pc = "released"]
    /\ slots' = IF calls[c].pc = "running" /\ slots[k].n > 0
                THEN [slots EXCEPT ![k].n = @ - 1,
                                   ![k].idleAge = IF slots[k].n = 1 THEN 0 ELSE @]
                ELSE slots

(* The handler returns to its caller. *)
Return(c) ==
    /\ calls[c].pc \in {"released", "answered"}
    /\ calls' = [calls EXCEPT ![c] = Idle]
    /\ UNCHANGED slots

\* the sweep of the token-bucket Limiter: age alone decides
Sweep_AgeOnly ==
    /\ slots' = [k \in Keys |-> IF slots[k].idleAge >= TTL THEN Absent ELSE slots[k]]
    /\ UNCHANGED calls

(* sweep: drop the entries that have been idle for ttl, never a live one.   *)
Sweep ==
    /\ slots' = [k \in Keys |->
                    IF slots[k].n = 0 /\ slots[k].idleAge >= TTL THEN Absent ELSE slots[k]]
    /\ UNCHANGED calls

Older(a) == IF a < AgeCap THEN a + 1 ELSE a

Tick ==
    /\ slots' = [k \in Keys |-> [slots[k] EXCEPT !.idleAge = Older(@)]]
    /\ UNCHANGED calls

CallStep(c) ==
    \/ \E k \in Keys : AcquireAdmitted(c, k) \/ AcquireRejected(c, k)
    \/ Release(c) \/ Return(c)

Next == (\E c \in Calls : CallStep(c)) \/ Sweep \/ Tick

Spec == Init /\ [][Next]_vars

-----------------------------------------------------------------------------
(* Properties *)

Running(k) == {c \in Calls : calls[c].pc = "running" /\ calls[c].key = k}

(* The cap: no principal ever has more than Max calls in the handler,       *)
(* across sweeps, repeated releases and re-created entries.                 *)
CapHolds == \A k \in Keys : Cardinality(Running(k)) <= Max

(* The count is exact. A slot that outlives its call locks the principal    *)
(* out for ever, a call without one raises the cap.                         *)
CountExact == \A k \in Keys : slots[k].n = Cardinality(Running(k))

=============================================================================
