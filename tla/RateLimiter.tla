----------------------------- MODULE RateLimiter -----------------------------
(***************************************************************************)
(* The keyed token buckets of orbeat-api and orbeat-gateway                 *)
(* (internal/ratelimit/ratelimit.go). The retry hint their adapters send    *)
(* (mcp.go, http.go) is left out. Every action is one critical section of   *)
(* Limiter.mu. Buckets live in a map bounded twice: an idle bucket is swept *)
(* after ttl, and a new key drops the least recently used one when the map  *)
(* is full. ideal is the bucket each key would have if the map remembered   *)
(* everything.                                                              *)
(*                                                                          *)
(* A token is Unit units, so that a refill may be a fraction of a token.    *)
(* golang.org/x/time/rate is external: a bucket starts full, gains Rate     *)
(* units per unit of time up to the burst, and AllowN takes one token or    *)
(* nothing.                                                                 *)
(***************************************************************************)
EXTENDS Naturals, FiniteSets

CONSTANTS
    Keys,         \* principals
    Unit,         \* units per token
    Rate,         \* units refilled per unit of time (rps > 0: limiting is on)
    BurstTokens,  \* the configured burst
    TTL,          \* Limiter.ttl
    MaxEntries,   \* Limiter.maxEntries (> 0: the map is bounded)
    AgeCap        \* ages saturate here

Older(a) == IF a < AgeCap THEN a + 1 ELSE a
Smaller(a, b) == IF a < b THEN a ELSE b

(* New: a burst below one token would refuse every request. *)
Burst == (IF BurstTokens < 1 THEN 1 ELSE BurstTokens) * Unit

(* What the callers' configuration guarantees. *)
ParameterAssumption ==
    /\ Unit \in Nat \ {0} /\ Rate \in Nat \ {0} /\ BurstTokens \in Nat
    /\ TTL \in Nat /\ AgeCap \in Nat /\ MaxEntries \in Nat \ {0}
    /\ AgeCap > TTL

VARIABLES
    buckets,   \* Limiter.buckets
    ideal,     \* history: the key's tokens had its bucket never been dropped
    evicted,   \* history: keys that lost a bucket to the LRU rule
    callAge    \* history: time since the key's last call, admitted or not

vars == <<buckets, ideal, evicted, callAge>>

-----------------------------------------------------------------------------

Age == 0 .. AgeCap
Absent == [present |-> FALSE, tokens |-> Burst, idleAge |-> AgeCap]

TypeOK ==
    /\ buckets \in [Keys -> [present : BOOLEAN, tokens : 0 .. Burst, idleAge : Age]]
    /\ ideal \in [Keys -> 0 .. Burst]
    /\ evicted \subseteq Keys
    /\ callAge \in [Keys -> Age]

Init ==
    /\ buckets = [k \in Keys |-> Absent]
    /\ ideal = [k \in Keys |-> Burst]
    /\ evicted = {}
    /\ callAge = [k \in Keys |-> AgeCap]

-----------------------------------------------------------------------------

Present == {k \in Keys : buckets[k].present}

LeastRecent == {k \in Present : \A j \in Present : buckets[j].idleAge <= buckets[k].idleAge}

(* evictIfFullLocked, called for a key that has no bucket: the buckets it   *)
(* may drop. Map order decides between equally old ones.                    *)
Victims(k) ==
    IF buckets[k].present \/ Cardinality(Present) < MaxEntries THEN {{}}
    ELSE {{v} : v \in LeastRecent}

Without(V) == [k \in Keys |-> IF k \in V THEN Absent ELSE buckets[k]]

Tokens(k) == IF buckets[k].present THEN buckets[k].tokens ELSE Burst

(* decideAt, admitted: make room, create the bucket, stamp lastUsed, take a *)
(* token. The ideal bucket is charged too, as far as it goes.               *)
Allow(k) ==
    /\ Tokens(k) >= Unit
    /\ \E V \in Victims(k) :
          /\ buckets' = [Without(V) EXCEPT ![k] =
                            [buckets[k] EXCEPT !.present = TRUE, !.idleAge = 0,
                                               !.tokens = Tokens(k) - Unit]]
          /\ evicted' = evicted \cup V
    /\ ideal' = [ideal EXCEPT ![k] = IF @ >= Unit THEN @ - Unit ELSE 0]
    /\ callAge' = [callAge EXCEPT ![k] = 0]

\* lastUsed is stamped for admitted requests only
Reject_NotStamped(k) ==
    /\ Tokens(k) < Unit
    /\ buckets' = [buckets EXCEPT ![k].present = TRUE]
    /\ callAge' = [callAge EXCEPT ![k] = 0]
    /\ UNCHANGED <<ideal, evicted>>

(* decideAt, refused: the bucket is stamped but not charged. Only an        *)
(* existing bucket can be short of tokens. Which refusals are logged is     *)
(* left out.                                                                *)
Reject(k) ==
    /\ Tokens(k) < Unit
    /\ buckets' = [buckets EXCEPT ![k].present = TRUE, ![k].idleAge = 0]
    /\ callAge' = [callAge EXCEPT ![k] = 0]
    /\ UNCHANGED <<ideal, evicted>>

\* a bucket is dropped once it has been idle for half its ttl
Sweep_Early ==
    /\ buckets' = Without({k \in Keys : buckets[k].present /\ 2 * buckets[k].idleAge > TTL})
    /\ UNCHANGED <<ideal, evicted, callAge>>

(* sweep: drop the buckets last used more than ttl ago. *)
Sweep ==
    /\ buckets' = Without({k \in Keys : buckets[k].present /\ buckets[k].idleAge > TTL})
    /\ UNCHANGED <<ideal, evicted, callAge>>

(* One unit of time: buckets refill (rate.Limiter does it lazily). *)
Tick ==
    /\ buckets' = [k \in Keys |->
                      [buckets[k] EXCEPT !.tokens = Smaller(Burst, @ + Rate),
                                         !.idleAge = Older(@)]]
    /\ ideal' = [k \in Keys |-> Smaller(Burst, ideal[k] + Rate)]
    /\ callAge' = [k \in Keys |-> Older(callAge[k])]
    /\ UNCHANGED evicted

Next == (\E k \in Keys : Allow(k) \/ Reject(k)) \/ Sweep \/ Tick

Spec == Init /\ [][Next]_vars

-----------------------------------------------------------------------------
(* Properties *)

(* Forgetting an idle bucket gives nothing away: as long as a ttl is long   *)
(* enough to refill a bucket, which is what main.go sizes rateLimitTTL for, *)
(* a key that was never a victim of the full map has exactly the tokens of  *)
(* a bucket that was never dropped.                                         *)
SweepIsTransparent ==
    TTL * Rate >= Burst => \A k \in Keys \ evicted : Tokens(k) = ideal[k]

(* A key that keeps calling, refused or not, is never the one the full map  *)
(* drops while some other key has been silent for longer: hammering on an   *)
(* empty bucket does not get it replaced by a full one.                     *)
ActiveKeysKept ==
    [][\A k, j \in Present : k \in evicted' \ evicted => callAge[j] <= callAge[k]]_vars

=============================================================================
