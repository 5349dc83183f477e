------------------------ MODULE SessionCache_proofs ------------------------
(***************************************************************************)
(* Machine-checked proofs about SessionCache, for every set of requests,    *)
(* keys, sessions and ids and every choice of the time bounds: who owns an  *)
(* open session, whose session serves a request, and how old the            *)
(* entitlements of a hit may be.                                            *)
(***************************************************************************)
EXTENDS SessionCache, TLAPS

-----------------------------------------------------------------------------
(* What the helpers return *)

(* The constant values every variable starts from are well-formed. *)
LEMMA Blanks ==
    /\ 0 \in Age
    /\ FreeSession \in Session
    /\ Unbound \in TransportBinding
    /\ NoFlight \in Flight
    /\ Idle \in RequestState
  <1>1. 0 \in Age
    BY TimeAssumption DEF Age
  <1>2. FreeSession \in Session
    BY <1>1 DEF FreeSession, Session
  <1>3. Unbound \in TransportBinding
    BY <1>1 DEF Unbound, TransportBinding, Causes
  <1>4. NoFlight \in Flight
    BY DEF NoFlight, Flight
  <1>5. Idle \in RequestState
    BY DEF Idle, RequestState, Methods
  <1> QED BY <1>1, <1>2, <1>3, <1>4, <1>5

(* A tombstone is well-formed and names no session. *)
LEMMA TombstoneType ==
    ASSUME NEW c \in Causes
    PROVE  /\ Tombstone(c) \in TransportBinding
           /\ Tombstone(c).state = "tombstone" /\ Tombstone(c).sess = None
           /\ Tombstone(c).cause = c
  BY Blanks DEF Tombstone, TransportBinding

(* staleTransportsLocked yields a well-formed index in which an id is live  *)
(* exactly if it was live and not bound to a session of V.                  *)
LEMMA StaleTransportsType ==
    ASSUME TypeOK, NEW V, NEW cause, V \subseteq Sessions, cause \in [Sessions -> Causes]
    PROVE  /\ StaleTransports(V, cause) \in [Ids -> TransportBinding]
           /\ \A i \in Ids : StaleTransports(V, cause)[i].state = "live"
                               <=> StaleTransports(V, cause)[i].sess # None
  <1> DEFINE B == StaleTransports(V, cause)
  <1> SUFFICES ASSUME NEW i \in Ids
               PROVE  /\ B[i] \in TransportBinding
                      /\ B[i].state = "live" <=> B[i].sess # None
    BY DEF StaleTransports
  <1>1. bound[i] \in TransportBinding /\ (bound[i].state = "live" <=> bound[i].sess # None)
    BY DEF TypeOK, Types
  <1>2. CASE bound[i].sess \in V /\ i \in sess[bound[i].sess].transportIDs
    <2>1. B[i] = Tombstone(cause[bound[i].sess]) /\ cause[bound[i].sess] \in Causes
      BY <1>2 DEF StaleTransports
    <2> QED BY <2>1, TombstoneType
  <1>3. CASE ~(bound[i].sess \in V /\ i \in sess[bound[i].sess].transportIDs)
    BY <1>1, <1>3 DEF StaleTransports
  <1> QED BY <1>2, <1>3

(* Evicting sessions yields well-formed session objects. *)
LEMMA EvictType ==
    ASSUME TypeOK, NEW V PROVE Evict(V) \in [Sessions -> Session]
  <1> SUFFICES ASSUME NEW s \in Sessions PROVE Evict(V)[s] \in Session
    BY DEF Evict
  <1>1. sess[s] \in Session
    BY DEF TypeOK, Types
  <1> QED BY <1>1, Blanks DEF Evict, Session, FreeSession

(* Dropping entries yields a well-formed cache map. *)
LEMMA WithoutType ==
    ASSUME TypeOK, NEW V PROVE Without(V) \in [Keys -> Sessions \cup {None}]
  BY DEF TypeOK, Types, Without

(* The sweep yields a well-formed index. *)
LEMMA SweepType ==
    ASSUME NEW b \in [Ids -> TransportBinding], NEW c,
           \A i \in Ids : b[i].state = "live" <=> b[i].sess # None
    PROVE  /\ SweepTransports(b, c) \in [Ids -> TransportBinding]
           /\ \A i \in Ids : SweepTransports(b, c)[i].state = "live"
                               <=> SweepTransports(b, c)[i].sess # None
  <1> DEFINE B == SweepTransports(b, c)
  <1> SUFFICES ASSUME NEW i \in Ids
               PROVE  /\ B[i] \in TransportBinding
                      /\ B[i].state = "live" <=> B[i].sess # None
    BY DEF SweepTransports
  <1>1. "unknown" \in Causes
    BY DEF Causes
  <1>2. B[i] \in {Tombstone("unknown"), Unbound, b[i]}
    BY DEF SweepTransports
  <1>3. Unbound \in TransportBinding /\ Unbound.state # "live" /\ Unbound.sess = None
    BY Blanks DEF Unbound
  <1> QED BY <1>1, <1>2, <1>3, TombstoneType

(* The causes an eviction records are causes. *)
LEMMA CausesType ==
    /\ ReclaimCauses \in [Sessions -> Causes]
    /\ All("explicit_close") \in [Sessions -> Causes]
    /\ All("entitlement_change") \in [Sessions -> Causes]
  BY DEF ReclaimCauses, ReclaimCause, All, Causes

(* Only sessions are cached. *)
LEMMA CachedType == TypeOK => Cached \subseteq Sessions
  BY DEF TypeOK, Types, Cached

(* Older stays an age and does not go back. *)
LEMMA OlderType == \A a \in Age : Older(a) \in Age /\ a <= Older(a)
  BY TimeAssumption DEF Age, Older

-----------------------------------------------------------------------------
(* Type correctness *)

(* The types hold at the start. *)
LEMMA InitType == Init => TypeOK
  <1> SUFFICES ASSUME Init PROVE TypeOK
    OBVIOUS
  <1>1. reaper \in [stopped : BOOLEAN, victims : SUBSET Sessions]
    BY DEF Init
  <1>2. Types
    BY <1>1, Blanks DEF Init, Types
  <1> QED BY <1>2 DEF Init, TypeOK, NoFlight, Idle, Unbound

(* The step lemma: every action keeps every variable in its type. *)
LEMMA NextType == TypeOK /\ [Next]_vars => TypeOK'
  <1> SUFFICES ASSUME TypeOK, [Next]_vars PROVE TypeOK'
    OBVIOUS
  <1> USE CausesType, CachedType, Blanks, KeyAssumption DEF Methods
  <1>1. ASSUME NEW r \in Requests, NEW k \in Keys, NEW i \in Ids \cup {None},
               NEW meth \in Methods, GetHit(r, k, i, meth)
        PROVE  TypeOK'
    <2>1. m[k] \in Sessions
      BY <1>1 DEF TypeOK, Types, GetHit
    <2>2. sess' \in [Sessions -> Session]
      BY <1>1, <2>1 DEF TypeOK, Types, GetHit, Session
    <2>3. Request("check", k, i, meth, m[k]) \in RequestState
      BY <2>1 DEF RequestState, Request
    <2> QED BY <1>1, <2>1, <2>2, <2>3 DEF TypeOK, Types, GetHit, Request
  <1>2. ASSUME NEW r \in Requests, NEW k \in Keys, NEW i \in Ids \cup {None},
               NEW meth \in Methods, GetExpired(r, k, i, meth)
        PROVE  TypeOK'
    <2>1. m[k] \in Sessions
      BY <1>2 DEF TypeOK, Types, GetExpired
    <2>2. /\ sess' \in [Sessions -> Session]
          /\ bound' \in [Ids -> TransportBinding]
          /\ \A j \in Ids : bound'[j].state = "live" <=> bound'[j].sess # None
          /\ m' \in [Keys -> Sessions \cup {None}]
      BY <1>2, <2>1, EvictType, WithoutType, StaleTransportsType DEF GetExpired
    <2>3. Request("closing", k, i, meth, m[k]) \in RequestState
      BY <2>1 DEF RequestState, Request
    <2> QED BY <1>2, <2>1, <2>2, <2>3 DEF TypeOK, Types, GetExpired, Request
  <1>3. ASSUME NEW r \in Requests, NEW k \in Keys, NEW i \in Ids \cup {None},
               NEW meth \in Methods, GetMiss(r, k, i, meth)
        PROVE  TypeOK'
    <2>1. Request("join", k, i, meth, None) \in RequestState
      BY DEF RequestState, Request
    <2> QED BY <1>3, <2>1 DEF TypeOK, Types, GetMiss, Request
  <1>4. ASSUME NEW r \in Requests, GetClosed(r) PROVE TypeOK'
    <2>1. req' \in [Requests -> RequestState]
      BY <1>4 DEF TypeOK, Types, GetClosed, RequestState
    <2> QED BY <1>4, <2>1 DEF TypeOK, Types, GetClosed
  <1>5. ASSUME NEW r \in Requests, Join(r) PROVE TypeOK'
    <2>0. req[r] \in RequestState /\ req[r].key \in Keys
      BY <1>5 DEF TypeOK, Types, Join, RequestState
    <2>1. req' \in [Requests -> RequestState] /\ req[r].key \in Keys
      <3>1. [req[r] EXCEPT !.pc = "wait"] \in RequestState
        BY <2>0 DEF RequestState
      <3>2. req' = [req EXCEPT ![r] = [req[r] EXCEPT !.pc = "wait"]]
        BY <1>5 DEF Join
      <3> QED BY <2>0, <3>1, <3>2 DEF TypeOK, Types
    <2>2. flight' \in [Keys -> Flight]
      <3>1. CASE flight[req[r].key].pc = "idle"
        BY <1>5, <2>1, <3>1 DEF TypeOK, Types, Join, Flight
      <3>2. CASE flight[req[r].key].pc # "idle"
        BY <1>5, <2>1, <3>2 DEF TypeOK, Types, Join
      <3> QED BY <3>1, <3>2
    <2>3. \A k \in Keys : flight'[k].pc \in {"closing", "put", "hung", "putclose", "return"}
                             => flight'[k].sess # None
      BY <1>5, <2>1 DEF TypeOK, Types, Join, Flight
    <2>4. \A q \in Requests :
             /\ req'[q].pc # "idle" => req'[q].key # None
             /\ req'[q].pc \in {"closing", "check", "serve"} => req'[q].sess # None
      BY <1>5 DEF TypeOK, Types, Join, RequestState
    <2> QED BY <1>5, <2>1, <2>2, <2>3, <2>4 DEF TypeOK, Types, Join
  <1>6. ASSUME NEW k \in Keys, FlightRecheck(k) PROVE TypeOK'
    <2>1. CASE m[k] = None
      <3>1. flight' = [flight EXCEPT ![k].pc = "resolve"] /\ UNCHANGED <<m, sess, bound>>
        BY <1>6, <2>1 DEF FlightRecheck
      <3>2. flight' \in [Keys -> Flight]
        BY <3>1 DEF TypeOK, Types, Flight
      <3> QED BY <1>6, <3>1, <3>2 DEF TypeOK, Types, FlightRecheck
    <2>2. CASE m[k] # None /\ Expired(m[k])
      <3>1. m[k] \in Sessions
        BY <2>2 DEF TypeOK, Types
      <3>2. flight' = [flight EXCEPT ![k] = [pc |-> "closing", sess |-> m[k]]]
        BY <1>6, <2>2 DEF FlightRecheck
      <3>3. /\ sess' \in [Sessions -> Session]
            /\ bound' \in [Ids -> TransportBinding]
            /\ \A j \in Ids : bound'[j].state = "live" <=> bound'[j].sess # None
            /\ m' \in [Keys -> Sessions \cup {None}]
        BY <1>6, <2>2, <3>1, EvictType, WithoutType, StaleTransportsType DEF FlightRecheck
      <3>4. [pc |-> "closing", sess |-> m[k]] \in Flight
        BY <3>1 DEF Flight
      <3> QED BY <1>6, <3>1, <3>2, <3>3, <3>4 DEF TypeOK, Types, FlightRecheck
    <2>3. CASE m[k] # None /\ ~Expired(m[k])
      <3>1. m[k] \in Sessions
        BY <2>3 DEF TypeOK, Types
      <3>2. /\ sess' = [sess EXCEPT ![m[k]].idleAge = 0]
            /\ flight' = [flight EXCEPT ![k] = [pc |-> "return", sess |-> m[k]]]
            /\ UNCHANGED <<m, bound>>
        BY <1>6, <2>3 DEF FlightRecheck
      <3>3. sess' \in [Sessions -> Session]
        BY <3>1, <3>2 DEF TypeOK, Types, Session
      <3>4. [pc |-> "return", sess |-> m[k]] \in Flight
        BY <3>1 DEF Flight
      <3> QED BY <1>6, <3>1, <3>2, <3>3, <3>4 DEF TypeOK, Types, FlightRecheck
    <2> QED BY <2>1, <2>2, <2>3
  <1>7. ASSUME NEW k \in Keys, FlightClosed(k) PROVE TypeOK'
    <2>1. [pc |-> "resolve", sess |-> None] \in Flight
      BY DEF Flight
    <2> QED BY <1>7, <2>1 DEF TypeOK, Types, FlightClosed
  <1>8. ASSUME NEW k \in Keys, NEW s \in Sessions, BuildResolve(k, s) PROVE TypeOK'
    <2>1. [FreeSession EXCEPT !.state = "open", !.key = k] \in Session
      BY DEF FreeSession, Session
    <2>2. [pc |-> "put", sess |-> s] \in Flight
      BY DEF Flight
    <2> QED BY <1>8, <2>1, <2>2 DEF TypeOK, Types, BuildResolve
  <1>9. ASSUME NEW k \in Keys, BuildFail(k) PROVE TypeOK'
    BY <1>9 DEF TypeOK, Types, BuildFail, NoFlight, Idle
  <1>30. ASSUME NEW k \in Keys, BuildHangs(k) PROVE TypeOK'
    <2>1. flight' \in [Keys -> Flight] /\ flight[k].sess # None
      BY <1>30 DEF TypeOK, Types, BuildHangs, Flight
    <2> QED BY <1>30, <2>1 DEF TypeOK, Types, BuildHangs
  <1>10. ASSUME NEW k \in Keys, Put(k) PROVE TypeOK'
    <2> DEFINE s == flight[k].sess
    <2>1. s \in Sessions
      BY <1>10 DEF TypeOK, Types, Put, Flight
    <2>2. CASE closed
      <3>1. /\ bound' = StaleTransports({s}, All("explicit_close"))
            /\ sess' = Evict({s})
            /\ flight' = [flight EXCEPT ![k].pc = "putclose"]
            /\ UNCHANGED <<m, closed, minted, req, reaper>>
        BY <1>10, <2>2 DEF Put
      <3>2. /\ sess' \in [Sessions -> Session]
            /\ bound' \in [Ids -> TransportBinding]
            /\ \A j \in Ids : bound'[j].state = "live" <=> bound'[j].sess # None
        BY <2>1, <3>1, EvictType, StaleTransportsType
      <3>3. flight' \in [Keys -> Flight]
        BY <3>1 DEF TypeOK, Types, Flight
      <3>4. \A j \in Keys : flight'[j].sess = flight[j].sess
        BY <3>1 DEF TypeOK, Types, Flight
      <3>5. Types'
        BY <3>1, <3>2, <3>3 DEF TypeOK, Types
      <3> QED BY <2>1, <3>1, <3>2, <3>4, <3>5 DEF TypeOK, Types
    <2>3. CASE ~closed
      <3>1. /\ sess' = [sess EXCEPT ![s].builtAge = 0, ![s].idleAge = 0, ![s].key = k]
            /\ m' = [m EXCEPT ![k] = s]
            /\ flight' = [flight EXCEPT ![k].pc = "return"]
            /\ UNCHANGED <<closed, bound, minted, req, reaper>>
        BY <1>10, <2>3 DEF Put
      <3>2. sess' \in [Sessions -> Session]
        <4>1. sess' = [sess EXCEPT ![s] = [sess[s] EXCEPT !.builtAge = 0, !.idleAge = 0, !.key = k]]
          BY <2>1, <3>1 DEF TypeOK, Types
        <4>2. [sess[s] EXCEPT !.builtAge = 0, !.idleAge = 0, !.key = k] \in Session
          BY <2>1 DEF TypeOK, Types, Session
        <4> QED BY <4>1, <4>2 DEF TypeOK, Types
      <3>3. flight' \in [Keys -> Flight]
        BY <3>1 DEF TypeOK, Types, Flight
      <3>4. \A j \in Keys : flight'[j].sess = flight[j].sess
        BY <3>1 DEF TypeOK, Types, Flight
      <3>5. \A j \in Keys : flight'[j].pc \in {"closing", "put", "hung", "putclose", "return"}
                              => flight'[j].sess # None
        <4>1. \A j \in Keys \ {k} : flight'[j] = flight[j]
          BY <3>1 DEF TypeOK, Types
        <4> QED BY <2>1, <3>4, <4>1, KeyAssumption DEF TypeOK
      <3>6. Types'
        BY <3>1, <3>2, <3>3, <2>1 DEF TypeOK, Types
      <3>7. /\ \A r \in Requests :
                  /\ req'[r].pc # "idle" => req'[r].key # None
                  /\ req'[r].pc \in {"closing", "check", "serve"} => req'[r].sess # None
            /\ \A i \in Ids : bound'[i].state = "live" <=> bound'[i].sess # None
        BY <3>1, Zenon DEF TypeOK
      <3> QED BY <3>5, <3>6, <3>7, Zenon DEF TypeOK
    <2> QED BY <2>2, <2>3
  <1>11. ASSUME NEW k \in Keys, PutClosed(k) PROVE TypeOK'
    <2>1. flight' \in [Keys -> Flight] /\ flight[k].sess # None
      <3>1. flight[k].pc = "putclose" /\ flight' = [flight EXCEPT ![k].pc = "return"]
        BY <1>11 DEF PutClosed
      <3>2. flight' \in [Keys -> Flight]
        BY <3>1 DEF TypeOK, Types, Flight
      <3>3. flight[k].sess # None
        BY <3>1 DEF TypeOK
      <3> QED BY <3>2, <3>3
    <2> QED BY <1>11, <2>1 DEF TypeOK, Types, PutClosed
  <1>12. ASSUME NEW k \in Keys, FlightReturn(k) PROVE TypeOK'
    <2>1. flight[k].sess \in Sessions
      BY <1>12 DEF TypeOK, Types, FlightReturn, Flight
    <2>2. ASSUME NEW r \in Requests
          PROVE  /\ req'[r] \in RequestState
                 /\ req'[r].pc # "idle" => req'[r].key # None
                 /\ req'[r].pc \in {"closing", "check", "serve"} => req'[r].sess # None
      <3>1. req[r] \in RequestState
        BY DEF TypeOK, Types
      <3> QED BY <1>12, <2>1, <3>1 DEF TypeOK, FlightReturn, RequestState
    <2>3. req' \in [Requests -> RequestState]
      BY <1>12, <2>2 DEF FlightReturn
    <2> QED BY <1>12, <2>2, <2>3 DEF TypeOK, Types, FlightReturn, NoFlight
  <1>13. ASSUME NEW r \in Requests, CheckPass(r) PROVE TypeOK'
    <2>1. req' \in [Requests -> RequestState] /\ req[r].sess # None /\ req[r].key # None
      BY <1>13 DEF TypeOK, Types, CheckPass, RequestState
    <2> QED BY <1>13, <2>1 DEF TypeOK, Types, CheckPass
  <1>14. ASSUME NEW r \in Requests, CheckReject(r) PROVE TypeOK'
    BY <1>14 DEF TypeOK, Types, CheckReject, Idle
  <1>15. ASSUME NEW r \in Requests, NEW i \in Ids, ServeInitialize(r, i) PROVE TypeOK'
    <2> DEFINE s == req[r].sess
    <2>1. s \in Sessions
      BY <1>15 DEF TypeOK, Types, ServeInitialize, RequestState
    <2>2. CASE closed \/ bound[i].state # "none"
      BY <1>15, <2>1, <2>2 DEF TypeOK, Types, ServeInitialize, Idle
    <2>3. CASE ~(closed \/ bound[i].state # "none")
      <3>1. /\ bound' = [bound EXCEPT ![i] = [Unbound EXCEPT !.state = "live", !.sess = s]]
            /\ sess' = [sess EXCEPT ![s].transportIDs = @ \cup {i}]
        BY <1>15, <2>3 DEF ServeInitialize
      <3>2. LET b == [Unbound EXCEPT !.state = "live", !.sess = s] IN
            b \in TransportBinding /\ b.state = "live" /\ b.sess # None
        BY <2>1 DEF Unbound, TransportBinding
      <3>3. sess' \in [Sessions -> Session]
        BY <2>1, <3>1 DEF TypeOK, Types, Session
      <3> QED BY <1>15, <2>1, <3>1, <3>2, <3>3 DEF TypeOK, Types, ServeInitialize, Idle
    <2> QED BY <2>2, <2>3
  <1>16. ASSUME NEW r \in Requests, ServeDone(r) PROVE TypeOK'
    BY <1>16 DEF TypeOK, Types, ServeDone, Idle
  <1>17. ASSUME NEW r \in Requests, ServeDirty(r) PROVE TypeOK'
    <2> DEFINE s == minted[req[r].id]
    <2>1. sess' = [sess EXCEPT ![s].dirty = (@ \/ s \in Cached)]
      BY <1>17 DEF ServeDirty
    <2>2. sess' \in [Sessions -> Session]
      <3> SUFFICES ASSUME NEW x \in Sessions PROVE sess'[x] \in Session
        BY <2>1 DEF TypeOK, Types
      <3>1. sess[x] \in Session /\ sess[x].dirty \in BOOLEAN
        BY DEF TypeOK, Types, Session
      <3>2. (sess[x].dirty \/ s \in Cached) \in BOOLEAN
        BY <3>1
      <3> QED BY <2>1, <3>1, <3>2 DEF TypeOK, Types, Session
    <2> QED BY <1>17, <2>2 DEF TypeOK, Types, ServeDirty, Idle
  <1>18. ASSUME Reap PROVE TypeOK'
    <2> DEFINE V == {s \in Cached : Expired(s)}
    <2>1. V \subseteq Sessions
      OBVIOUS
    <2> HIDE DEF V
    <2>2. /\ StaleTransports(V, ReclaimCauses) \in [Ids -> TransportBinding]
          /\ \A j \in Ids : StaleTransports(V, ReclaimCauses)[j].state = "live"
                              <=> StaleTransports(V, ReclaimCauses)[j].sess # None
      BY <2>1, StaleTransportsType
    <2>3. /\ bound' = SweepTransports(StaleTransports(V, ReclaimCauses), Without(V))
          /\ sess' = Evict(V)
          /\ m' = Without(V)
          /\ reaper' = [reaper EXCEPT !.victims = V]
      BY <1>18 DEF Reap, V
    <2>4. /\ bound' \in [Ids -> TransportBinding]
          /\ \A j \in Ids : bound'[j].state = "live" <=> bound'[j].sess # None
      BY <2>2, <2>3, SweepType
    <2>5. /\ sess' \in [Sessions -> Session]
          /\ m' \in [Keys -> Sessions \cup {None}]
      BY <2>3, EvictType, WithoutType
    <2>6. reaper' \in [stopped : BOOLEAN, victims : SUBSET Sessions]
      BY <2>1, <2>3 DEF TypeOK, Types
    <2> QED BY <1>18, <2>4, <2>5, <2>6 DEF TypeOK, Types, Reap
  <1>19. ASSUME ReaperClosed \/ ReaperStop PROVE TypeOK'
    BY <1>19 DEF TypeOK, Types, ReaperClosed, ReaperStop
  <1>20. ASSUME NEW t, InvalidateTenant(t) PROVE TypeOK'
    <2>1. {s \in Cached : TenantOf[sess[s].key] = t} \subseteq Sessions
      OBVIOUS
    <2>2. /\ sess' \in [Sessions -> Session]
          /\ m' \in [Keys -> Sessions \cup {None}]
          /\ bound' \in [Ids -> TransportBinding]
          /\ \A j \in Ids : bound'[j].state = "live" <=> bound'[j].sess # None
      BY <1>20, <2>1, EvictType, WithoutType, StaleTransportsType DEF InvalidateTenant
    <2> QED BY <1>20, <2>2 DEF TypeOK, Types, InvalidateTenant
  <1>21. ASSUME CloseAll PROVE TypeOK'
    <2>1. /\ sess' \in [Sessions -> Session]
          /\ m' \in [Keys -> Sessions \cup {None}]
          /\ bound' \in [Ids -> TransportBinding]
          /\ \A j \in Ids : bound'[j].state = "live" <=> bound'[j].sess # None
      BY <1>21, EvictType, WithoutType, StaleTransportsType DEF CloseAll
    <2> QED BY <1>21, <2>1 DEF TypeOK, Types, CloseAll
  <1>22. ASSUME NEW s \in Sessions, SessionClose(s) PROVE TypeOK'
    <2>1. sess' \in [Sessions -> Session]
      BY <1>22 DEF TypeOK, Types, SessionClose, Session
    <2> QED BY <1>22, <2>1 DEF TypeOK, Types, SessionClose
  <1>23. ASSUME Tick PROVE TypeOK'
    <2>1. sess' \in [Sessions -> Session]
      <3> SUFFICES ASSUME NEW s \in Sessions PROVE sess'[s] \in Session
        BY <1>23 DEF Tick
      <3>1. sess[s] \in Session
        BY DEF TypeOK, Types
      <3>2. /\ Older(sess[s].builtAge) \in Age
            /\ Older(sess[s].idleAge) \in Age
            /\ Older(sess[s].readAge) \in Age
        BY <3>1, OlderType DEF Session
      <3> QED BY <1>23, <3>1, <3>2 DEF Tick, Session
    <2>2. ASSUME NEW i \in Ids
          PROVE  bound'[i] \in TransportBinding /\ (bound'[i].state = "live" <=> bound'[i].sess # None)
      <3>1. bound[i] \in TransportBinding /\ (bound[i].state = "live" <=> bound[i].sess # None)
        BY DEF TypeOK, Types
      <3>2. Older(bound[i].staleAge) \in Age
        BY <3>1, OlderType DEF TransportBinding
      <3> QED BY <1>23, <3>1, <3>2 DEF Tick, TransportBinding
    <2>3. bound' \in [Ids -> TransportBinding]
      BY <1>23, <2>2 DEF Tick
    <2> QED BY <1>23, <2>1, <2>2, <2>3 DEF TypeOK, Types, Tick
  <1>24. CASE UNCHANGED vars
    BY <1>24 DEF TypeOK, Types, vars
  <1> QED
    BY <1>1, <1>2, <1>3, <1>4, <1>5, <1>6, <1>7, <1>8, <1>9, <1>10, <1>11, <1>12, <1>13,
       <1>14, <1>15, <1>16, <1>17, <1>18, <1>19, <1>20, <1>21, <1>22, <1>23, <1>24,
       <1>30
    DEF Next, RequestStep, FlightStep

(* Every variable of the cache always has its type: a flight that holds a   *)
(* session, a request past getOrBuild and a live binding all name a real    *)
(* session.                                                                 *)
THEOREM TypeCorrect == Spec => []TypeOK
  <1> QED BY InitType, NextType, PTL DEF Spec

-----------------------------------------------------------------------------
(* Ownership of sessions                                                    *)
(*                                                                          *)
(* NoLeakedSession and CachedIsOpen are not inductive: put would leak the   *)
(* entry it overwrites. The strengthening says why there is none: from the  *)
(* moment a flight has seen the cache empty until its put, nobody else      *)
(* fills that key.                                                          *)

FlightOwnsKey ==
    \A k \in Keys :
        /\ flight[k].pc \in {"closing", "resolve", "put", "hung", "putclose"} => m[k] = None
        /\ flight[k].pc \in {"put", "hung"} => /\ sess[flight[k].sess].state = "open"
                                   /\ sess[flight[k].sess].key = k

OwnInv == CachedIsOpen /\ NoLeakedSession /\ FlightOwnsKey

(* Steps that touch neither the cache map nor a session's state and key,    *)
(* and that move a flight only outside its build, keep ownership.           *)
LEMMA OwnQuiet ==
    ASSUME TypeOK, TypeOK', OwnInv, m' = m,
           \A s \in Sessions : sess'[s].state = sess[s].state /\ sess'[s].key = sess[s].key,
           \A k \in Keys :
              \/ flight'[k] = flight[k]
              \/ flight[k].pc \notin {"put", "hung"} /\ flight'[k].pc \in {"idle", "recheck", "return"}
              \/ flight[k].pc \notin {"put", "hung"} /\ m[k] = None /\ flight'[k].pc = "resolve"
              \/ /\ flight[k].pc = "put" /\ flight'[k].pc = "hung"
                 /\ flight'[k].sess = flight[k].sess
    PROVE  OwnInv'
  <1>1. CachedIsOpen'
    BY DEF OwnInv, CachedIsOpen, TypeOK, Types
  <1>2. NoLeakedSession'
    <2> SUFFICES ASSUME NEW s \in Sessions, sess'[s].state = "open"
                 PROVE  \/ \E k \in Keys : m'[k] = s
                        \/ \E k \in Keys : flight'[k].pc \in {"put", "hung"} /\ flight'[k].sess = s
      BY DEF NoLeakedSession
    <2> QED BY DEF OwnInv, NoLeakedSession
  <1>3. FlightOwnsKey'
    <2> SUFFICES ASSUME NEW k \in Keys
                 PROVE  /\ flight'[k].pc \in {"closing", "resolve", "put", "hung", "putclose"} => m'[k] = None
                        /\ flight'[k].pc \in {"put", "hung"} => /\ sess'[flight'[k].sess].state = "open"
                                                    /\ sess'[flight'[k].sess].key = k
      BY DEF FlightOwnsKey
    <2>1. flight[k].pc \in {"put", "hung"} => flight[k].sess \in Sessions
      BY DEF TypeOK, Types, Flight
    <2> QED BY <2>1 DEF OwnInv, FlightOwnsKey
  <1> QED BY <1>1, <1>2, <1>3 DEF OwnInv

(* Evicting a set of cached sessions keeps ownership: no build is among     *)
(* them, and every other entry is untouched.                                *)
LEMMA OwnEvict ==
    ASSUME TypeOK, TypeOK', OwnInv, NEW V, V \subseteq Cached,
           m' = Without(V), sess' = Evict(V),
           \A k \in Keys :
              \/ flight'[k] = flight[k]
              \/ flight[k].pc \notin {"put", "hung"} /\ flight'[k].pc = "closing" /\ m'[k] = None
    PROVE  OwnInv'
  <1>1. \A k \in Keys : m[k] \in Sessions \cup {None} /\ (m[k] # None => m[k] \in Sessions)
    BY DEF TypeOK, Types
  <1>2. ASSUME NEW s \in Sessions, s \notin V PROVE sess'[s] = sess[s]
    BY <1>2 DEF Evict
  <1>3. ASSUME NEW s \in Sessions, s \in V PROVE sess'[s].state # "open"
    BY <1>3 DEF Evict, FreeSession
  <1>4. None \notin V
    BY KeyAssumption, CachedType
  <1>5. ASSUME NEW k \in Keys, m'[k] # None PROVE m'[k] = m[k] /\ m[k] \notin V
    BY <1>5, <1>4 DEF Without
  <1>6. ASSUME NEW k \in Keys, m[k] = None PROVE m'[k] = None
    BY <1>6 DEF Without
  <1>7. CachedIsOpen'
    BY <1>1, <1>2, <1>5 DEF OwnInv, CachedIsOpen
  <1>8. ASSUME NEW k \in Keys, flight[k].pc \in {"put", "hung"}
        PROVE  flight[k].sess \in Sessions /\ flight[k].sess \notin V
    <2>1. flight[k].sess \in Sessions
      BY <1>8 DEF TypeOK, Types, Flight
    <2>2. m[k] = None /\ sess[flight[k].sess].key = k
      BY <1>8 DEF OwnInv, FlightOwnsKey
    <2>3. ASSUME flight[k].sess \in V PROVE FALSE
      <3>1. PICK j \in Keys : m[j] = flight[k].sess
        BY <2>3 DEF Cached
      <3>2. m[j] # None
        BY <2>1, <3>1, KeyAssumption
      <3>3. sess[m[j]].key = j
        BY <3>2 DEF OwnInv, CachedIsOpen
      <3> QED BY <2>2, <3>1, <3>2, <3>3
    <2> QED BY <2>1, <2>3
  <1>9. NoLeakedSession'
    <2> SUFFICES ASSUME NEW s \in Sessions, sess'[s].state = "open"
                 PROVE  \/ \E k \in Keys : m'[k] = s
                        \/ \E k \in Keys : flight'[k].pc \in {"put", "hung"} /\ flight'[k].sess = s
      BY DEF NoLeakedSession
    <2>1. s \notin V /\ sess[s].state = "open"
      BY <1>2, <1>3
    <2>2. CASE \E k \in Keys : m[k] = s
      BY <2>1, <2>2 DEF Without
    <2>3. CASE \E k \in Keys : flight[k].pc \in {"put", "hung"} /\ flight[k].sess = s
      BY <2>3
    <2> QED BY <2>1, <2>2, <2>3 DEF OwnInv, NoLeakedSession
  <1>10. FlightOwnsKey'
    <2> SUFFICES ASSUME NEW k \in Keys
                 PROVE  /\ flight'[k].pc \in {"closing", "resolve", "put", "hung", "putclose"} => m'[k] = None
                        /\ flight'[k].pc \in {"put", "hung"} => /\ sess'[flight'[k].sess].state = "open"
                                                    /\ sess'[flight'[k].sess].key = k
      BY DEF FlightOwnsKey
    <2>1. CASE flight'[k] = flight[k]
      BY <1>2, <1>6, <1>8, <2>1 DEF OwnInv, FlightOwnsKey
    <2>2. CASE flight'[k].pc = "closing" /\ m'[k] = None
      BY <2>2
    <2> QED BY <2>1, <2>2
  <1> QED BY <1>7, <1>9, <1>10 DEF OwnInv

(* At the start nothing is open. *)
LEMMA InitOwn == Init => OwnInv
  BY DEF Init, OwnInv, CachedIsOpen, NoLeakedSession, FlightOwnsKey, FreeSession, NoFlight

(* The step lemma: every action keeps every session owned. *)
LEMMA NextOwn == TypeOK /\ TypeOK' /\ OwnInv /\ [Next]_vars => OwnInv'
  <1> SUFFICES ASSUME TypeOK, TypeOK', OwnInv, [Next]_vars PROVE OwnInv'
    OBVIOUS
  <1> USE DEF TypeOK, Types
  <1>1. ASSUME NEW r \in Requests, NEW k \in Keys, NEW i \in Ids \cup {None},
               NEW meth \in Methods, GetHit(r, k, i, meth)
        PROVE  OwnInv'
    <2>1. \A s \in Sessions : sess'[s].state = sess[s].state /\ sess'[s].key = sess[s].key
      BY <1>1 DEF GetHit, Session
    <2> QED BY <1>1, <2>1, OwnQuiet DEF GetHit
  <1>2. ASSUME NEW r \in Requests, NEW k \in Keys, NEW i \in Ids \cup {None},
               NEW meth \in Methods, GetExpired(r, k, i, meth)
        PROVE  OwnInv'
    <2> DEFINE V == {m[k]}
    <2>1. V \subseteq Cached
      BY <1>2 DEF GetExpired, Cached
    <2>2. m' = Without(V) /\ sess' = Evict(V) /\ flight' = flight
      BY <1>2 DEF GetExpired
    <2> HIDE DEF V
    <2> QED BY <2>1, <2>2, OwnEvict
  <1>3. ASSUME NEW r \in Requests, NEW k \in Keys, NEW i \in Ids \cup {None},
               NEW meth \in Methods, GetMiss(r, k, i, meth)
        PROVE  OwnInv'
    BY <1>3, OwnQuiet DEF GetMiss
  <1>4. ASSUME NEW r \in Requests,
               GetClosed(r) \/ CheckPass(r) \/ CheckReject(r) \/ ServeDone(r)
        PROVE  OwnInv'
    BY <1>4, OwnQuiet DEF GetClosed, CheckPass, CheckReject, ServeDone
  <1>5. ASSUME NEW r \in Requests, Join(r) PROVE OwnInv'
    <2>1. \A k \in Keys : flight'[k] = flight[k]
                            \/ (flight[k].pc = "idle" /\ flight'[k].pc = "recheck")
      <3> SUFFICES ASSUME NEW k \in Keys
                   PROVE  flight'[k] = flight[k]
                            \/ (flight[k].pc = "idle" /\ flight'[k].pc = "recheck")
        OBVIOUS
      <3>1. flight[k] \in Flight
        OBVIOUS
      <3>2. CASE flight[req[r].key].pc = "idle"
        <4>1. flight' = [flight EXCEPT ![req[r].key].pc = "recheck"]
          BY <1>5, <3>2 DEF Join
        <4>2. CASE k = req[r].key
          <5>1. flight'[k] = [flight[k] EXCEPT !.pc = "recheck"]
            BY <4>1, <4>2
          <5> QED BY <3>1, <3>2, <4>2, <5>1 DEF Flight
        <4>3. CASE k # req[r].key
          <5>1. flight'[k] = flight[k]
            BY <4>1, <4>3
          <5> QED BY <5>1, Zenon
        <4> QED BY <4>2, <4>3, Zenon
      <3>3. CASE flight[req[r].key].pc # "idle"
        <4>1. flight' = flight
          BY <1>5, <3>3 DEF Join
        <4>2. flight'[k] = flight[k]
          BY <4>1, Zenon
        <4> QED BY <4>2, Zenon
      <3> QED BY <3>2, <3>3, Zenon
    <2> QED BY <1>5, <2>1, OwnQuiet DEF Join
  <1>6. ASSUME NEW k \in Keys, FlightRecheck(k) PROVE OwnInv'
    <2>1. CASE m[k] = None
      <3>1. flight' = [flight EXCEPT ![k].pc = "resolve"] /\ UNCHANGED <<m, sess>>
        BY <1>6, <2>1 DEF FlightRecheck
      <3>2. flight'[k].pc = "resolve" /\ \A j \in Keys \ {k} : flight'[j] = flight[j]
        BY <3>1 DEF Flight
      <3> QED BY <1>6, <2>1, <3>1, <3>2, OwnQuiet DEF FlightRecheck
    <2>2. CASE m[k] # None /\ Expired(m[k])
      <3> DEFINE V == {m[k]}
      <3>1. /\ flight' = [flight EXCEPT ![k] = [pc |-> "closing", sess |-> m[k]]]
            /\ flight[k].pc = "recheck"
            /\ m' = Without(V)
            /\ sess' = Evict(V)
        BY <1>6, <2>2 DEF FlightRecheck
      <3>2. V \subseteq Cached /\ m'[k] = None
        BY <2>2, <3>1 DEF Cached, Without
      <3>3. \A j \in Keys :
               \/ flight'[j] = flight[j]
               \/ flight[j].pc \notin {"put", "hung"} /\ flight'[j].pc = "closing" /\ m'[j] = None
        BY <3>1, <3>2
      <3> HIDE DEF V
      <3> QED BY <3>1, <3>2, <3>3, OwnEvict
    <2>3. CASE m[k] # None /\ ~Expired(m[k])
      <3>1. /\ sess' = [sess EXCEPT ![m[k]].idleAge = 0]
            /\ flight' = [flight EXCEPT ![k] = [pc |-> "return", sess |-> m[k]]]
            /\ UNCHANGED m
        BY <1>6, <2>3 DEF FlightRecheck
      <3>2. \A s \in Sessions : sess'[s].state = sess[s].state /\ sess'[s].key = sess[s].key
        BY <3>1 DEF Session
      <3> QED BY <1>6, <3>1, <3>2, OwnQuiet DEF FlightRecheck
    <2> QED BY <2>1, <2>2, <2>3
  <1>7. ASSUME NEW k \in Keys, FlightClosed(k) PROVE OwnInv'
    <2>1. m[k] = None
      BY <1>7 DEF FlightClosed, OwnInv, FlightOwnsKey
    <2> QED BY <1>7, <2>1, OwnQuiet DEF FlightClosed
  <1>8. ASSUME NEW k \in Keys, NEW s \in Sessions, BuildResolve(k, s) PROVE OwnInv'
    <2>1. /\ sess' = [sess EXCEPT ![s] = [FreeSession EXCEPT !.state = "open", !.key = k]]
          /\ flight' = [flight EXCEPT ![k] = [pc |-> "put", sess |-> s]]
          /\ m' = m /\ sess[s].state = "free" /\ m[k] = None
      BY <1>8 DEF BuildResolve, OwnInv, FlightOwnsKey
    <2>2. sess'[s].state = "open" /\ sess'[s].key = k
      BY <2>1 DEF FreeSession
    <2>3. \A x \in Sessions \ {s} : sess'[x] = sess[x]
      BY <2>1
    <2>4. CachedIsOpen'
      BY <2>1, <2>3 DEF OwnInv, CachedIsOpen
    <2>5. NoLeakedSession'
      <3> SUFFICES ASSUME NEW x \in Sessions, sess'[x].state = "open"
                   PROVE  \/ \E j \in Keys : m'[j] = x
                          \/ \E j \in Keys : flight'[j].pc \in {"put", "hung"} /\ flight'[j].sess = x
        BY DEF NoLeakedSession
      <3>1. CASE x = s
        BY <2>1, <3>1
      <3>2. CASE x # s
        <4>1. sess[x].state = "open"
          BY <2>3, <3>2
        <4>2. CASE \E j \in Keys : m[j] = x
          BY <2>1, <4>2
        <4>3. CASE \E j \in Keys : flight[j].pc \in {"put", "hung"} /\ flight[j].sess = x
          BY <1>8, <2>1, <4>3 DEF BuildResolve
        <4> QED BY <4>1, <4>2, <4>3 DEF OwnInv, NoLeakedSession
      <3> QED BY <3>1, <3>2
    <2>6. FlightOwnsKey'
      <3> SUFFICES ASSUME NEW j \in Keys
                   PROVE  /\ flight'[j].pc \in {"closing", "resolve", "put", "hung", "putclose"} => m'[j] = None
                          /\ flight'[j].pc \in {"put", "hung"} => /\ sess'[flight'[j].sess].state = "open"
                                                      /\ sess'[flight'[j].sess].key = j
        BY DEF FlightOwnsKey
      <3>1. CASE j = k
        BY <2>1, <2>2, <3>1
      <3>2. CASE j # k
        <4>1. flight'[j] = flight[j]
          BY <2>1, <3>2
        <4>2. flight[j].pc \in {"put", "hung"} => flight[j].sess \in Sessions \ {s}
          BY <2>1 DEF OwnInv, FlightOwnsKey, Flight
        <4> QED BY <2>1, <2>3, <4>1, <4>2 DEF OwnInv, FlightOwnsKey
      <3> QED BY <3>1, <3>2
    <2> QED BY <2>4, <2>5, <2>6 DEF OwnInv
  <1>9. ASSUME NEW k \in Keys, BuildFail(k) PROVE OwnInv'
    BY <1>9, OwnQuiet DEF BuildFail, NoFlight
  <1>22. ASSUME NEW k \in Keys, BuildHangs(k) PROVE OwnInv'
    <2>1. /\ flight[k].pc = "put" /\ flight'[k].pc = "hung" /\ flight'[k].sess = flight[k].sess
          /\ \A j \in Keys \ {k} : flight'[j] = flight[j]
      BY <1>22 DEF BuildHangs, Flight
    <2> QED BY <1>22, <2>1, OwnQuiet DEF BuildHangs
  <1>10. ASSUME NEW k \in Keys, Put(k) PROVE OwnInv'
    <2> DEFINE s == flight[k].sess
    <2>1. s \in Sessions /\ s # None /\ m[k] = None /\ sess[s].key = k /\ sess[s].state = "open"
      BY <1>10, KeyAssumption DEF Put, Flight, OwnInv, FlightOwnsKey
    <2>2. \A j \in Keys : m[j] # s
      BY <2>1 DEF OwnInv, CachedIsOpen
    <2>3. \A j \in Keys \ {k} : flight[j].pc \in {"put", "hung"} => flight[j].sess \in Sessions \ {s}
      BY <2>1 DEF OwnInv, FlightOwnsKey, Flight
    <2>4. /\ \A j \in Keys \ {k} : flight'[j] = flight[j]
          /\ flight'[k].pc \in {"putclose", "return"}
          /\ closed => flight'[k].pc = "putclose"
          /\ ~closed => flight'[k].pc = "return"
      BY <1>10 DEF Put, Flight
    <2>5. \A x \in Sessions \ {s} : sess'[x] = sess[x]
      BY <1>10 DEF Put, Evict
    <2>6. CASE closed
      <3>1. m' = m /\ sess' = Evict({s})
        BY <1>10, <2>6 DEF Put
      <3>2. sess'[s].state # "open"
        BY <2>1, <3>1 DEF Evict, FreeSession
      <3>3. CachedIsOpen'
        <4>1. \A j \in Keys : m[j] # None => m[j] \in Sessions \ {s}
          BY <2>2
        <4>2. \A j \in Keys : m'[j] # None => sess'[m'[j]] = sess[m[j]]
          BY <2>5, <3>1, <4>1
        <4>3. ASSUME NEW j \in Keys, m'[j] # None
              PROVE  sess'[m'[j]].state = "open" /\ sess'[m'[j]].key = j
          <5>1. m[j] # None
            BY <3>1, <4>3, Zenon
          <5>2. sess[m[j]].state = "open" /\ sess[m[j]].key = j
            BY <5>1, Zenon DEF OwnInv, CachedIsOpen
          <5>3. sess'[m'[j]] = sess[m[j]]
            BY <4>2, <4>3, Zenon
          <5> QED BY <5>2, <5>3, Zenon
        <4> QED BY <4>3, Zenon DEF CachedIsOpen
      <3>4. NoLeakedSession'
        <4> SUFFICES ASSUME NEW x \in Sessions, sess'[x].state = "open"
                     PROVE  \/ \E j \in Keys : m'[j] = x
                            \/ \E j \in Keys : flight'[j].pc \in {"put", "hung"} /\ flight'[j].sess = x
          BY DEF NoLeakedSession
        <4>1. x # s /\ sess[x].state = "open"
          BY <2>5, <3>2
        <4>2. CASE \E j \in Keys : m[j] = x
          BY <3>1, <4>2
        <4>3. CASE \E j \in Keys : flight[j].pc \in {"put", "hung"} /\ flight[j].sess = x
          BY <2>4, <4>1, <4>3
        <4> QED BY <4>1, <4>2, <4>3 DEF OwnInv, NoLeakedSession
      <3>5. FlightOwnsKey'
        <4> SUFFICES ASSUME NEW j \in Keys
                     PROVE  /\ flight'[j].pc \in {"closing", "resolve", "put", "hung", "putclose"} => m'[j] = None
                            /\ flight'[j].pc \in {"put", "hung"} => /\ sess'[flight'[j].sess].state = "open"
                                                        /\ sess'[flight'[j].sess].key = j
          BY DEF FlightOwnsKey
        <4>1. CASE j = k
          BY <2>1, <2>4, <3>1, <4>1
        <4>2. CASE j # k
          <5>1. flight[j].pc \in {"put", "hung"} => sess'[flight[j].sess] = sess[flight[j].sess]
            BY <2>3, <2>5, <4>2
          <5> QED BY <2>4, <3>1, <4>2, <5>1 DEF OwnInv, FlightOwnsKey
        <4> QED BY <4>1, <4>2
      <3> QED BY <3>3, <3>4, <3>5 DEF OwnInv
    <2>7. CASE ~closed
      <3>1. /\ m' = [m EXCEPT ![k] = s]
            /\ sess' = [sess EXCEPT ![s] = [sess[s] EXCEPT !.builtAge = 0, !.idleAge = 0, !.key = k]]
        BY <1>10, <2>1, <2>7 DEF Put
      <3>2. sess'[s].state = "open" /\ sess'[s].key = k
        BY <2>1, <3>1 DEF Session
      <3>3. CachedIsOpen'
        BY <2>1, <2>2, <2>5, <3>1, <3>2 DEF OwnInv, CachedIsOpen
      <3>4. NoLeakedSession'
        <4> SUFFICES ASSUME NEW x \in Sessions, sess'[x].state = "open"
                     PROVE  \/ \E j \in Keys : m'[j] = x
                            \/ \E j \in Keys : flight'[j].pc \in {"put", "hung"} /\ flight'[j].sess = x
          BY DEF NoLeakedSession
        <4>1. CASE x = s
          BY <3>1, <4>1
        <4>2. CASE x # s
          <5>1. sess[x].state = "open"
            BY <2>5, <4>2
          <5>2. CASE \E j \in Keys : m[j] = x
            BY <2>1, <3>1, <5>2, KeyAssumption
          <5>3. CASE \E j \in Keys : flight[j].pc \in {"put", "hung"} /\ flight[j].sess = x
            BY <2>4, <4>2, <5>3
          <5> QED BY <5>1, <5>2, <5>3 DEF OwnInv, NoLeakedSession
        <4> QED BY <4>1, <4>2
      <3>5. FlightOwnsKey'
        BY <2>1, <2>3, <2>4, <2>5, <2>7, <3>1 DEF OwnInv, FlightOwnsKey
      <3> QED BY <3>3, <3>4, <3>5 DEF OwnInv
    <2> QED BY <2>6, <2>7
  <1>11. ASSUME NEW k \in Keys, PutClosed(k) PROVE OwnInv'
    <2>1. flight'[k].pc = "return" /\ flight[k].pc = "putclose"
          /\ \A j \in Keys \ {k} : flight'[j] = flight[j]
      BY <1>11 DEF PutClosed, Flight
    <2> QED BY <1>11, <2>1, OwnQuiet DEF PutClosed
  <1>12. ASSUME NEW k \in Keys, FlightReturn(k) PROVE OwnInv'
    BY <1>12, OwnQuiet DEF FlightReturn, NoFlight
  <1>13. ASSUME NEW r \in Requests, NEW i \in Ids, ServeInitialize(r, i) PROVE OwnInv'
    <2>1. \A s \in Sessions : sess'[s].state = sess[s].state /\ sess'[s].key = sess[s].key
      BY <1>13 DEF ServeInitialize, Session
    <2> QED BY <1>13, <2>1, OwnQuiet DEF ServeInitialize
  <1>14. ASSUME NEW r \in Requests, ServeDirty(r) PROVE OwnInv'
    <2>1. \A s \in Sessions : sess'[s].state = sess[s].state /\ sess'[s].key = sess[s].key
      BY <1>14 DEF ServeDirty, Session
    <2> QED BY <1>14, <2>1, OwnQuiet DEF ServeDirty
  <1>15. ASSUME Reap PROVE OwnInv'
    <2>1. {s \in Cached : Expired(s)} \subseteq Cached
      OBVIOUS
    <2> QED BY <1>15, <2>1, OwnEvict DEF Reap
  <1>16. ASSUME ReaperClosed \/ ReaperStop PROVE OwnInv'
    BY <1>16, OwnQuiet DEF ReaperClosed, ReaperStop
  <1>17. ASSUME NEW t, InvalidateTenant(t) PROVE OwnInv'
    <2>1. {s \in Cached : TenantOf[sess[s].key] = t} \subseteq Cached
      OBVIOUS
    <2> QED BY <1>17, <2>1, OwnEvict DEF InvalidateTenant
  <1>18. ASSUME CloseAll PROVE OwnInv'
    BY <1>18, OwnEvict DEF CloseAll
  <1>19. ASSUME NEW s \in Sessions, SessionClose(s) PROVE OwnInv'
    <2>1. /\ sess[s].state = "evicted" /\ sess'[s].state = "closed"
          /\ \A x \in Sessions \ {s} : sess'[x] = sess[x]
          /\ m' = m /\ flight' = flight
      BY <1>19 DEF SessionClose, Session
    <2>2. CachedIsOpen'
      BY <2>1 DEF OwnInv, CachedIsOpen
    <2>3. NoLeakedSession'
      BY <2>1 DEF OwnInv, NoLeakedSession
    <2>4. \A k \in Keys : flight[k].pc \in {"put", "hung"} => flight[k].sess \in Sessions \ {s}
      BY <2>1 DEF OwnInv, FlightOwnsKey, Flight
    <2>5. FlightOwnsKey'
      BY <2>1, <2>4 DEF OwnInv, FlightOwnsKey
    <2> QED BY <2>2, <2>3, <2>5 DEF OwnInv
  <1>20. ASSUME Tick PROVE OwnInv'
    <2>1. \A s \in Sessions : sess'[s].state = sess[s].state /\ sess'[s].key = sess[s].key
      <3> SUFFICES ASSUME NEW s \in Sessions
                   PROVE  sess'[s].state = sess[s].state /\ sess'[s].key = sess[s].key
        OBVIOUS
      <3>1. sess[s] \in Session
        OBVIOUS
      <3>2. \/ sess'[s] = [sess[s] EXCEPT !.builtAge = Older(@), !.idleAge = Older(@),
                                           !.readAge = Older(@)]
            \/ sess'[s] = [sess[s] EXCEPT !.readAge = Older(@)]
            \/ sess'[s] = sess[s]
        BY <1>20 DEF Tick
      <3> QED BY <3>1, <3>2 DEF Session
    <2> QED BY <1>20, <2>1, OwnQuiet DEF Tick
  <1>21. CASE UNCHANGED vars
    BY <1>21, OwnQuiet DEF vars
  <1> QED
    BY <1>1, <1>2, <1>3, <1>4, <1>5, <1>6, <1>7, <1>8, <1>9, <1>10, <1>11, <1>12, <1>13,
       <1>14, <1>15, <1>16, <1>17, <1>18, <1>19, <1>20, <1>21, <1>22
    DEF Next, RequestStep, FlightStep

(* Always, every open session has an owner. *)
LEMMA OwnInvariant == Spec => []OwnInv
  <1>1. TypeOK /\ OwnInv /\ [Next]_vars => (TypeOK /\ OwnInv)'
    BY NextType, NextOwn
  <1> QED BY InitType, InitOwn, <1>1, PTL DEF Spec

(* No connection set leaks: a session with open upstream connections is     *)
(* always cached, or in the hands of the build that will put it, whatever   *)
(* get, put, reap, invalidateTenant and closeAll do around it.              *)
THEOREM NoLeak == Spec => []NoLeakedSession
  <1>1. OwnInv => NoLeakedSession
    BY DEF OwnInv
  <1> QED BY OwnInvariant, <1>1, PTL

(* getOrBuild never finds a session in the cache that is being closed, or   *)
(* one that was built for another key.                                      *)
THEOREM CacheHoldsOpenSessions == Spec => []CachedIsOpen
  <1>1. OwnInv => CachedIsOpen
    BY DEF OwnInv
  <1> QED BY OwnInvariant, <1>1, PTL
-----------------------------------------------------------------------------
(* Whose server a call runs on. A session keeps the key it was built for    *)
(* until the end, an id that is bound is bound to the session that minted   *)
(* it, and a flight hands its waiters a session of their own key.           *)

FlightsOwn ==
    \A k \in Keys : flight[k].pc \in {"putclose", "return"} =>
        sess[flight[k].sess].state # "free" /\ sess[flight[k].sess].key = k

RequestsOwn ==
    \A r \in Requests : req[r].pc \in {"check", "serve"} =>
        sess[req[r].sess].state # "free" /\ sess[req[r].sess].key = req[r].key

IndexTrue == \A i \in Ids : bound[i].state = "live" => minted[i] = bound[i].sess

ServeInv == FlightsOwn /\ RequestsOwn /\ IndexTrue /\ ServedByOwnSession

(* Eviction keeps a session's key. *)
LEMMA EvictKeepsKey ==
  ASSUME TypeOK, NEW V, sess' = Evict(V), NEW s \in Sessions, sess[s].state # "free"
  PROVE  sess'[s].state # "free" /\ sess'[s].key = sess[s].key
  BY DEF Evict, FreeSession, TypeOK, Types, Session

(* A session object is never reused and never changes hands. *)
LEMMA KeyStable ==
  ASSUME TypeOK, OwnInv, [Next]_vars, NEW s \in Sessions, sess[s].state # "free"
  PROVE  sess'[s].state # "free" /\ sess'[s].key = sess[s].key
  <1>1. sess \in [Sessions -> Session] /\ sess[s] \in Session
    BY DEF TypeOK, Types
  <1>2. ASSUME NEW r \in Requests, RequestStep(r)
        PROVE  sess'[s].state # "free" /\ sess'[s].key = sess[s].key
    <2>1. ASSUME NEW k \in Keys, NEW i \in Ids \cup {None}, NEW meth \in Methods,
                 GetHit(r, k, i, meth)
          PROVE  sess'[s].state # "free" /\ sess'[s].key = sess[s].key
      BY <1>1, <2>1 DEF GetHit, Session
    <2>2. ASSUME NEW k \in Keys, NEW i \in Ids \cup {None}, NEW meth \in Methods,
                 GetExpired(r, k, i, meth)
          PROVE  sess'[s].state # "free" /\ sess'[s].key = sess[s].key
      BY <2>2, EvictKeepsKey DEF GetExpired
    <2>3. ASSUME NEW i \in Ids, ServeInitialize(r, i)
          PROVE  sess'[s].state # "free" /\ sess'[s].key = sess[s].key
      BY <1>1, <2>3 DEF ServeInitialize, Session
    <2>4. CASE ServeDirty(r)
      BY <1>1, <2>4 DEF ServeDirty, Session
    <2>5. CASE sess' = sess
      BY <2>5
    <2> QED BY <1>2, <2>1, <2>2, <2>3, <2>4, <2>5
            DEF RequestStep, GetMiss, GetClosed, Join, CheckPass, CheckReject, ServeDone
  <1>3. ASSUME NEW k \in Keys, FlightStep(k)
        PROVE  sess'[s].state # "free" /\ sess'[s].key = sess[s].key
    <2>1. CASE FlightRecheck(k)
      <3>1. \/ sess' = sess \/ sess' = Evict({m[k]})
            \/ sess' = [sess EXCEPT ![m[k]].idleAge = 0]
        BY <2>1 DEF FlightRecheck
      <3>2. CASE sess' = [sess EXCEPT ![m[k]].idleAge = 0]
        BY <1>1, <3>2 DEF Session
      <3> QED BY <3>1, <3>2, EvictKeepsKey
    <2>2. ASSUME NEW x \in Sessions, BuildResolve(k, x)
          PROVE  sess'[s].state # "free" /\ sess'[s].key = sess[s].key
      <3>1. x # s /\ sess'[s] = sess[s]
        BY <1>1, <2>2 DEF BuildResolve
      <3> QED BY <3>1
    <2>3. CASE Put(k)
      <3>1. CASE closed
        BY <2>3, <3>1, EvictKeepsKey DEF Put
      <3>2. CASE ~closed
        <4>1. PICK x : x = flight[k].sess
          OBVIOUS
        <4>2. /\ sess' = [sess EXCEPT ![x].builtAge = 0, ![x].idleAge = 0, ![x].key = k]
              /\ x = s => sess[s].key = k
          BY <2>3, <3>2, <4>1 DEF Put, OwnInv, FlightOwnsKey
        <4> QED BY <1>1, <4>2 DEF Session
      <3> QED BY <3>1, <3>2
    <2>4. CASE sess' = sess
      BY <2>4
    <2> QED BY <1>3, <2>1, <2>2, <2>3, <2>4
            DEF FlightStep, FlightClosed, BuildFail, BuildHangs, PutClosed, FlightReturn
  <1>4. CASE Reap \/ CloseAll
    BY <1>4, EvictKeepsKey DEF Reap, CloseAll
  <1>5. ASSUME NEW t, InvalidateTenant(t)
        PROVE  sess'[s].state # "free" /\ sess'[s].key = sess[s].key
    BY <1>5, EvictKeepsKey DEF InvalidateTenant
  <1>6. ASSUME NEW x \in Sessions, SessionClose(x)
        PROVE  sess'[s].state # "free" /\ sess'[s].key = sess[s].key
    BY <1>1, <1>6 DEF SessionClose, Session
  <1>7. CASE Tick
    <2>1. \/ sess'[s] = [sess[s] EXCEPT !.builtAge = Older(@), !.idleAge = Older(@),
                                         !.readAge = Older(@)]
          \/ sess'[s] = [sess[s] EXCEPT !.readAge = Older(@)]
          \/ sess'[s] = sess[s]
      BY <1>7 DEF Tick
    <2> QED BY <1>1, <2>1 DEF Session
  <1>8. CASE ReaperClosed \/ ReaperStop \/ UNCHANGED vars
    BY <1>8 DEF ReaperClosed, ReaperStop, vars
  <1> QED BY <1>2, <1>3, <1>4, <1>5, <1>6, <1>7, <1>8 DEF Next

(* What the index says of an id is what it said, or true of its session:    *)
(* staleTransportsLocked and the sweep take bindings away and make none.    *)
LEMMA StaleKeeps ==
  ASSUME NEW V, NEW cause, NEW i \in Ids, StaleTransports(V, cause)[i].state = "live"
  PROVE  StaleTransports(V, cause)[i] = bound[i]
  BY DEF StaleTransports, Tombstone

(* An id is minted once, and a live binding names the session that minted   *)
(* it.                                                                      *)
LEMMA IndexStep ==
  ASSUME TypeOK, [Next]_vars, IndexTrue, NEW i \in Ids
  PROVE  /\ minted[i] # None => minted'[i] = minted[i]
         /\ bound'[i].state = "live" => minted'[i] = bound'[i].sess
  <1> USE DEF IndexTrue
  <1>1. minted \in [Ids -> Sessions \cup {None}] /\ bound \in [Ids -> TransportBinding]
        /\ (bound[i].state = "live" => bound[i].sess # None)
    BY DEF TypeOK, Types
  <1>2. ASSUME NEW r \in Requests, NEW j \in Ids, ServeInitialize(r, j)
        PROVE  /\ minted[i] # None => minted'[i] = minted[i]
               /\ bound'[i].state = "live" => minted'[i] = bound'[i].sess
    <2>1. CASE i # j
      <3>1. minted'[i] = minted[i] /\ bound'[i] = bound[i]
        BY <1>1, <1>2, <2>1 DEF ServeInitialize
      <3> QED BY <3>1
    <2>2. CASE i = j
      <3>1. minted[i] = None /\ minted'[i] = req[r].sess /\ bound[i].state # "live"
        BY <1>1, <1>2, <2>2 DEF ServeInitialize
      <3>2. bound' = bound \/ bound'[i].sess = req[r].sess
        BY <1>1, <1>2, <2>2 DEF ServeInitialize, Unbound
      <3> QED BY <3>1, <3>2
    <2> QED BY <2>1, <2>2
  <1>3. ASSUME minted' = minted, bound'[i].state = "live" => bound'[i] = bound[i]
        PROVE  /\ minted[i] # None => minted'[i] = minted[i]
               /\ bound'[i].state = "live" => minted'[i] = bound'[i].sess
    BY <1>3
  <1>4. ASSUME minted' = minted, NEW V, NEW cause, bound' = StaleTransports(V, cause)
        PROVE  /\ minted[i] # None => minted'[i] = minted[i]
               /\ bound'[i].state = "live" => minted'[i] = bound'[i].sess
    BY <1>3, <1>4, StaleKeeps
  <1>5. ASSUME NEW r \in Requests, RequestStep(r), \A j \in Ids : ~ServeInitialize(r, j)
        PROVE  /\ minted[i] # None => minted'[i] = minted[i]
               /\ bound'[i].state = "live" => minted'[i] = bound'[i].sess
    <2>1. ASSUME NEW k \in Keys, NEW d \in Ids \cup {None}, NEW meth \in Methods,
                 GetExpired(r, k, d, meth)
          PROVE  /\ minted[i] # None => minted'[i] = minted[i]
                 /\ bound'[i].state = "live" => minted'[i] = bound'[i].sess
      BY <1>4, <2>1 DEF GetExpired
    <2> QED BY <1>3, <1>5, <2>1 DEF RequestStep, GetHit, GetMiss, GetClosed, Join, CheckPass,
                                    CheckReject, ServeDone, ServeDirty
  <1>6. ASSUME NEW k \in Keys, FlightStep(k)
        PROVE  /\ minted[i] # None => minted'[i] = minted[i]
               /\ bound'[i].state = "live" => minted'[i] = bound'[i].sess
    <2>1. minted' = minted
      BY <1>6 DEF FlightStep, FlightRecheck, FlightClosed, BuildResolve, BuildFail, Put,
                  BuildHangs, PutClosed, FlightReturn
    <2>2. \/ bound' = bound \/ bound' = StaleTransports({m[k]}, ReclaimCauses)
          \/ bound' = StaleTransports({flight[k].sess}, All("explicit_close"))
      BY <1>6 DEF FlightStep, FlightRecheck, FlightClosed, BuildResolve, BuildFail, Put,
                  BuildHangs, PutClosed, FlightReturn
    <2> QED BY <1>3, <1>4, <2>1, <2>2
  <1>7. CASE Reap
    <2>1. PICK V : bound' = SweepTransports(StaleTransports(V, ReclaimCauses), Without(V))
      BY <1>7 DEF Reap
    <2>2. PICK b : b = StaleTransports(V, ReclaimCauses)
      OBVIOUS
    <2>3. bound'[i].state = "live" => bound'[i] = b[i]
      BY <2>1, <2>2 DEF SweepTransports, Tombstone, Unbound
    <2>4. b[i].state = "live" => b[i] = bound[i]
      BY <2>2, StaleKeeps
    <2> QED BY <1>3, <1>7, <2>3, <2>4 DEF Reap
  <1>8. ASSUME NEW t, InvalidateTenant(t)
        PROVE  /\ minted[i] # None => minted'[i] = minted[i]
               /\ bound'[i].state = "live" => minted'[i] = bound'[i].sess
    BY <1>4, <1>8 DEF InvalidateTenant
  <1>9. CASE CloseAll
    BY <1>4, <1>9 DEF CloseAll
  <1>10. CASE Tick
    <2>1. bound'[i].state = "live" => bound'[i] = bound[i]
      BY <1>1, <1>10 DEF Tick, TransportBinding
    <2> QED BY <1>3, <1>10, <2>1 DEF Tick
  <1>11. CASE ReaperClosed \/ ReaperStop \/ UNCHANGED vars \/ \E s \in Sessions : SessionClose(s)
    BY <1>3, <1>11 DEF ReaperClosed, ReaperStop, vars, SessionClose
  <1> QED BY <1>2, <1>5, <1>6, <1>7, <1>8, <1>9, <1>10, <1>11 DEF Next

(* How a flight gets to a session it will hand out. *)
LEMMA FlightMoves ==
  ASSUME TypeOK, TypeOK', OwnInv, FlightsOwn, [Next]_vars, NEW k \in Keys,
         flight'[k].pc \in {"putclose", "return"}
  PROVE  /\ flight'[k].sess \in Sessions
         /\ sess[flight'[k].sess].state # "free" /\ sess[flight'[k].sess].key = k
  <1>1. flight'[k].sess \in Sessions
    BY DEF TypeOK, Types, Flight
  <1>2. flight \in [Keys -> Flight] /\ flight[k] \in Flight
    BY DEF TypeOK, Types
  <1>3. CASE flight'[k] = flight[k]
    BY <1>1, <1>3 DEF FlightsOwn
  <1>4. ASSUME NEW r \in Requests, RequestStep(r) PROVE flight'[k] = flight[k]
    <2>1. ASSUME Join(r) PROVE flight'[k] = flight[k]
      <3>1. PICK j : j = req[r].key
        OBVIOUS
      <3>2. flight' = flight \/ flight' = [flight EXCEPT ![j].pc = "recheck"]
        BY <2>1, <3>1 DEF Join
      <3>3. CASE flight' = [flight EXCEPT ![j].pc = "recheck"]
        BY <1>2, <3>3 DEF Flight
      <3> QED BY <3>2, <3>3
    <2> QED BY <1>4, <2>1 DEF RequestStep, GetHit, GetExpired, GetMiss, GetClosed, CheckPass,
                              CheckReject, ServeInitialize, ServeDone, ServeDirty
  <1>5. ASSUME NEW j \in Keys, FlightStep(j), j # k PROVE flight'[k] = flight[k]
    BY <1>2, <1>5 DEF FlightStep, FlightRecheck, FlightClosed, BuildResolve, BuildFail, Put,
                      BuildHangs, PutClosed, FlightReturn
  <1>6. CASE FlightStep(k)
    <2>1. CASE FlightRecheck(k)
      <3>1. flight'[k].sess = m[k] /\ m[k] # None
        BY <1>2, <2>1 DEF FlightRecheck, Flight
      <3> QED BY <1>1, <3>1 DEF OwnInv, CachedIsOpen
    <2>2. CASE Put(k)
      <3>1. flight'[k].sess = flight[k].sess /\ flight[k].pc = "put"
        BY <1>2, <2>2 DEF Put, Flight
      <3> QED BY <1>1, <3>1 DEF OwnInv, FlightOwnsKey
    <2>3. CASE PutClosed(k)
      <3>1. flight'[k].sess = flight[k].sess /\ flight[k].pc = "putclose"
        BY <1>2, <2>3 DEF PutClosed, Flight
      <3> QED BY <1>1, <3>1 DEF FlightsOwn
    <2>4. CASE \/ FlightClosed(k) \/ BuildFail(k) \/ BuildHangs(k) \/ FlightReturn(k)
               \/ \E s \in Sessions : BuildResolve(k, s)
      <3>1. flight'[k].pc \notin {"putclose", "return"}
        <4>1. CASE FlightClosed(k)
          BY <1>2, <4>1 DEF FlightClosed
        <4>2. CASE BuildFail(k) \/ FlightReturn(k)
          <5>1. flight' = [flight EXCEPT ![k] = NoFlight]
            BY <4>2 DEF BuildFail, FlightReturn
          <5> QED BY <1>2, <5>1 DEF NoFlight
        <4>3. ASSUME NEW s \in Sessions, BuildResolve(k, s)
              PROVE  flight'[k].pc \notin {"putclose", "return"}
          BY <1>2, <4>3 DEF BuildResolve
        <4>4. CASE BuildHangs(k)
          BY <1>2, <4>4 DEF BuildHangs, Flight
        <4> QED BY <2>4, <4>1, <4>2, <4>3, <4>4
      <3> QED BY <3>1
    <2> QED BY <1>6, <2>1, <2>2, <2>3, <2>4 DEF FlightStep
  <1>7. ASSUME \/ Reap \/ ReaperClosed \/ ReaperStop \/ CloseAll \/ Tick \/ UNCHANGED vars
               \/ \E t \in {TenantOf[j] : j \in Keys} : InvalidateTenant(t)
               \/ \E s \in Sessions : SessionClose(s)
        PROVE  flight'[k] = flight[k]
    BY <1>7 DEF Reap, ReaperClosed, ReaperStop, CloseAll, Tick, vars, InvalidateTenant, SessionClose
  <1> QED BY <1>3, <1>4, <1>5, <1>6, <1>7 DEF Next

(* How a request gets to the session it is checked against, and how it is   *)
(* admitted.                                                                *)
LEMMA RequestMoves ==
  ASSUME TypeOK, OwnInv, [Next]_vars, NEW r \in Requests
  PROVE  \/ req'[r] = req[r]
         \/ req'[r].pc \notin {"check", "serve"}
         \/ \E k \in Keys, i \in Ids \cup {None}, meth \in Methods : GetHit(r, k, i, meth)
         \/ /\ req[r].pc = "wait" /\ req'[r].pc = "check" /\ req'[r].key = req[r].key
            /\ \E k \in Keys : /\ k = req[r].key /\ flight[k].pc = "return"
                               /\ req'[r].sess = flight[k].sess
         \/ CheckPass(r)
  <1>1. req \in [Requests -> RequestState] /\ req[r] \in RequestState
    BY DEF TypeOK, Types
  <1>2. ASSUME NEW q \in Requests, RequestStep(q), q # r PROVE req'[r] = req[r]
    BY <1>1, <1>2 DEF RequestStep, GetHit, GetExpired, GetMiss, GetClosed, Join, CheckPass,
                      CheckReject, ServeInitialize, ServeDone, ServeDirty
  <1>3. CASE RequestStep(r)
    <2>1. ASSUME NEW k \in Keys, NEW i \in Ids \cup {None}, NEW meth \in Methods,
                 GetExpired(r, k, i, meth) \/ GetMiss(r, k, i, meth)
          PROVE  req'[r].pc \notin {"check", "serve"}
      BY <1>1, <2>1 DEF GetExpired, GetMiss, Request
    <2>2. ASSUME GetClosed(r) \/ Join(r) PROVE req'[r].pc \notin {"check", "serve"}
      BY <1>1, <2>2 DEF GetClosed, Join, RequestState
    <2>3. ASSUME CheckReject(r) \/ ServeDone(r) \/ ServeDirty(r) \/ \E i \in Ids : ServeInitialize(r, i)
          PROVE  req'[r].pc \notin {"check", "serve"}
      <3>1. req' = [req EXCEPT ![r] = Idle]
        BY <2>3 DEF CheckReject, ServeDone, ServeDirty, ServeInitialize
      <3> QED BY <1>1, <3>1 DEF Idle
    <2> QED BY <1>3, <2>1, <2>2, <2>3 DEF RequestStep
  <1>4. ASSUME NEW k \in Keys, FlightReturn(k)
        PROVE  \/ req'[r] = req[r]
               \/ /\ req[r].pc = "wait" /\ req'[r].pc = "check" /\ req'[r].key = req[r].key
                  /\ k = req[r].key /\ flight[k].pc = "return"
                  /\ req'[r].sess = flight[k].sess
    <2>1. CASE req[r].pc = "wait" /\ req[r].key = k
      <3>1. req'[r] = [req[r] EXCEPT !.pc = "check", !.sess = flight[k].sess]
        BY <1>4, <2>1 DEF FlightReturn
      <3> QED BY <1>1, <1>4, <2>1, <3>1 DEF FlightReturn, RequestState
    <2>2. CASE ~(req[r].pc = "wait" /\ req[r].key = k)
      BY <1>4, <2>2 DEF FlightReturn
    <2> QED BY <2>1, <2>2
  <1>5. ASSUME NEW k \in Keys, BuildFail(k)
        PROVE  req'[r] = req[r] \/ req'[r].pc \notin {"check", "serve"}
    BY <1>5 DEF BuildFail, Idle
  <1>6. ASSUME NEW k \in Keys, FlightStep(k), ~BuildFail(k), ~FlightReturn(k)
        PROVE  req'[r] = req[r]
    BY <1>6 DEF FlightStep, FlightRecheck, FlightClosed, BuildResolve, BuildHangs, Put,
                PutClosed
  <1>7. ASSUME \/ Reap \/ ReaperClosed \/ ReaperStop \/ CloseAll \/ Tick \/ UNCHANGED vars
               \/ \E t \in {TenantOf[j] : j \in Keys} : InvalidateTenant(t)
               \/ \E s \in Sessions : SessionClose(s)
        PROVE  req'[r] = req[r]
    BY <1>7 DEF Reap, ReaperClosed, ReaperStop, CloseAll, Tick, vars, InvalidateTenant, SessionClose
  <1>8. ASSUME NEW k \in Keys, FlightStep(k)
        PROVE  \/ req'[r] = req[r]
               \/ req'[r].pc \notin {"check", "serve"}
               \/ /\ req[r].pc = "wait" /\ req'[r].pc = "check" /\ req'[r].key = req[r].key
                  /\ k = req[r].key /\ flight[k].pc = "return"
                  /\ req'[r].sess = flight[k].sess
    BY <1>4, <1>5, <1>6, <1>8
  <1>9. CASE \E k \in Keys : FlightStep(k)
    BY <1>8, <1>9
  <1>10. CASE \E q \in Requests : RequestStep(q)
    BY <1>2, <1>3, <1>10
  <1> QED BY <1>7, <1>9, <1>10, Zenon DEF Next

(* At the start nobody is served. *)
LEMMA InitServe == Init => ServeInv
  <1> SUFFICES ASSUME Init PROVE ServeInv
    OBVIOUS
  <1>1. /\ \A k \in Keys : flight[k].pc = "idle"
        /\ \A r \in Requests : req[r].pc = "idle"
        /\ \A i \in Ids : bound[i].state = "none"
    BY DEF Init, NoFlight, Idle, Unbound
  <1> QED BY <1>1 DEF ServeInv, FlightsOwn, RequestsOwn, IndexTrue, ServedByOwnSession

(* Every step keeps requests, builds and the index with their own sessions. *)
LEMMA NextServe == TypeOK /\ TypeOK' /\ OwnInv /\ ServeInv /\ [Next]_vars => ServeInv'
  <1> SUFFICES ASSUME TypeOK, TypeOK', OwnInv, ServeInv, [Next]_vars PROVE ServeInv'
    OBVIOUS
  <1>1. FlightsOwn /\ RequestsOwn /\ IndexTrue /\ ServedByOwnSession
    BY DEF ServeInv
  <1>2. FlightsOwn'
    BY <1>1, FlightMoves, KeyStable DEF FlightsOwn
  <1>3. IndexTrue'
    BY <1>1, IndexStep DEF IndexTrue
  <1>4. ASSUME NEW r \in Requests, req'[r].pc \in {"check", "serve"}
        PROVE  /\ sess'[req'[r].sess].state # "free"
               /\ sess'[req'[r].sess].key = req'[r].key
    <2>1. req'[r].sess \in Sessions
      BY <1>4 DEF TypeOK, Types, RequestState
    <2>2. sess[req'[r].sess].state # "free" /\ sess[req'[r].sess].key = req'[r].key
      <3>1. CASE req'[r] = req[r]
        BY <1>1, <1>4, <3>1 DEF RequestsOwn
      <3>2. ASSUME NEW k \in Keys, NEW i \in Ids \cup {None}, NEW meth \in Methods,
                   GetHit(r, k, i, meth)
            PROVE  sess[req'[r].sess].state # "free" /\ sess[req'[r].sess].key = req'[r].key
        <4>1. req'[r].sess = m[k] /\ req'[r].key = k /\ m[k] # None
          BY <3>2 DEF GetHit, Request, TypeOK, Types
        <4> QED BY <4>1 DEF OwnInv, CachedIsOpen
      <3>3. ASSUME NEW k \in Keys, k = req[r].key, flight[k].pc = "return",
                   req'[r].sess = flight[k].sess, req'[r].key = req[r].key
            PROVE  sess[req'[r].sess].state # "free" /\ sess[req'[r].sess].key = req'[r].key
        BY <1>1, <3>3 DEF FlightsOwn
      <3>4. CASE CheckPass(r)
        <4>1. req'[r].sess = req[r].sess /\ req'[r].key = req[r].key /\ req[r].pc = "check"
          BY <3>4 DEF CheckPass, TypeOK, Types, RequestState
        <4> QED BY <1>1, <4>1 DEF RequestsOwn
      <3> QED BY <1>4, <3>1, <3>2, <3>3, <3>4, RequestMoves
    <2> QED BY <2>1, <2>2, KeyStable
  <1>5. ASSUME NEW r \in Requests, req'[r].pc = "serve", req'[r].id # None, req'[r].method = "POST"
        PROVE  minted'[req'[r].id] = req'[r].sess
    <2>1. /\ req'[r].id = req[r].id /\ req'[r].sess = req[r].sess
          /\ req[r].id \in Ids /\ minted[req[r].id] = req[r].sess
      <3>1. CASE req'[r] = req[r]
        BY <1>1, <1>5, <3>1 DEF ServedByOwnSession, TypeOK, Types, RequestState
      <3>2. CASE CheckPass(r)
        <4>1. /\ req'[r].id = req[r].id /\ req'[r].sess = req[r].sess
              /\ req'[r].method = req[r].method /\ req[r].id \in Ids
          BY <1>5, <3>2 DEF CheckPass, TypeOK, Types, RequestState
        <4>2. bound[req[r].id].state = "live" /\ bound[req[r].id].sess = req[r].sess
          BY <1>5, <3>2, <4>1 DEF CheckPass, Admitted
        <4> QED BY <1>1, <4>1, <4>2 DEF IndexTrue
      <3>3. ASSUME NEW k \in Keys, NEW i \in Ids \cup {None}, NEW meth \in Methods,
                   GetHit(r, k, i, meth)
            PROVE  FALSE
        BY <1>5, <3>3 DEF GetHit, Request, TypeOK, Types
      <3> QED BY <1>5, <3>1, <3>2, <3>3, RequestMoves
    <2>2. req'[r].sess # None
      BY <1>5 DEF TypeOK
    <2> QED BY <1>1, <2>1, <2>2, IndexStep
  <1>6. RequestsOwn'
    BY <1>4 DEF RequestsOwn
  <1>7. ServedByOwnSession'
    BY <1>4, <1>5 DEF ServedByOwnSession
  <1> QED BY <1>2, <1>3, <1>6, <1>7 DEF ServeInv

(* A call admitted on an Mcp-Session-Id runs on the server that minted the  *)
(* id, which belongs to the caller's own key (withSession, bindTransport):  *)
(* evictions, rebuilds and replayed ids never cross principals.             *)
THEOREM ServedByOwn == Spec => []ServedByOwnSession
  <1>1. /\ TypeOK /\ OwnInv /\ ServeInv /\ [Next]_vars => (TypeOK /\ OwnInv /\ ServeInv)'
    BY NextType, NextOwn, NextServe
  <1>2. Init => TypeOK /\ OwnInv /\ ServeInv
    BY InitType, InitOwn, InitServe
  <1>3. ServeInv => ServedByOwnSession
    BY DEF ServeInv
  <1> QED BY <1>1, <1>2, <1>3, PTL DEF Spec

-----------------------------------------------------------------------------
(* How old the entitlements are that a cache hit serves. They are read at   *)
(* the start of a build and builtAt is stamped at its end, so the two ages  *)
(* of a cached session differ by the length of its build.                   *)

AgeInv ==
    /\ \A k \in Keys : m[k] # None =>
          sess[m[k]].readAge <= sess[m[k]].builtAge + BuildBound
    /\ \A k \in Keys : flight[k].pc = "put" => sess[flight[k].sess].readAge <= BuildBound

(* Steps that fill no key, start no build and leave the ages alone. *)
LEMMA AgeQuiet ==
  ASSUME TypeOK, AgeInv,
         \A k \in Keys : m'[k] # None => m'[k] = m[k],
         \A k \in Keys : flight'[k].pc = "put" => flight'[k] = flight[k],
         \A k \in Keys : m'[k] # None => /\ sess'[m'[k]].readAge = sess[m'[k]].readAge
                                         /\ sess'[m'[k]].builtAge = sess[m'[k]].builtAge,
         \A k \in Keys : flight'[k].pc = "put" =>
                            sess'[flight'[k].sess].readAge = sess[flight'[k].sess].readAge
  PROVE  AgeInv'
  <1>1. ASSUME NEW k \in Keys, m'[k] # None
        PROVE  sess'[m'[k]].readAge <= sess'[m'[k]].builtAge + BuildBound
    BY <1>1 DEF AgeInv
  <1>2. ASSUME NEW k \in Keys, flight'[k].pc = "put"
        PROVE  sess'[flight'[k].sess].readAge <= BuildBound
    <2>1. flight'[k] = flight[k]
      BY <1>2
    <2>2. sess'[flight'[k].sess].readAge = sess[flight[k].sess].readAge
      BY <1>2, <2>1
    <2> QED BY <1>2, <2>1, <2>2 DEF AgeInv
  <1> QED BY <1>1, <1>2 DEF AgeInv

(* A session object keeps its ages, and no flight begins a build. *)
LEMMA AgeSame ==
  ASSUME TypeOK, TypeOK', AgeInv, m' = m,
         \A s \in Sessions : sess'[s].readAge = sess[s].readAge /\ sess'[s].builtAge = sess[s].builtAge,
         \A k \in Keys : flight'[k].pc = "put" => flight'[k] = flight[k]
  PROVE  AgeInv'
  <1>1. \A k \in Keys : /\ m'[k] # None => m'[k] \in Sessions
                        /\ flight'[k].pc = "put" => flight'[k].sess \in Sessions
    BY DEF TypeOK, Types, Flight
  <1> QED BY <1>1, AgeQuiet

(* Evicted sessions are cached no more, and none of them is being built. *)
LEMMA AgeEvict ==
  ASSUME TypeOK, TypeOK', OwnInv, AgeInv, NEW V, V \subseteq Cached,
         m' = Without(V), sess' = Evict(V),
         \A k \in Keys : flight'[k].pc = "put" => flight'[k] = flight[k]
  PROVE  AgeInv'
  <1>1. None \notin V
    BY KeyAssumption, CachedType
  <1>2. ASSUME NEW k \in Keys, m'[k] # None PROVE m'[k] = m[k] /\ m[k] \in Sessions \ V
    BY <1>1, <1>2 DEF Without, TypeOK, Types
  <1>3. ASSUME NEW k \in Keys, flight'[k].pc = "put" PROVE flight'[k].sess \in Sessions \ V
    <2>1. flight[k].pc = "put" /\ flight'[k].sess = flight[k].sess /\ flight[k].sess \in Sessions
      BY <1>3 DEF TypeOK, Types, Flight
    <2>2. m[k] = None /\ sess[flight[k].sess].key = k
      BY <2>1 DEF OwnInv, FlightOwnsKey
    <2>3. \A j \in Keys : m[j] # flight[k].sess
      BY <2>1, <2>2, KeyAssumption DEF OwnInv, CachedIsOpen
    <2> QED BY <2>1, <2>3 DEF Cached
  <1>4. \A s \in Sessions \ V : sess'[s] = sess[s]
    BY DEF Evict
  <1> QED BY <1>2, <1>3, <1>4, AgeQuiet

(* The session a build is about to put is open and of its key. *)
LEMMA BuildOwns ==
  ASSUME TypeOK, OwnInv, NEW k \in Keys, flight[k].pc = "put"
  PROVE  /\ flight[k].sess \in Sessions
         /\ sess[flight[k].sess].state = "open" /\ sess[flight[k].sess].key = k
  <1>1. flight[k].sess \in Sessions
    BY DEF TypeOK, Types, Flight
  <1> QED BY <1>1 DEF OwnInv, FlightOwnsKey

(* Every step keeps a session's entitlements no older than its age and one  *)
(* build.                                                                   *)
LEMMA NextAge == TypeOK /\ TypeOK' /\ OwnInv /\ AgeInv /\ [Next]_vars => AgeInv'
  <1> SUFFICES ASSUME TypeOK, TypeOK', OwnInv, AgeInv, [Next]_vars PROVE AgeInv'
    OBVIOUS
  <1>0. /\ sess \in [Sessions -> Session] /\ flight \in [Keys -> Flight]
        /\ m \in [Keys -> Sessions \cup {None}]
    BY DEF TypeOK, Types
  <1>1. ASSUME NEW r \in Requests, RequestStep(r) PROVE AgeInv'
    <2>1. ASSUME NEW k \in Keys, NEW i \in Ids \cup {None}, NEW meth \in Methods,
                 GetExpired(r, k, i, meth)
          PROVE  AgeInv'
      <3>1. {m[k]} \subseteq Cached
        BY <2>1 DEF GetExpired, Cached
      <3> QED BY <2>1, <3>1, AgeEvict DEF GetExpired
    <2>2. ASSUME Join(r) PROVE AgeInv'
      <3>1. PICK j : j = req[r].key
        OBVIOUS
      <3>2. flight' = flight \/ flight' = [flight EXCEPT ![j].pc = "recheck"]
        BY <2>2, <3>1 DEF Join
      <3>3. \A k \in Keys : flight'[k].pc = "put" => flight'[k] = flight[k]
        BY <1>0, <3>2 DEF Flight
      <3> QED BY <2>2, <3>3, AgeSame DEF Join
    <2>3. ASSUME NEW k \in Keys, NEW i \in Ids \cup {None}, NEW meth \in Methods,
                 GetHit(r, k, i, meth)
          PROVE  AgeInv'
      <3>1. \A s \in Sessions : sess'[s].readAge = sess[s].readAge /\ sess'[s].builtAge = sess[s].builtAge
        BY <1>0, <2>3 DEF GetHit, Session
      <3> QED BY <2>3, <3>1, AgeSame DEF GetHit
    <2>4. ASSUME ServeDirty(r) \/ \E i \in Ids : ServeInitialize(r, i) PROVE AgeInv'
      <3>1. \A s \in Sessions : sess'[s].readAge = sess[s].readAge /\ sess'[s].builtAge = sess[s].builtAge
        <4>1. CASE ServeDirty(r)
          BY <1>0, <4>1 DEF ServeDirty, Session
        <4>2. ASSUME NEW i \in Ids, ServeInitialize(r, i)
              PROVE  \A s \in Sessions : /\ sess'[s].readAge = sess[s].readAge
                                         /\ sess'[s].builtAge = sess[s].builtAge
          BY <1>0, <4>2 DEF ServeInitialize, Session
        <4> QED BY <2>4, <4>1, <4>2
      <3> QED BY <2>4, <3>1, AgeSame DEF ServeDirty, ServeInitialize
    <2>5. CASE m' = m /\ sess' = sess /\ flight' = flight
      BY <2>5, AgeSame
    <2> QED BY <1>1, <2>1, <2>2, <2>3, <2>4, <2>5
            DEF RequestStep, GetMiss, GetClosed, CheckPass, CheckReject, ServeDone
  <1>2. ASSUME NEW k \in Keys, FlightRecheck(k) PROVE AgeInv'
    <2>1. \A j \in Keys : flight'[j].pc = "put" => flight'[j] = flight[j]
      <3> SUFFICES ASSUME NEW j \in Keys, flight'[j].pc = "put" PROVE flight'[j] = flight[j]
        OBVIOUS
      <3>1. j # k
        BY <1>0, <1>2 DEF FlightRecheck, Flight
      <3> QED BY <1>0, <1>2, <3>1 DEF FlightRecheck
    <2>2. CASE m[k] = None
      BY <1>2, <2>1, <2>2, AgeSame DEF FlightRecheck
    <2>3. CASE m[k] # None /\ Expired(m[k])
      <3>1. {m[k]} \subseteq Cached
        BY <2>3 DEF Cached
      <3> QED BY <1>2, <2>1, <2>3, <3>1, AgeEvict DEF FlightRecheck
    <2>4. CASE m[k] # None /\ ~Expired(m[k])
      <3>1. sess' = [sess EXCEPT ![m[k]].idleAge = 0] /\ m' = m
        BY <1>2, <2>4 DEF FlightRecheck
      <3>2. \A s \in Sessions : sess'[s].readAge = sess[s].readAge /\ sess'[s].builtAge = sess[s].builtAge
        BY <1>0, <3>1 DEF Session
      <3> QED BY <2>1, <3>1, <3>2, AgeSame
    <2> QED BY <2>2, <2>3, <2>4
  <1>3. ASSUME NEW k \in Keys,
               \/ FlightClosed(k) \/ BuildFail(k) \/ BuildHangs(k)
               \/ PutClosed(k) \/ FlightReturn(k)
        PROVE  AgeInv'
    <2>1. /\ flight' \in {[flight EXCEPT ![k] = [pc |-> "resolve", sess |-> None]],
                          [flight EXCEPT ![k] = NoFlight], [flight EXCEPT ![k].pc = "return"],
                          [flight EXCEPT ![k].pc = "hung"]}
          /\ m' = m /\ sess' = sess
      BY <1>3 DEF FlightClosed, BuildFail, BuildHangs, PutClosed, FlightReturn
    <2>2. \A j \in Keys : flight'[j].pc = "put" => flight'[j] = flight[j]
      BY <1>0, <2>1 DEF NoFlight, Flight
    <2> QED BY <2>1, <2>2, AgeSame
  <1>4. ASSUME NEW k \in Keys, NEW s \in Sessions, BuildResolve(k, s) PROVE AgeInv'
    <2>1. /\ sess'[s].readAge = 0 /\ \A x \in Sessions \ {s} : sess'[x] = sess[x]
          /\ m' = m /\ sess[s].state = "free" /\ flight'[k].sess = s
          /\ \A j \in Keys \ {k} : flight'[j] = flight[j]
      BY <1>0, <1>4 DEF BuildResolve, FreeSession
    <2>2. ASSUME NEW j \in Keys, m'[j] # None
          PROVE  sess'[m'[j]].readAge <= sess'[m'[j]].builtAge + BuildBound
      <3>1. m'[j] = m[j] /\ m[j] \in Sessions \ {s}
        BY <1>0, <2>1, <2>2 DEF OwnInv, CachedIsOpen
      <3> QED BY <2>1, <2>2, <3>1 DEF AgeInv
    <2>3. ASSUME NEW j \in Keys, flight'[j].pc = "put"
          PROVE  sess'[flight'[j].sess].readAge <= BuildBound
      <3>1. CASE j = k
        BY <2>1, <3>1, TimeAssumption
      <3>2. CASE j # k
        <4>1. flight'[j] = flight[j] /\ flight[j].sess \in Sessions \ {s}
          <5>1. flight'[j] = flight[j] /\ flight[j].pc = "put"
            BY <2>1, <2>3, <3>2
          <5> QED BY <2>1, <5>1, BuildOwns
        <4> QED BY <2>1, <2>3, <4>1 DEF AgeInv
      <3> QED BY <3>1, <3>2
    <2> QED BY <2>2, <2>3 DEF AgeInv
  <1>5. ASSUME NEW k \in Keys, Put(k) PROVE AgeInv'
    <2>1. PICK s \in Sessions : s = flight[k].sess
      BY <1>5 DEF Put, TypeOK, Types, Flight
    <2>2. /\ \A x \in Sessions \ {s} : sess'[x] = sess[x]
          /\ \A j \in Keys \ {k} : flight'[j] = flight[j]
          /\ flight'[k].pc # "put" /\ flight[k].pc = "put"
      BY <1>0, <1>5, <2>1 DEF Put, Evict, Flight
    <2>3. m[k] = None /\ sess[s].key = k /\ sess[s].readAge <= BuildBound
      BY <2>1, <2>2 DEF OwnInv, FlightOwnsKey, AgeInv
    <2>4. \A j \in Keys : m[j] # s
      BY <2>3, KeyAssumption DEF OwnInv, CachedIsOpen
    <2>5. \A j \in Keys : flight'[j].pc = "put" => flight[j].sess \in Sessions \ {s}
      <3> SUFFICES ASSUME NEW j \in Keys, flight'[j].pc = "put"
                   PROVE  flight[j].sess \in Sessions \ {s}
        OBVIOUS
      <3>1. j # k /\ flight[j].pc = "put"
        BY <2>2
      <3> QED BY <2>3, <3>1, BuildOwns
    <2>6. ASSUME NEW j \in Keys, m'[j] # None
          PROVE  sess'[m'[j]].readAge <= sess'[m'[j]].builtAge + BuildBound
      <3>1. CASE m'[j] = m[j]
        <4>1. m[j] \in Sessions \ {s}
          BY <1>0, <2>4, <2>6, <3>1
        <4> QED BY <2>2, <2>6, <3>1, <4>1 DEF AgeInv
      <3>2. CASE m'[j] # m[j]
        <4>1. ~closed /\ m'[j] = s
          BY <1>0, <1>5, <2>1, <3>2 DEF Put
        <4>2. sess'[s].builtAge = 0 /\ sess'[s].readAge = sess[s].readAge
          BY <1>0, <1>5, <2>1, <4>1 DEF Put, Session
        <4> QED BY <2>3, <4>1, <4>2, TimeAssumption
      <3> QED BY <3>1, <3>2
    <2>7. ASSUME NEW j \in Keys, flight'[j].pc = "put"
          PROVE  sess'[flight'[j].sess].readAge <= BuildBound
      BY <2>2, <2>5, <2>7 DEF AgeInv
    <2> QED BY <2>6, <2>7 DEF AgeInv
  <1>6. CASE Reap
    <2>1. {s \in Cached : Expired(s)} \subseteq Cached
      OBVIOUS
    <2> QED BY <1>6, <2>1, AgeEvict DEF Reap
  <1>7. ASSUME NEW t, InvalidateTenant(t) PROVE AgeInv'
    <2>1. {s \in Cached : TenantOf[sess[s].key] = t} \subseteq Cached
      OBVIOUS
    <2> QED BY <1>7, <2>1, AgeEvict DEF InvalidateTenant
  <1>8. CASE CloseAll
    BY <1>8, AgeEvict DEF CloseAll
  <1>9. ASSUME NEW s \in Sessions, SessionClose(s) PROVE AgeInv'
    <2>1. \A x \in Sessions : sess'[x].readAge = sess[x].readAge /\ sess'[x].builtAge = sess[x].builtAge
      BY <1>0, <1>9 DEF SessionClose, Session
    <2> QED BY <1>9, <2>1, AgeSame DEF SessionClose
  <1>10. CASE Tick
    <2>1. m' = m /\ flight' = flight
      BY <1>10 DEF Tick
    <2>2. ASSUME NEW k \in Keys, m[k] # None
          PROVE  sess'[m[k]].readAge <= sess'[m[k]].builtAge + BuildBound
      <3>1. PICK s \in Sessions : s = m[k] /\ s \in Cached
        BY <1>0, <2>2 DEF Cached
      <3>2. sess'[s] = [sess[s] EXCEPT !.builtAge = Older(@), !.idleAge = Older(@),
                                        !.readAge = Older(@)]
        BY <1>10, <3>1 DEF Tick
      <3>3. sess[s] \in Session /\ sess[s].readAge <= sess[s].builtAge + BuildBound
        BY <1>0, <2>2, <3>1 DEF AgeInv
      <3>4. sess'[s].readAge = Older(sess[s].readAge) /\ sess'[s].builtAge = Older(sess[s].builtAge)
        BY <3>2, <3>3 DEF Session
      <3>5. sess[s].readAge \in Age /\ sess[s].builtAge \in Age
        BY <3>3 DEF Session
      <3> QED BY <3>1, <3>3, <3>4, <3>5, TimeAssumption DEF Age, Older
    <2>3. ASSUME NEW k \in Keys, flight[k].pc = "put"
          PROVE  sess'[flight[k].sess].readAge <= BuildBound
      <3>1. PICK s \in Sessions : s = flight[k].sess /\ s \in Building
        BY <2>3 DEF Building, TypeOK, Types, Flight
      <3>2. sess[s] \in Session /\ sess[s].readAge < BuildBound
        BY <1>0, <1>10, <3>1 DEF Tick
      <3>3. \/ sess'[s] = [sess[s] EXCEPT !.builtAge = Older(@), !.idleAge = Older(@),
                                           !.readAge = Older(@)]
            \/ sess'[s] = [sess[s] EXCEPT !.readAge = Older(@)]
        BY <1>10, <3>1 DEF Tick
      <3>4. sess'[s].readAge = Older(sess[s].readAge) /\ sess[s].readAge \in Age
        BY <3>2, <3>3 DEF Session
      <3> QED BY <3>1, <3>2, <3>4, TimeAssumption DEF Age, Older
    <2> QED BY <2>1, <2>2, <2>3 DEF AgeInv
  <1>11. CASE ReaperClosed \/ ReaperStop \/ UNCHANGED vars
    BY <1>11, AgeSame DEF ReaperClosed, ReaperStop, vars
  <1>12. ASSUME NEW k \in Keys, FlightStep(k) PROVE AgeInv'
    BY <1>2, <1>3, <1>4, <1>5, <1>12 DEF FlightStep
  <1> QED BY <1>1, <1>6, <1>7, <1>8, <1>9, <1>10, <1>11, <1>12 DEF Next

(* A cache hit never serves entitlements older than sessionMaxAge and the   *)
(* length of one build, whether the nudge arrives or not.                   *)
THEOREM HitsAreFresh == Spec => StalenessBounded
  <1>1. Init => AgeInv
    BY DEF Init, AgeInv, NoFlight
  <1>2. TypeOK /\ OwnInv /\ AgeInv /\ [Next]_vars => (TypeOK /\ OwnInv /\ AgeInv)'
    BY NextType, NextOwn, NextAge
  <1>3. TypeOK /\ OwnInv /\ AgeInv /\ [Next]_vars =>
          [\A r \in Requests :
              req[r].pc = "idle" /\ req'[r].pc = "check" =>
                  sess[req'[r].sess].readAge <= MaxAge + BuildBound]_vars
    <2> SUFFICES ASSUME TypeOK, OwnInv, AgeInv, [Next]_vars, NEW r \in Requests,
                        req[r].pc = "idle", req'[r].pc = "check"
                 PROVE  sess[req'[r].sess].readAge <= MaxAge + BuildBound
      OBVIOUS
    <2>1. PICK k \in Keys, i \in Ids \cup {None}, meth \in Methods : GetHit(r, k, i, meth)
      BY RequestMoves DEF CheckPass
    <2>2. req'[r].sess = m[k] /\ m[k] # None /\ ~Expired(m[k]) /\ m[k] \in Sessions
      BY <2>1 DEF GetHit, Request, TypeOK, Types
    <2>3. sess[m[k]].builtAge <= MaxAge /\ sess[m[k]].builtAge \in Nat /\ sess[m[k]].readAge \in Nat
      BY <2>2, TimeAssumption DEF Expired, ReclaimCause, TypeOK, Types, Session, Age
    <2> QED BY <2>2, <2>3, TimeAssumption DEF AgeInv
  <1> QED BY <1>1, <1>2, <1>3, InitType, InitOwn, PTL DEF Spec, StalenessBounded

=============================================================================
