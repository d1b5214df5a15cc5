--------------------------- MODULE McpSessions_proofs ---------------------------
(***************************************************************************)
(* Proofs about McpSessions, for every value of its constants: any number  *)
(* of users, clients, sessions and requests, finite or not.                *)
(***************************************************************************)
EXTENDS McpSessions, FiniteSetTheorems, TLAPS

(* Finitely many requests are under way, although their slots may be       *)
(* infinitely many: this gives the pins of a session a cardinality.        *)
Busy    == {r \in Requests : req[r] # None}
TypeInv == TypeOK /\ IsFiniteSet(Busy)

--------------------------------------------------------------------------------
(* The cardinalities the model computes are natural numbers.               *)
LEMMA PinsFinite ==
  ASSUME TypeInv, NEW s
  PROVE  /\ Pins(s) \subseteq Busy /\ IsFiniteSet(Pins(s)) /\ Cardinality(Pins(s)) \in Nat
         /\ IsFiniteSet(Cleared({s})) /\ Cardinality(Cleared({s})) \in Nat
<1>1. Pins(s) \in SUBSET Busy /\ Cleared({s}) \in SUBSET Busy
  BY DEF Pins, Cleared, Busy
<1>2. IsFiniteSet(Pins(s)) /\ IsFiniteSet(Cleared({s}))
  BY <1>1, FS_Subset DEF TypeInv
<1> QED
  BY <1>1, <1>2, FS_CardinalityType

LEMMA LessType ==
  ASSUME NEW n \in Nat, NEW k \in Nat
  PROVE  Less(n, k) \in Nat
BY DEF Less

(* At most one request more than before keeps them finite.                 *)
LEMMA BusyFinite ==
  ASSUME IsFiniteSet(Busy), NEW r, Busy' \subseteq Busy \cup {r}
  PROVE  IsFiniteSet(Busy')
<1>1. IsFiniteSet(Busy \cup {r})
  BY FS_AddElement
<1> QED
  BY <1>1, FS_Subset

(* Closing sessions, whichever they are, keeps the types.                  *)
LEMMA CloseTyping ==
  ASSUME TypeInv, NEW F \in SUBSET Sessions, NEW done \in SUBSET Requests, Close(F, done)
  PROVE  /\ state' \in [Sessions -> {"free", "reserved", "open", "closed"}]
         /\ active' \in [Sessions -> Nat]
         /\ age' \in [Sessions -> 0..IdleTicks]
         /\ timer' \in [Sessions -> BOOLEAN]
         /\ req' \in [Requests -> Request \cup {None}]
         /\ Busy' \subseteq Busy
<1>1. \A s \in Sessions : Less(active[s], Cardinality(Cleared({s}))) \in Nat
  BY PinsFinite, LessType DEF TypeInv, TypeOK
<1>2. 0 \in 0..IdleTicks
  BY IdleAssumption
<1>3. active' \in [Sessions -> Nat]
  BY <1>1 DEF TypeInv, TypeOK, Close
<1>4. age' \in [Sessions -> 0..IdleTicks]
  BY <1>2 DEF TypeInv, TypeOK, Close
<1>5. state' \in [Sessions -> {"free", "reserved", "open", "closed"}]
  BY DEF TypeInv, TypeOK, Close
<1>6. timer' \in [Sessions -> BOOLEAN]
  BY DEF TypeInv, TypeOK, Close
<1>7. req' \in [Requests -> Request \cup {None}]
  BY DEF TypeInv, TypeOK, Close
<1>8. Busy' \subseteq Busy
  BY DEF Close, Busy
<1> QED
  BY <1>3, <1>4, <1>5, <1>6, <1>7, <1>8

(* So does beginning a request,                                            *)
LEMMA BeginTyping ==
  ASSUME TypeInv, NEW r \in Requests, NEW k \in Kinds, NEW s \in Sessions, Begin(r, k, s)
  PROVE  /\ active' \in [Sessions -> Nat]
         /\ age' \in [Sessions -> 0..IdleTicks]
         /\ timer' \in [Sessions -> BOOLEAN]
         /\ req' \in [Requests -> Request \cup {None}]
         /\ Busy' \subseteq Busy \cup {r}
<1>1. 0 \in 0..IdleTicks
  BY IdleAssumption
<1>2. active' \in [Sessions -> Nat] /\ age' \in [Sessions -> 0..IdleTicks]
  BY <1>1 DEF TypeInv, TypeOK, Begin, Touch
<1>3. timer' \in [Sessions -> BOOLEAN]
  BY DEF TypeInv, TypeOK, Begin, Touch
<1>4. req' \in [Requests -> Request \cup {None}] /\ Busy' \subseteq Busy \cup {r}
  BY DEF TypeInv, TypeOK, Begin, Busy, Request
<1> QED
  BY <1>2, <1>3, <1>4

(* and ending one.                                                         *)
LEMMA EndTyping ==
  ASSUME TypeInv, NEW r \in Requests, req[r] # None,
         NEW after \in Request \cup {None}, End(r, after)
  PROVE  /\ active' \in [Sessions -> Nat]
         /\ age' \in [Sessions -> 0..IdleTicks]
         /\ timer' \in [Sessions -> BOOLEAN]
         /\ req' \in [Requests -> Request \cup {None}]
         /\ Busy' \subseteq Busy \cup {r}
<1>1. req[r].session \in Sessions
  BY DEF TypeInv, TypeOK, Request
<1>2. 0 \in 0..IdleTicks
  BY IdleAssumption
<1>3. Less(active[req[r].session], 1) \in Nat
  BY <1>1, LessType DEF TypeInv, TypeOK
<1>4. req' \in [Requests -> Request \cup {None}] /\ Busy' \subseteq Busy \cup {r}
  BY DEF TypeInv, TypeOK, End, Busy
<1>5. CASE req[r].ended
  BY <1>4, <1>5 DEF End, TypeInv, TypeOK
<1>6. CASE ~req[r].ended
  <2>1. active' \in [Sessions -> Nat]
    BY <1>1, <1>3, <1>6 DEF End, TypeInv, TypeOK
  <2>2. age' \in [Sessions -> 0..IdleTicks]
    BY <1>1, <1>2, <1>6 DEF End, Touch, TypeInv, TypeOK
  <2>3. timer' \in [Sessions -> BOOLEAN]
    BY <1>1, <1>6 DEF End, Touch, TypeInv, TypeOK
  <2> QED
    BY <1>4, <2>1, <2>2, <2>3
<1> QED
  BY <1>5, <1>6

--------------------------------------------------------------------------------
(* Every step keeps the types.                                             *)
LEMMA TypingStep ==
  ASSUME TypeInv, Next
  PROVE  TypeInv'
<1> USE DEF TypeInv
<1>0. 0 \in 0..IdleTicks
  BY IdleAssumption
<1>1. ASSUME NEW r \in Requests, NEW s \in Sessions, NEW u \in Users, NEW c \in Clients,
             Initialize(r, s, u, c)
      PROVE  TypeInv'
  <2>1. admitting' \in Ticket
    BY <1>1 DEF Initialize, Ticket, Owner
  <2> QED
    BY <1>1, <2>1 DEF Initialize, TypeOK, Busy
<1>2. CASE EvictOne
  <2>1. PICK s \in Sessions : Close({s}, {})
    BY <1>2 DEF EvictOne, Stalest, Candidates
  <2>2. admitting \in Ticket
    BY <1>2 DEF EvictOne, Idle, TypeOK
  <2>3. admitting' \in Ticket
    BY <1>2, <2>2 DEF EvictOne, Ticket
  <2>4. owner' = owner
    BY <1>2 DEF EvictOne
  <2>5. IsFiniteSet(Busy')
    BY <2>1, CloseTyping, FS_Subset
  <2> QED
    BY <2>1, <2>3, <2>4, <2>5, CloseTyping DEF TypeOK
<1>3. CASE Refuse
  BY <1>3 DEF Refuse, TypeOK, Busy
<1>4. CASE Reserve
  <2>1. admitting \in Ticket
    BY <1>4 DEF Reserve, Idle, TypeOK
  <2>2. /\ admitting.session \in Sessions /\ admitting.request \in Requests
        /\ admitting.owner \in Owner
    BY <2>1 DEF Ticket
  <2>3. req' \in [Requests -> Request \cup {None}] /\ Busy' \subseteq Busy \cup {admitting.request}
    BY <1>4, <2>2 DEF Reserve, TypeOK, Request, Kinds, Busy
  <2>4. IsFiniteSet(Busy')
    BY <2>3, BusyFinite
  <2>5. owner' \in [Sessions -> Owner \cup {None}]
    BY <1>4, <2>2 DEF Reserve, TypeOK
  <2>6. state' \in [Sessions -> {"free", "reserved", "open", "closed"}]
    BY <1>4, <2>2 DEF Reserve, TypeOK
  <2> QED
    BY <1>4, <2>3, <2>4, <2>5, <2>6 DEF Reserve, TypeOK
<1>5. CASE Tick
  <2>1. age' \in [Sessions -> 0..IdleTicks]
    BY <1>5, IdleAssumption DEF Tick, TypeOK
  <2> QED
    BY <1>5, <2>1 DEF Tick, TypeOK, Busy
<1>6. ASSUME NEW r \in Requests, Register(r)
      PROVE  TypeInv'
  <2>1. req[r].session \in Sessions
    BY <1>6 DEF Register, Unused, TypeOK, Request
  <2>2. age' \in [Sessions -> 0..IdleTicks]
    BY <1>0, <1>6, <2>1 DEF Register, Touch, TypeOK
  <2>3. timer' \in [Sessions -> BOOLEAN]
    BY <1>6, <2>1 DEF Register, Touch, TypeOK
  <2>4. state' \in [Sessions -> {"free", "reserved", "open", "closed"}]
    BY <1>6, <2>1 DEF Register, TypeOK
  <2> QED
    BY <1>6, <2>2, <2>3, <2>4 DEF Register, TypeOK, Busy
<1>7. ASSUME NEW r \in Requests, InitReturn(r)
      PROVE  TypeInv'
  <2>1. state' \in [Sessions -> {"free", "reserved", "open", "closed"}]
    BY <1>7 DEF InitReturn, TypeOK
  <2>2. req' \in [Requests -> Request \cup {None}] /\ Busy' \subseteq Busy
    BY <1>7 DEF InitReturn, TypeOK, Busy
  <2>3. IsFiniteSet(Busy')
    BY <2>2, FS_Subset
  <2> QED
    BY <1>7, <2>1, <2>2, <2>3 DEF InitReturn, TypeOK
<1>8. ASSUME NEW r \in Requests, InitThrow(r)
      PROVE  TypeInv'
  <2>1. {req[r].session} \in SUBSET Sessions /\ {r} \in SUBSET Requests
    BY <1>8 DEF InitThrow, Unused, TypeOK, Request
  <2>2. Close({req[r].session}, {r}) /\ owner' = owner /\ admitting' = admitting
    BY <1>8 DEF InitThrow
  <2>3. IsFiniteSet(Busy')
    BY <2>1, <2>2, CloseTyping, FS_Subset
  <2> QED
    BY <2>1, <2>2, <2>3, CloseTyping DEF TypeOK
<1>9. ASSUME NEW r \in Requests, NEW s \in Sessions, NEW k \in Kinds, Begin(r, k, s),
             UNCHANGED <<state, owner, admitting>>
      PROVE  TypeInv'
  <2>1. IsFiniteSet(Busy')
    BY <1>9, BeginTyping, BusyFinite
  <2> QED
    BY <1>9, <2>1, BeginTyping DEF TypeOK
<1>10. ASSUME NEW r \in Requests, NEW s \in Sessions,
              PostBegin(r, s) \/ GetBegin(r, s) \/ RpcBegin(r, s)
       PROVE  TypeInv'
  BY <1>9, <1>10 DEF PostBegin, GetBegin, RpcBegin, Kinds
<1>11. ASSUME NEW r \in Requests, req[r] # None, NEW after \in Request \cup {None},
              End(r, after), UNCHANGED <<state, owner, admitting>>
       PROVE  TypeInv'
  <2>1. IsFiniteSet(Busy')
    BY <1>11, EndTyping, BusyFinite
  <2> QED
    BY <1>11, <2>1, EndTyping DEF TypeOK
<1>12. ASSUME NEW r \in Requests, PostEnd(r) \/ GetEnd(r) \/ RpcEnd(r)
       PROVE  TypeInv'
  <2>1. req[r] \in Request /\ req[r] # None
    BY <1>12 DEF PostEnd, GetEnd, RpcEnd, Unused, TypeOK
  <2>2. [req[r] EXCEPT !.ended = TRUE] \in Request
    BY <2>1 DEF Request
  <2> QED
    BY <1>11, <1>12, <2>1, <2>2 DEF PostEnd, GetEnd, RpcEnd
<1>13. ASSUME NEW s \in Sessions, DeleteRejected(s)
       PROVE  TypeInv'
  BY <1>0, <1>13 DEF DeleteRejected, Touch, TypeOK, Busy
<1>14. ASSUME NEW F \in SUBSET Sessions, Close(F, {}), owner' = owner, admitting' = admitting
       PROVE  TypeInv'
  <2>1. IsFiniteSet(Busy')
    BY <1>14, CloseTyping, FS_Subset
  <2> QED
    BY <1>14, <2>1, CloseTyping DEF TypeOK
<1>15. ASSUME NEW s \in Sessions, Delete(s) \/ IdleTimeout(s)
       PROVE  TypeInv'
  BY <1>14, <1>15 DEF Delete, IdleTimeout
<1>16. ASSUME NEW s \in Sessions, Reuse(s)
       PROVE  TypeInv'
  BY <1>16 DEF Reuse, TypeOK, Busy
<1>17. ASSUME NEW u \in Users, NEW C, CloseUser(u, C)
       PROVE  TypeInv'
  BY <1>14, <1>17 DEF CloseUser, Held
<1> QED
  BY <1>1, <1>2, <1>3, <1>4, <1>5, <1>6, <1>7, <1>8, <1>10, <1>12, <1>13, <1>15, <1>16, <1>17
  DEF Next

LEMMA InitTyping == Init => TypeInv
<1> SUFFICES ASSUME Init PROVE TypeInv
  OBVIOUS
<1>1. Busy = {}
  BY DEF Init, Busy
<1>2. 0 \in 0..IdleTicks
  BY IdleAssumption
<1> QED
  BY <1>1, <1>2, FS_EmptySet DEF Init, TypeInv, TypeOK

(* Type correctness: TypeOK, for any number of users, clients, sessions    *)
(* and concurrent requests and any limits.                                 *)
THEOREM Typing == Spec => []TypeOK
<1>1. Init => TypeInv
  BY InitTyping
<1>2. TypeInv /\ [Next]_vars => TypeInv'
  <2>1. TypeInv /\ UNCHANGED vars => TypeInv'
    BY DEF TypeInv, TypeOK, Busy, vars
  <2> QED
    BY <2>1, TypingStep
<1>3. TypeInv => TypeOK
  BY DEF TypeInv
<1> QED
  BY <1>1, <1>2, <1>3, PTL DEF Spec

--------------------------------------------------------------------------------
(* Both limits hold with finitely many places held.  That is not inductive *)
(* alone only because of EvictionAdmits, which depends on it: the loop of  *)
(* reserve() starts within the limits, so one eviction makes room.         *)
Within(u) ==
  /\ IsFiniteSet(Held(u)) /\ Cardinality(Held(u)) <= PerUser
  /\ \A c \in Clients : Cardinality(HeldBy(u, c)) <= PerClient

AdmissionInv == (\A u \in Users : Within(u)) /\ EvictionAdmits

LEMMA HeldByFinite ==
  ASSUME NEW u, NEW c, IsFiniteSet(Held(u))
  PROVE  /\ IsFiniteSet(HeldBy(u, c)) /\ Cardinality(HeldBy(u, c)) \in Nat
         /\ Cardinality(Held(u)) \in Nat
<1>1. HeldBy(u, c) \in SUBSET Held(u)
  BY DEF HeldBy
<1> QED
  BY <1>1, FS_Subset, FS_CardinalityType

(* Places that are only given up leave everybody within the limits.        *)
LEMMA Shrinking ==
  ASSUME NEW u \in Users, Within(u), Held(u)' \subseteq Held(u),
         \A s \in Held(u)' : owner'[s] = owner[s]
  PROVE  Within(u)'
<1>1. /\ IsFiniteSet(Held(u)') /\ Cardinality(Held(u)') <= Cardinality(Held(u))
      /\ Cardinality(Held(u)') \in Nat /\ Cardinality(Held(u)) \in Nat
  BY FS_Subset, FS_CardinalityType DEF Within
<1>2. Cardinality(Held(u)') <= PerUser
  BY <1>1, LimitsAssumption DEF Within
<1>3. ASSUME NEW c \in Clients
      PROVE  Cardinality(HeldBy(u, c)') <= PerClient
  <2>1. HeldBy(u, c)' \in SUBSET HeldBy(u, c)
    BY DEF HeldBy
  <2>2. /\ IsFiniteSet(HeldBy(u, c)) /\ Cardinality(HeldBy(u, c)) \in Nat
        /\ Cardinality(HeldBy(u, c)) <= PerClient
    BY HeldByFinite DEF Within
  <2>3. /\ Cardinality(HeldBy(u, c)') <= Cardinality(HeldBy(u, c))
        /\ Cardinality(HeldBy(u, c)') \in Nat
    BY <2>1, <2>2, FS_Subset, FS_CardinalityType
  <2> QED
    BY <2>2, <2>3, LimitsAssumption
<1> QED
  BY <1>1, <1>2, <1>3 DEF Within

(* Closing gives up places only.                                           *)
LEMMA CloseShrinks ==
  ASSUME TypeInv, NEW F \in SUBSET Sessions, NEW done, Close(F, done), owner' = owner,
         \A u \in Users : Within(u)
  PROVE  \A u \in Users : Within(u)'
<1> SUFFICES ASSUME NEW u \in Users PROVE Within(u)'
  OBVIOUS
<1>1. \A s \in Sessions : state'[s] = IF s \in F THEN "closed" ELSE state[s]
  BY DEF Close
<1>2. Held(u)' \subseteq Held(u)
  BY <1>1 DEF Held
<1> QED
  BY <1>2, Shrinking

(* One eviction makes room for the owner of the admission.                 *)
LEMMA EvictionMakesRoom ==
  ASSUME TypeInv, AdmissionInv, EvictOne
  PROVE  AdmissionInv'
<1>0. PICK o \in Owner : o = admitting.owner
  BY DEF EvictOne, Idle, TypeInv, TypeOK, Ticket
<1> DEFINE u == o.user
           c == o.client
<1>1. PICK s \in Stalest(Candidates(o)) : Close({s}, {})
  BY <1>0 DEF EvictOne
<1>2. s \in Sessions /\ state[s] = "open" /\ s \in Held(u)
      /\ (ClientFull(o) => s \in HeldBy(u, c))
  BY DEF Stalest, Candidates, HeldBy, Held
<1>3. u \in Users /\ c \in Clients /\ admitting.evicted \in Nat
  BY DEF EvictOne, Idle, TypeInv, TypeOK, Ticket, Owner
<1>4. Within(u)
  BY <1>3 DEF AdmissionInv
<1>5. owner' = owner /\ admitting' = [admitting EXCEPT !.evicted = @ + 1]
  BY DEF EvictOne
<1>6. \A v \in Users : Within(v)'
  BY <1>1, <1>2, <1>5, CloseShrinks DEF AdmissionInv
<1>7. Held(u)' = Held(u) \ {s} /\ HeldBy(u, c)' = HeldBy(u, c) \ {s}
  BY <1>1, <1>5 DEF Held, HeldBy, Close
<1>8. admitting'.owner = o /\ admitting'.evicted = 1
  <2>1. admitting.evicted = 0
    BY <1>3 DEF EvictOne, AdmissionInv, EvictionAdmits
  <2> QED
    BY <1>0, <1>5, <2>1, <1>3 DEF TypeInv, TypeOK, EvictOne, Idle, Ticket
<1>9. Cardinality(Held(u)') < PerUser
  <2>1. Cardinality(Held(u)') = Cardinality(Held(u)) - 1
    BY <1>2, <1>4, <1>7, FS_RemoveElement DEF Within
  <2> QED
    BY <1>4, <2>1, HeldByFinite, LimitsAssumption DEF Within
<1>10. Cardinality(HeldBy(u, c)') < PerClient
  <2>1. IsFiniteSet(HeldBy(u, c)) /\ Cardinality(HeldBy(u, c)) \in Nat
        /\ Cardinality(HeldBy(u, c)) <= PerClient
    BY <1>3, <1>4, HeldByFinite DEF Within
  <2>2. Cardinality(HeldBy(u, c)') =
          IF s \in HeldBy(u, c) THEN Cardinality(HeldBy(u, c)) - 1 ELSE Cardinality(HeldBy(u, c))
    BY <1>7, <2>1, FS_RemoveElement
  <2>3. CASE ClientFull(o)
    BY <1>2, <2>1, <2>2, <2>3, LimitsAssumption
  <2>4. CASE ~ClientFull(o)
    BY <2>1, <2>2, <2>4, LimitsAssumption DEF ClientFull
  <2> QED
    BY <2>3, <2>4
<1>11. ~ClientFull(o)' /\ ~UserFull(o)'
  <2>1. Cardinality(Held(u)') \in Nat /\ Cardinality(HeldBy(u, c)') \in Nat
    BY <1>4, <1>3, <1>7, HeldByFinite, FS_CardinalityType, FS_RemoveElement DEF Within
  <2> QED
    BY <1>8, <1>9, <1>10, <2>1, LimitsAssumption DEF ClientFull, UserFull
<1>12. EvictionAdmits'
  BY <1>8, <1>11 DEF EvictionAdmits
<1> QED
  BY <1>6, <1>12 DEF AdmissionInv

(* One place more, taken below a limit, respects it.                       *)
LEMMA RoomForOne ==
  ASSUME NEW S, IsFiniteSet(S), NEW k \in Nat, Cardinality(S) < k,
         NEW x, NEW T \in SUBSET (S \cup {x})
  PROVE  IsFiniteSet(T) /\ Cardinality(T) <= k
<1>1. Cardinality(S) \in Nat /\ IsFiniteSet(S \cup {x}) /\ Cardinality(S \cup {x}) \in Nat
  BY FS_CardinalityType, FS_AddElement
<1>2. Cardinality(S \cup {x}) = IF x \in S THEN Cardinality(S) ELSE Cardinality(S) + 1
  BY FS_AddElement
<1>3. Cardinality(S \cup {x}) <= k
  BY <1>1, <1>2
<1>4. IsFiniteSet(T) /\ Cardinality(T) \in Nat /\ Cardinality(T) <= Cardinality(S \cup {x})
  BY <1>1, FS_Subset, FS_CardinalityType
<1> QED
  BY <1>1, <1>3, <1>4

(* A reservation is made below both limits, which its place then respects. *)
LEMMA ReservationFits ==
  ASSUME TypeInv, AdmissionInv, Reserve
  PROVE  AdmissionInv'
<1>0. PICK o \in Owner, n \in Sessions : o = admitting.owner /\ n = admitting.session
  BY DEF Reserve, Idle, TypeInv, TypeOK, Ticket
<1>1. o.user \in Users /\ o.client \in Clients
  BY DEF Owner
<1>2. EvictionAdmits'
  BY DEF Reserve, EvictionAdmits, Idle
<1>3. /\ \A s \in Sessions : state'[s] = IF s = n THEN "reserved" ELSE state[s]
      /\ \A s \in Sessions : owner'[s] = IF s = n THEN o ELSE owner[s]
  BY <1>0 DEF Reserve, TypeInv, TypeOK
<1>4. ASSUME NEW u \in Users, u # o.user
      PROVE  Within(u)'
  <2>1. Held(u)' \subseteq Held(u) /\ \A s \in Held(u)' : owner'[s] = owner[s]
    BY <1>3, <1>4 DEF Held
  <2> QED
    BY <2>1, Shrinking DEF AdmissionInv
<1>5. Within(o.user)'
  <2>1. Within(o.user)
    BY <1>1 DEF AdmissionInv
  <2>2. Held(o.user)' \in SUBSET (Held(o.user) \cup {n})
    BY <1>3 DEF Held
  <2>3. IsFiniteSet(Held(o.user)') /\ Cardinality(Held(o.user)') <= PerUser
    <3>1. IsFiniteSet(Held(o.user)) /\ Cardinality(Held(o.user)) \in Nat
      BY <2>1, FS_CardinalityType DEF Within
    <3>2. Cardinality(Held(o.user)) < PerUser
      BY <1>0, <3>1, LimitsAssumption DEF Reserve, UserFull
    <3> QED
      BY <2>2, <3>1, <3>2, RoomForOne, LimitsAssumption
  <2>4. ASSUME NEW c \in Clients, c # o.client
        PROVE  Cardinality(HeldBy(o.user, c)') <= PerClient
    <3>1. HeldBy(o.user, c)' \in SUBSET HeldBy(o.user, c)
      BY <1>3, <2>4 DEF HeldBy, Held
    <3>2. /\ IsFiniteSet(HeldBy(o.user, c)) /\ Cardinality(HeldBy(o.user, c)) \in Nat
          /\ Cardinality(HeldBy(o.user, c)) <= PerClient
      BY <2>1, HeldByFinite DEF Within
    <3>3. /\ Cardinality(HeldBy(o.user, c)') <= Cardinality(HeldBy(o.user, c))
          /\ Cardinality(HeldBy(o.user, c)') \in Nat
      BY <3>1, <3>2, FS_Subset, FS_CardinalityType
    <3> QED
      BY <3>2, <3>3, LimitsAssumption
  <2>5. Cardinality(HeldBy(o.user, o.client)') <= PerClient
    <3>1. HeldBy(o.user, o.client)' \in SUBSET (HeldBy(o.user, o.client) \cup {n})
      BY <1>3 DEF HeldBy, Held
    <3>2. IsFiniteSet(HeldBy(o.user, o.client)) /\ Cardinality(HeldBy(o.user, o.client)) \in Nat
      BY <2>1, HeldByFinite DEF Within
    <3>3. Cardinality(HeldBy(o.user, o.client)) < PerClient
      BY <1>0, <3>2, LimitsAssumption DEF Reserve, ClientFull
    <3> QED
      BY <3>1, <3>2, <3>3, RoomForOne, LimitsAssumption
  <2> QED
    BY <2>3, <2>4, <2>5 DEF Within
<1> QED
  BY <1>1, <1>2, <1>4, <1>5 DEF AdmissionInv

(* Every other step only gives places up and decides no admission.         *)
LEMMA AdmissionKept ==
  ASSUME AdmissionInv, admitting' # None => admitting'.evicted = 0,
         \A u \in Users : /\ Held(u)' \subseteq Held(u)
                          /\ \A s \in Held(u)' : owner'[s] = owner[s]
  PROVE  AdmissionInv'
<1>1. \A u \in Users : Within(u)'
  BY Shrinking DEF AdmissionInv
<1>2. EvictionAdmits'
  BY DEF EvictionAdmits, Idle
<1> QED
  BY <1>1, <1>2 DEF AdmissionInv

LEMMA AdmissionStep ==
  ASSUME TypeInv, AdmissionInv, Next
  PROVE  AdmissionInv'
<1>1. ASSUME NEW r \in Requests, NEW s \in Sessions, NEW u \in Users, NEW c \in Clients,
             Initialize(r, s, u, c)
      PROVE  AdmissionInv'
  <2>1. admitting'.evicted = 0
    BY <1>1 DEF Initialize
  <2> QED
    BY <1>1, <2>1, AdmissionKept DEF Initialize, Held
<1>2. CASE EvictOne
  BY <1>2, EvictionMakesRoom
<1>3. CASE Refuse
  BY <1>3, AdmissionKept DEF Refuse, Held
<1>4. CASE Reserve
  BY <1>4, ReservationFits
<1>5. CASE Tick
  BY <1>5, AdmissionKept DEF Tick, Held, Idle
<1>6. ASSUME NEW r \in Requests, Register(r) \/ InitReturn(r)
      PROVE  AdmissionInv'
  <2>1. \A s \in Sessions : state'[s] \in {"reserved", "open"} => state[s] \in {"reserved", "open"}
    BY <1>6 DEF Register, InitReturn, TypeInv, TypeOK
  <2> QED
    BY <1>6, <2>1, AdmissionKept DEF Register, InitReturn, Held, Idle
<1>7. ASSUME NEW F, NEW done, Idle, Close(F, done), owner' = owner, admitting' = admitting
      PROVE  AdmissionInv'
  <2>1. \A s \in Sessions : state'[s] \in {"reserved", "open"} => state[s] \in {"reserved", "open"}
    BY <1>7 DEF Close
  <2> QED
    BY <1>7, <2>1, AdmissionKept DEF Held, Idle
<1>8. ASSUME NEW r \in Requests, InitThrow(r)
      PROVE  AdmissionInv'
  BY <1>7, <1>8 DEF InitThrow
<1>9. ASSUME NEW s \in Sessions, Delete(s) \/ IdleTimeout(s)
      PROVE  AdmissionInv'
  BY <1>7, <1>9 DEF Delete, IdleTimeout
<1>10. ASSUME NEW u \in Users, NEW C, CloseUser(u, C)
       PROVE  AdmissionInv'
  BY <1>7, <1>10 DEF CloseUser
<1>11. ASSUME NEW r \in Requests, PostEnd(r) \/ GetEnd(r) \/ RpcEnd(r)
       PROVE  AdmissionInv'
  BY <1>11, AdmissionKept DEF PostEnd, GetEnd, RpcEnd, Held, Idle
<1>12. ASSUME NEW r \in Requests, NEW s \in Sessions,
              PostBegin(r, s) \/ GetBegin(r, s) \/ RpcBegin(r, s)
       PROVE  AdmissionInv'
  BY <1>12, AdmissionKept DEF PostBegin, GetBegin, RpcBegin, Held, Idle
<1>13. ASSUME NEW s \in Sessions, DeleteRejected(s)
       PROVE  AdmissionInv'
  BY <1>13, AdmissionKept DEF DeleteRejected, Held, Idle
<1>14. ASSUME NEW s \in Sessions, Reuse(s)
       PROVE  AdmissionInv'
  <2>1. \A t \in Sessions : state'[t] \in {"reserved", "open"}
                             => state[t] \in {"reserved", "open"} /\ owner'[t] = owner[t]
    BY <1>14 DEF Reuse, TypeInv, TypeOK
  <2> QED
    BY <1>14, <2>1, AdmissionKept DEF Reuse, Held, Idle
<1> QED
  BY <1>1, <1>2, <1>3, <1>4, <1>5, <1>6, <1>8, <1>9, <1>10, <1>11, <1>12, <1>13, <1>14 DEF Next

LEMMA AdmissionInvariance == Spec => [](TypeInv /\ AdmissionInv)
<1>1. Init => TypeInv
  BY InitTyping
<1>2. Init => AdmissionInv
  <2> SUFFICES ASSUME Init PROVE AdmissionInv
    OBVIOUS
  <2>1. \A u : Held(u) = {} /\ \A c : HeldBy(u, c) = {}
    BY DEF Init, Held, HeldBy
  <2>2. \A u \in Users : Within(u)
    BY <2>1, FS_EmptySet, LimitsAssumption DEF Within
  <2> QED
    BY <2>2 DEF Init, AdmissionInv, EvictionAdmits, Idle
<1>3. TypeInv /\ AdmissionInv /\ [Next]_vars => TypeInv' /\ AdmissionInv'
  <2>1. TypeInv /\ UNCHANGED vars => TypeInv'
    BY DEF TypeInv, TypeOK, Busy, vars
  <2>2. AdmissionInv /\ UNCHANGED vars => AdmissionInv'
    BY DEF AdmissionInv, Within, HeldBy, Held, EvictionAdmits, Idle, ClientFull, UserFull, vars
  <2> QED
    BY <2>1, <2>2, TypingStep, AdmissionStep
<1> QED
  BY <1>1, <1>2, <1>3, PTL DEF Spec

(* The limits hold at all times, for any limits and however initialize     *)
(* requests, registrations, closes and time-outs interleave.               *)
THEOREM AdmissionIsBounded == Spec => []AdmissionBound
<1>1. AdmissionInv => AdmissionBound
  BY DEF AdmissionInv, Within, AdmissionBound
<1> QED
  BY <1>1, AdmissionInvariance, PTL

(* No admission evicts two sessions, or one in vain.                       *)
THEOREM EvictionIsNotInVain == Spec => []EvictionAdmits
<1>1. AdmissionInv => EvictionAdmits
  BY DEF AdmissionInv
<1> QED
  BY <1>1, AdmissionInvariance, PTL

--------------------------------------------------------------------------------
(* The counter of a session is the number of its pins, although an end may *)
(* be called twice and closing a session ends some of its pins from the    *)
(* side; and the timer follows the counter.                                *)
InitEnded == \A r \in Requests : req[r] # None /\ req[r].kind = "init" => req[r].ended
Reserving == ~Idle => req[admitting.request] = None /\ state[admitting.session] = "free"
Counted   == \A s \in Sessions : active[s] = Cardinality(Pins(s))
TimerInv  == \A s \in Sessions : timer[s] <=> state[s] = "open" /\ active[s] = 0
PinInv    == InitEnded /\ Reserving /\ Counted /\ TimerInv

LEMMA PinsBegin ==
  ASSUME TypeInv, Counted, TimerInv, NEW r \in Requests, req[r] = None,
         NEW k \in Kinds, NEW s \in Sessions, Begin(r, k, s), state' = state
  PROVE  Counted' /\ TimerInv'
<1>1. [kind |-> k, session |-> s, ended |-> FALSE] # None
  <2>1. [kind |-> k, session |-> s, ended |-> FALSE] \in Request
    BY DEF Request
  <2> QED
    BY <2>1, NoneAssumption
<1>2. Pins(s)' = Pins(s) \cup {r} /\ r \notin Pins(s)
  BY <1>1 DEF Pins, Begin, TypeInv, TypeOK
<1>3. \A t \in Sessions : t # s => Pins(t)' = Pins(t)
  BY <1>1 DEF Pins, Begin, TypeInv, TypeOK
<1>4. active' = [active EXCEPT ![s] = @ + 1]
  BY DEF Begin
<1>5. Cardinality(Pins(s)') = active[s] + 1
  <2>1. IsFiniteSet(Pins(s)) /\ Cardinality(Pins(s)) = active[s]
    BY PinsFinite DEF Counted
  <2> QED
    BY <1>2, <2>1, FS_AddElement
<1>6. Counted'
  BY <1>3, <1>4, <1>5 DEF Counted, TypeInv, TypeOK
<1>7. TimerInv'
  BY <1>4 DEF TimerInv, Begin, Touch, TypeInv, TypeOK
<1> QED
  BY <1>6, <1>7

LEMMA PinsEnd ==
  ASSUME TypeInv, Counted, TimerInv, NEW r \in Requests, req[r] # None,
         NEW after, after = None \/ (after = [req[r] EXCEPT !.ended = TRUE]),
         End(r, after), state' = state
  PROVE  Counted' /\ TimerInv'
<1>1. PICK s \in Sessions : s = req[r].session
  BY DEF TypeInv, TypeOK, Request
<1>2. req' = [req EXCEPT ![r] = after]
  BY DEF End
<1>3. after # None => after.ended
  BY DEF TypeInv, TypeOK, Request
<1>4. Pins(s)' = Pins(s) \ {r}
  BY <1>2, <1>3 DEF Pins, TypeInv, TypeOK
<1>5. \A t \in Sessions : t # s => Pins(t)' = Pins(t)
  BY <1>1, <1>2, <1>3 DEF Pins, TypeInv, TypeOK
<1>6. r \in Pins(s) <=> ~req[r].ended
  BY <1>1 DEF Pins
<1>7. Cardinality(Pins(s)') = IF req[r].ended THEN active[s] ELSE active[s] - 1
  <2>1. IsFiniteSet(Pins(s)) /\ Cardinality(Pins(s)) = active[s]
    BY PinsFinite DEF Counted
  <2>2. Cardinality(Pins(s) \ {r}) = IF r \in Pins(s) THEN Cardinality(Pins(s)) - 1
                                     ELSE Cardinality(Pins(s))
    BY <2>1, FS_RemoveElement
  <2> QED
    BY <1>4, <1>6, <2>1, <2>2
<1>8. CASE req[r].ended
  <2>1. active' = active /\ timer' = timer
    BY <1>8 DEF End
  <2> QED
    BY <1>5, <1>7, <1>8, <2>1 DEF Counted, TimerInv
<1>9. CASE ~req[r].ended
  <2>1. active' = [active EXCEPT ![s] = Less(@, 1)] /\ Touch(s, state, active')
    BY <1>1, <1>9 DEF End
  <2>2. active[s] \in Nat /\ active[s] # 0
    <3>1. IsFiniteSet(Pins(s)) /\ Pins(s) # {}
      BY <1>6, <1>9, PinsFinite
    <3> QED
      BY <3>1, FS_EmptySet DEF Counted, TypeInv, TypeOK
  <2>3. Less(active[s], 1) = active[s] - 1
    BY <2>2 DEF Less
  <2>4. Counted'
    BY <1>5, <1>7, <1>9, <2>1, <2>3 DEF Counted, TypeInv, TypeOK
  <2>5. TimerInv'
    BY <2>1 DEF TimerInv, Touch, TypeInv, TypeOK
  <2> QED
    BY <2>4, <2>5
<1> QED
  BY <1>8, <1>9

LEMMA PinsClose ==
  ASSUME TypeInv, Counted, TimerInv, NEW F \in SUBSET Sessions, NEW done,
         \A r \in done : r \in Requests => req[r] = None \/ req[r].ended,
         Close(F, done)
  PROVE  Counted' /\ TimerInv'
<1>1. \A r \in Requests : req'[r] = IF r \in Cleared(F) \cup done THEN None ELSE req[r]
  BY DEF Close
<1>2. ASSUME NEW s \in F
      PROVE  active'[s] = Cardinality(Pins(s)')
  <2>1. Pins(s)' = Pins(s) \ Cleared({s})
    BY <1>1, <1>2 DEF Pins, Cleared
  <2>2. Pins(s) \cap Cleared({s}) = Cleared({s})
    BY DEF Pins, Cleared
  <2>3. Cardinality(Pins(s)') = active[s] - Cardinality(Cleared({s}))
    BY <2>1, <2>2, PinsFinite, FS_Difference DEF Counted
  <2>4. Cardinality(Cleared({s})) <= active[s]
    <3>1. Cleared({s}) \in SUBSET Pins(s)
      BY <2>2
    <3>2. IsFiniteSet(Pins(s)) /\ active[s] = Cardinality(Pins(s))
      BY PinsFinite DEF Counted
    <3> QED
      BY <3>1, <3>2, FS_Subset
  <2>5. active'[s] = Less(active[s], Cardinality(Cleared({s})))
    BY DEF Close
  <2> QED
    BY <2>3, <2>4, <2>5, PinsFinite DEF Less, TypeInv, TypeOK
<1>3. ASSUME NEW s \in Sessions \ F
      PROVE  active'[s] = Cardinality(Pins(s)')
  <2>1. Pins(s)' = Pins(s)
    BY <1>1, <1>3 DEF Pins, Cleared
  <2> QED
    BY <2>1 DEF Counted, Close
<1>4. TimerInv'
  BY DEF TimerInv, Close
<1> QED
  BY <1>2, <1>3, <1>4 DEF Counted

(* Every step keeps the counters and the timers right.                     *)
LEMMA PinInvStep ==
  ASSUME TypeInv, PinInv, Next
  PROVE  PinInv'
<1> USE DEF PinInv
<1>1. ASSUME NEW r \in Requests, NEW s \in Sessions, NEW u \in Users, NEW c \in Clients,
             Initialize(r, s, u, c)
      PROVE  PinInv'
  <2>1. admitting'.request = r /\ admitting'.session = s
    BY <1>1 DEF Initialize
  <2> QED
    BY <1>1, <2>1 DEF Initialize, Unused, InitEnded, Reserving, Counted, Pins, TimerInv
<1>2. CASE EvictOne
  <2>1. PICK s \in Sessions : Close({s}, {}) /\ state[s] = "open"
    BY <1>2 DEF EvictOne, Stalest, Candidates
  <2>2. Counted' /\ TimerInv'
    BY <2>1, PinsClose
  <2>3. admitting'.request = admitting.request /\ admitting'.session = admitting.session
        /\ admitting.request \in Requests /\ admitting.session \in Sessions
    BY <1>2 DEF EvictOne, Idle, TypeInv, TypeOK, Ticket
  <2>4. InitEnded' /\ Reserving'
    BY <1>2, <2>1, <2>3 DEF EvictOne, Idle, InitEnded, Reserving, Close
  <2> QED
    BY <2>2, <2>4
<1>3. CASE Refuse
  BY <1>3 DEF Refuse, Idle, InitEnded, Reserving, Counted, Pins, TimerInv
<1>4. CASE Reserve
  <2>1. PICK r \in Requests, n \in Sessions : /\ r = admitting.request /\ n = admitting.session
                                            /\ req[r] = None /\ state[n] = "free"
    BY <1>4 DEF Reserve, Idle, Reserving, TypeInv, TypeOK, Ticket
  <2>2. req' = [req EXCEPT ![r] = [kind |-> "init", session |-> n, ended |-> TRUE]]
    BY <1>4, <2>1 DEF Reserve
  <2>3. \A s \in Sessions : Pins(s)' = Pins(s)
    BY <2>1, <2>2 DEF Pins, TypeInv, TypeOK
  <2>4. Counted'
    BY <1>4, <2>3 DEF Reserve, Counted
  <2>5. TimerInv'
    BY <1>4, <2>1 DEF Reserve, TimerInv, TypeInv, TypeOK
  <2>6. InitEnded' /\ Reserving'
    BY <1>4, <2>2 DEF Reserve, InitEnded, Reserving, Idle, TypeInv, TypeOK
  <2> QED
    BY <2>4, <2>5, <2>6
<1>5. CASE Tick
  BY <1>5 DEF Tick, Idle, InitEnded, Reserving, Counted, Pins, TimerInv
<1>6. ASSUME NEW r \in Requests, Register(r)
      PROVE  PinInv'
  <2>1. TimerInv'
    BY <1>6 DEF Register, Touch, TimerInv, TypeInv, TypeOK
  <2> QED
    BY <1>6, <2>1 DEF Register, Idle, InitEnded, Reserving, Counted, Pins
<1>7. ASSUME NEW r \in Requests, InitReturn(r)
      PROVE  PinInv'
  <2>1. req' = [req EXCEPT ![r] = None] /\ req[r].ended
    BY <1>7 DEF InitReturn, Unused, InitEnded
  <2>2. \A s \in Sessions : Pins(s)' = Pins(s)
    BY <2>1 DEF Pins, TypeInv, TypeOK
  <2>3. Counted'
    BY <1>7, <2>2 DEF InitReturn, Counted
  <2>4. TimerInv'
    BY <1>7 DEF InitReturn, TimerInv, TypeInv, TypeOK
  <2>5. InitEnded' /\ Reserving'
    BY <1>7, <2>1 DEF InitReturn, Idle, InitEnded, Reserving, TypeInv, TypeOK
  <2> QED
    BY <2>3, <2>4, <2>5
<1>8. ASSUME NEW F \in SUBSET Sessions, NEW done,
             \A r \in done : r \in Requests => req[r] = None \/ req[r].ended,
             Idle, Close(F, done), admitting' = admitting
      PROVE  PinInv'
  <2>1. Counted' /\ TimerInv'
    BY <1>8, PinsClose
  <2>2. InitEnded' /\ Reserving'
    BY <1>8 DEF Close, Idle, InitEnded, Reserving
  <2> QED
    BY <2>1, <2>2
<1>9. ASSUME NEW r \in Requests, InitThrow(r)
      PROVE  PinInv'
  <2>1. {req[r].session} \in SUBSET Sessions /\ req[r].ended
    BY <1>9 DEF InitThrow, Unused, InitEnded, TypeInv, TypeOK, Request
  <2> QED
    BY <1>8, <1>9, <2>1 DEF InitThrow
<1>10. ASSUME NEW s \in Sessions, Delete(s) \/ IdleTimeout(s)
       PROVE  PinInv'
  BY <1>8, <1>10 DEF Delete, IdleTimeout
<1>11. ASSUME NEW u \in Users, NEW C, CloseUser(u, C)
       PROVE  PinInv'
  BY <1>8, <1>11 DEF CloseUser, Held
<1>12. ASSUME NEW r \in Requests, NEW k \in Kinds, k # "init", NEW s \in Sessions,
              Idle, Unused(r), Begin(r, k, s), UNCHANGED <<state, owner, admitting>>
       PROVE  PinInv'
  <2>1. Counted' /\ TimerInv'
    BY <1>12, PinsBegin DEF Unused
  <2>2. InitEnded' /\ Reserving'
    BY <1>12 DEF Begin, Idle, InitEnded, Reserving, TypeInv, TypeOK
  <2> QED
    BY <2>1, <2>2
<1>13. ASSUME NEW r \in Requests, NEW s \in Sessions,
              PostBegin(r, s) \/ GetBegin(r, s) \/ RpcBegin(r, s)
       PROVE  PinInv'
  BY <1>12, <1>13 DEF PostBegin, GetBegin, RpcBegin, Kinds
<1>14. ASSUME NEW r \in Requests, Idle, req[r] # None, req[r].kind # "init", NEW after,
              after = None \/ after = [req[r] EXCEPT !.ended = TRUE],
              End(r, after), UNCHANGED <<state, owner, admitting>>
       PROVE  PinInv'
  <2>1. Counted' /\ TimerInv'
    BY <1>14, PinsEnd
  <2>2. req' = [req EXCEPT ![r] = after]
    BY <1>14 DEF End
  <2>3. after # None => after.kind # "init"
    BY <1>14 DEF TypeInv, TypeOK, Request
  <2>4. InitEnded' /\ Reserving'
    BY <1>14, <2>2, <2>3 DEF Idle, InitEnded, Reserving, TypeInv, TypeOK
  <2> QED
    BY <2>1, <2>4
<1>15. ASSUME NEW r \in Requests, PostEnd(r) \/ GetEnd(r) \/ RpcEnd(r)
       PROVE  PinInv'
  BY <1>14, <1>15 DEF PostEnd, GetEnd, RpcEnd, Unused
<1>16. ASSUME NEW s \in Sessions, DeleteRejected(s)
       PROVE  PinInv'
  BY <1>16 DEF DeleteRejected, Touch, Idle, InitEnded, Reserving, Counted, Pins, TimerInv,
               TypeInv, TypeOK
<1>17. ASSUME NEW s \in Sessions, Reuse(s)
       PROVE  PinInv'
  BY <1>17 DEF Reuse, Idle, InitEnded, Reserving, Counted, Pins, TimerInv, TypeInv, TypeOK
<1> QED
  BY <1>1, <1>2, <1>3, <1>4, <1>5, <1>6, <1>7, <1>9, <1>10, <1>11, <1>13, <1>15, <1>16, <1>17
  DEF Next

LEMMA PinInvariance == Spec => [](TypeInv /\ PinInv)
<1>1. Init => TypeInv
  BY InitTyping
<1>2. Init => PinInv
  <2> SUFFICES ASSUME Init PROVE PinInv
    OBVIOUS
  <2>1. \A s : Pins(s) = {}
    BY DEF Init, Pins
  <2> QED
    BY <2>1, FS_EmptySet DEF Init, PinInv, InitEnded, Reserving, Counted, TimerInv, Idle
<1>3. TypeInv /\ PinInv /\ [Next]_vars => TypeInv' /\ PinInv'
  <2>1. TypeInv /\ UNCHANGED vars => TypeInv'
    BY DEF TypeInv, TypeOK, Busy, vars
  <2>2. PinInv /\ UNCHANGED vars => PinInv'
    BY DEF PinInv, InitEnded, Reserving, Counted, Pins, TimerInv, Idle, vars
  <2> QED
    BY <2>1, <2>2, TypingStep, PinInvStep
<1> QED
  BY <1>1, <1>2, <1>3, PTL DEF Spec

(* A counter of pins is zero exactly when there is none.                   *)
LEMMA UnpinnedIsZero ==
  ASSUME TypeInv, Counted, NEW s \in Sessions
  PROVE  active[s] = 0 <=> Pins(s) = {}
BY PinsFinite, FS_EmptySet DEF Counted

(* The idle timer is armed exactly for the unpinned sessions of the map.   *)
THEOREM TimersAreRight == Spec => []IdleTimerArmed
<1>1. TypeInv /\ PinInv => IdleTimerArmed
  BY UnpinnedIsZero DEF PinInv, TimerInv, IdleTimerArmed
<1> QED
  BY <1>1, PinInvariance, PTL

--------------------------------------------------------------------------------
(* What one step may do to the sessions while an admission is decided.     *)
EvictsOwn ==
  \A s \in Sessions : ~Idle /\ state[s] = "open" /\ state'[s] # "open" =>
    LET o       == admitting.owner
        limited == IF Cardinality(HeldBy(o.user, o.client)) = PerClient
                   THEN HeldBy(o.user, o.client) ELSE Held(o.user)
    IN /\ s \in limited /\ Pins(s) = {}
       /\ \A t \in limited : state[t] = "open" /\ Pins(t) = {} => age[t] <= age[s]

LEMMA EvictionStep ==
  ASSUME TypeInv, AdmissionInv, PinInv, EvictOne
  PROVE  EvictsOwn
<1>1. PICK o \in Owner : o = admitting.owner
  BY DEF EvictOne, Idle, TypeInv, TypeOK, Ticket
<1> DEFINE limited == IF Cardinality(HeldBy(o.user, o.client)) = PerClient
                      THEN HeldBy(o.user, o.client) ELSE Held(o.user)
<1>2. PICK v \in Stalest(Candidates(o)) : Close({v}, {})
  BY <1>1 DEF EvictOne
<1>3. ClientFull(o) <=> Cardinality(HeldBy(o.user, o.client)) = PerClient
  <2>1. Within(o.user) /\ o.client \in Clients /\ o.user \in Users
    BY DEF AdmissionInv, Owner
  <2> QED
    BY <2>1, HeldByFinite, LimitsAssumption DEF Within, ClientFull
<1>4. \A t \in Sessions :
        t \in Candidates(o) <=> t \in limited /\ state[t] = "open" /\ active[t] = 0
  BY <1>3 DEF Candidates
<1>5. limited \subseteq Sessions
  BY DEF Held, HeldBy
<1>6. \A t \in Sessions : active[t] = 0 <=> Pins(t) = {}
  BY UnpinnedIsZero DEF PinInv
<1>7. v \in Sessions /\ v \in limited /\ Pins(v) = {}
  BY <1>2, <1>4, <1>6 DEF Stalest, Candidates
<1>8. \A t \in limited : state[t] = "open" /\ Pins(t) = {} => age[t] <= age[v]
  <2> SUFFICES ASSUME NEW t \in limited, state[t] = "open", Pins(t) = {}
               PROVE  age[t] <= age[v]
    OBVIOUS
  <2>1. age[v] >= age[t]
    BY <1>2, <1>4, <1>5, <1>6 DEF Stalest
  <2>2. age[v] \in Int /\ age[t] \in Int
    BY <1>5, <1>7, IdleAssumption DEF TypeInv, TypeOK
  <2> QED
    BY <2>1, <2>2
<1>9. \A s \in Sessions : state[s] = "open" /\ state'[s] # "open" => s = v
  BY <1>2 DEF Close
<1> QED
  BY <1>1, <1>7, <1>8, <1>9 DEF EvictsOwn

(* An admission evicts the stalest unpinned session of its own user, and   *)
(* of its own client when that is at its limit.                            *)
THEOREM EvictionIsOwn == Spec => AdmissionEvictsOwn
<1>1. TypeInv /\ AdmissionInv /\ PinInv /\ [Next]_vars => [EvictsOwn]_vars
  <2> SUFFICES ASSUME TypeInv, AdmissionInv, PinInv, Next PROVE EvictsOwn
    OBVIOUS
  <2>1. CASE Idle
    BY <2>1 DEF EvictsOwn
  <2>2. CASE EvictOne
    BY <2>2, EvictionStep
  <2>3. CASE Refuse
    BY <2>3 DEF Refuse, EvictsOwn
  <2>4. CASE Reserve
    BY <2>4 DEF Reserve, EvictsOwn, PinInv, Reserving, TypeInv, TypeOK
  <2>5. ~Idle => EvictOne \/ Refuse \/ Reserve
    BY DEF Next, Initialize, Tick, Register, InitReturn, InitThrow, PostEnd, GetEnd, RpcEnd,
           PostBegin, GetBegin, RpcBegin, DeleteRejected, Delete, IdleTimeout, Reuse, CloseUser
  <2> QED
    BY <2>1, <2>2, <2>3, <2>4, <2>5
<1> QED
  BY <1>1, AdmissionInvariance, PinInvariance, PTL DEF Spec, AdmissionEvictsOwn, EvictsOwn
================================================================================
