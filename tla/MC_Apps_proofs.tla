------------------------- MODULE MC_Apps_proofs -------------------------
(***************************************************************************)
(* Proofs about what accounts have on the host and what makes it           *)
(* reachable: a request opens one tunnel, no directory is given to two     *)
(* accounts, and rights that ended do not open an app.  For any number of  *)
(* accounts, requests, roots and codes, and any bounds.                    *)
(***************************************************************************)
EXTENDS MC_Apps, Apps_proofs, FiniteSetTheorems, WellFoundedInduction, TLAPS

-----------------------------------------------------------------------------
(* The tunnels.                                                              *)

\* A request whose line could be accepted has been accepted no more often than its line
\* was made acceptable again by an upset.
Owed(i) ==
  /\ seen[i] \in {None, issued[i]}
  /\ issued[i] = None => accepted[i] = 0
  /\ accepted[i] <= 1 + exposed[i]
  /\ Tunnel!Acceptable(i) => accepted[i] <= exposed[i]

\* What was sent was issued.
OnceInv ==
  /\ \A c \in Conns : conn[c].state = "sent" => conn[c].id \in Ids /\ issued[conn[c].id] # None
  /\ \A i \in Ids : Owed(i)

TunnelInv == Tunnel!TypeOK /\ OnceInv

\* What Tunnels has from FiniteSets is what the theorems about it are about.
LEMMA SameSets ==
  ASSUME NEW S
  PROVE  Tunnel!Cardinality(S) = Cardinality(S) /\ (Tunnel!IsFiniteSet(S) <=> IsFiniteSet(S))
<1>1. Tunnel!Cardinality(S) = Cardinality(S)
  BY DEF Tunnel!Cardinality, Cardinality
<1>2. Tunnel!IsFiniteSet(S) <=> IsFiniteSet(S)
  BY DEF Tunnel!IsFiniteSet, IsFiniteSet
<1> QED
  BY <1>1, <1>2

LEMMA TunnelInit == Tunnel!Init => TunnelInv
<1> SUFFICES ASSUME Tunnel!Init
             PROVE  TunnelInv
  OBVIOUS
<1> USE ReachAssumption DEF Tunnel!TunnelsAssumption
<1>1. {c \in Conns : Tunnel!InState(c, "open")} = {}
  BY DEF Tunnel!Init, Tunnel!InState, Tunnel!Free
<1>2. Tunnel!Cardinality({}) = 0
  BY FS_EmptySet, SameSets
<1>3. Tunnel!TypeOK
  BY <1>1, <1>2 DEF Tunnel!Init, Tunnel!TypeOK, Tunnel!States, Tunnel!Free, Tunnel!Times
<1>4. OnceInv
  BY DEF Tunnel!Init, OnceInv, Owed, Tunnel!Acceptable, Tunnel!Free
<1> QED
  BY <1>3, <1>4 DEF TunnelInv

\* A connection changes; the counter follows the number of open ones.
LEMMA Counted ==
  ASSUME Tunnel!TypeOK, NEW c \in Conns, NEW r,
         r \in [state : Tunnel!States, id : Ids \cup {None}],
         conn' = [conn EXCEPT ![c] = r],
         active' = active + (IF r.state = "open" THEN 1 ELSE 0)
                          - (IF conn[c].state = "open" THEN 1 ELSE 0)
  PROVE  /\ conn' \in [Conns -> [state : Tunnel!States, id : Ids \cup {None}]]
         /\ active' = Cardinality({d \in Conns : conn'[d].state = "open"})
<1> DEFINE S == {d \in Conns : conn[d].state = "open"}
           T == {d \in Conns : conn'[d].state = "open"}
<1>1. IsFiniteSet(Conns)
  BY ReachAssumption, SameSets DEF Tunnel!TunnelsAssumption
<1>2. IsFiniteSet(S) /\ IsFiniteSet(T)
  BY <1>1, FS_Subset
<1>3. active = Cardinality(S) /\ Cardinality(S) \in Nat
  <2>1. active = Tunnel!Cardinality(S)
    BY DEF Tunnel!TypeOK, Tunnel!InState
  <2> QED
    BY <1>2, <2>1, SameSets, FS_CardinalityType
<1>4. /\ conn' \in [Conns -> [state : Tunnel!States, id : Ids \cup {None}]]
      /\ conn'[c] = r /\ \A d \in Conns \ {c} : conn'[d] = conn[d]
  BY DEF Tunnel!TypeOK
<1>5. CASE r.state = "open" /\ conn[c].state = "open"
  <2>1. T = S
    BY <1>4, <1>5
  <2> QED
    BY <1>3, <1>4, <1>5, <2>1
<1>6. CASE r.state = "open" /\ conn[c].state # "open"
  <2>1. T = S \cup {c} /\ c \notin S
    BY <1>4, <1>6
  <2>2. Cardinality(T) = Cardinality(S) + 1
    BY <1>2, <2>1, FS_AddElement
  <2> QED
    BY <1>3, <1>4, <1>6, <2>2
<1>7. CASE r.state # "open" /\ conn[c].state = "open"
  <2>1. T = S \ {c} /\ c \in S
    BY <1>4, <1>7
  <2>2. Cardinality(T) = Cardinality(S) - 1
    BY <1>2, <2>1, FS_RemoveElement
  <2>3. active' = active - 1
    BY <1>3, <1>7
  <2>4. active' = Cardinality(T)
    <3> HIDE DEF S, T
    <3> QED
      BY <1>3, <2>2, <2>3
  <2> QED
    BY <1>4, <2>4
<1>8. CASE r.state # "open" /\ conn[c].state # "open"
  <2>1. T = S
    BY <1>4, <1>8
  <2>2. active' = active
    BY <1>3, <1>8
  <2>3. active' = Cardinality(T)
    <3> HIDE DEF S, T
    <3> QED
      BY <1>3, <2>1, <2>2
  <2> QED
    BY <1>4, <2>3
<1> QED
  BY <1>5, <1>6, <1>7, <1>8

\* The steps of one connection that accept nothing, issue nothing and send nothing.
LEMMA Aside ==
  ASSUME TunnelInv, NEW c \in Conns, NEW r,
         r \in [state : Tunnel!States \ {"sent"}, id : Ids \cup {None}],
         conn' = [conn EXCEPT ![c] = r],
         active' = active + (IF r.state = "open" THEN 1 ELSE 0)
                          - (IF conn[c].state = "open" THEN 1 ELSE 0),
         UNCHANGED <<clock, issued, seen, upsets, accepted, exposed>>
  PROVE  TunnelInv'
<1>1. Tunnel!TypeOK'
  <2>1. r \in [state : Tunnel!States, id : Ids \cup {None}] /\ Tunnel!TypeOK
    BY DEF TunnelInv
  <2>2. /\ conn' \in [Conns -> [state : Tunnel!States, id : Ids \cup {None}]]
        /\ active' = Cardinality({d \in Conns : conn'[d].state = "open"})
    BY <2>1, Counted
  <2> QED
    BY <2>1, <2>2, SameSets DEF Tunnel!TypeOK, Tunnel!InState
<1>2. conn'[c] = r /\ \A d \in Conns \ {c} : conn'[d] = conn[d]
  BY DEF TunnelInv, Tunnel!TypeOK
<1>3. OnceInv'
  BY <1>2 DEF TunnelInv, OnceInv, Owed, Tunnel!Acceptable
<1> QED
  BY <1>1, <1>3 DEF TunnelInv

LEMMA TunnelStepInv ==
  ASSUME TunnelInv, [Tunnel!Next]_(Tunnel!tunnelVars)
  PROVE  TunnelInv'
<1> USE ReachAssumption DEF Tunnel!TunnelsAssumption
<1>1. /\ clock \in Int /\ active \in Int
      /\ \A i \in Ids : issued[i] # None => issued[i] \in Int
      /\ \A i \in Ids : seen[i] # None => seen[i] \in Int
      /\ \A i \in Ids : accepted[i] \in Nat /\ exposed[i] \in Nat
  <2>1. active \in Nat
    <3>1. active = Cardinality({c \in Conns : conn[c].state = "open"})
      BY SameSets DEF TunnelInv, Tunnel!TypeOK, Tunnel!InState
    <3>2. IsFiniteSet({c \in Conns : conn[c].state = "open"})
      BY SameSets, FS_Subset
    <3> QED
      BY <3>1, <3>2, FS_CardinalityType
  <2> QED
    BY <2>1 DEF TunnelInv, Tunnel!TypeOK, Tunnel!Times
<1>2. ASSUME NEW c \in Conns, NEW i \in Ids, conn[c].state = "free",
             UNCHANGED <<clock, seen, active, upsets, accepted, exposed>>,
             conn' = [conn EXCEPT ![c] = [state |-> "sent", id |-> i]],
             \/ issued[i] # None /\ UNCHANGED issued
             \/ issued[i] = None /\ \E t \in Tunnel!Times : issued' = [issued EXCEPT ![i] = t]
      PROVE  TunnelInv'
  <2>1. PICK r \in [state : Tunnel!States, id : Ids \cup {None}] :
          r = [state |-> "sent", id |-> i]
    BY DEF Tunnel!States
  <2>2. /\ conn' \in [Conns -> [state : Tunnel!States, id : Ids \cup {None}]]
        /\ active' = Cardinality({d \in Conns : conn'[d].state = "open"})
    <3>1. conn' = [conn EXCEPT ![c] = r] /\ active' = active + 0 - 0
      BY <1>1, <1>2, <2>1
    <3> QED
      BY <1>1, <1>2, <2>1, <3>1, Counted DEF TunnelInv
  <2>3. /\ issued' \in [Ids -> Tunnel!Times \cup {None}] /\ issued'[i] # None
        /\ \A j \in Ids : issued'[j] = issued[j] \/ (j = i /\ issued[j] = None)
    <3>1. issued \in [Ids -> Tunnel!Times \cup {None}]
      BY DEF TunnelInv, Tunnel!TypeOK
    <3>2. CASE issued[i] # None /\ UNCHANGED issued
      <4> HIDE ReachAssumption
      <4> QED
        BY <3>1, <3>2
    <3>3. ASSUME NEW t \in Tunnel!Times, issued[i] = None, issued' = [issued EXCEPT ![i] = t]
          PROVE  /\ issued' \in [Ids -> Tunnel!Times \cup {None}] /\ issued'[i] = t
                 /\ \A j \in Ids : issued'[j] = issued[j] \/ j = i
      BY <3>1, <3>3
    <3>4. None \notin Tunnel!Times
      BY DEF Tunnel!Times, TunnelInv, Tunnel!TypeOK
    <3>5. CASE issued[i] = None /\ \E t \in Tunnel!Times : issued' = [issued EXCEPT ![i] = t]
      <4>1. PICK t \in Tunnel!Times : issued' = [issued EXCEPT ![i] = t]
        BY <3>5
      <4> QED
        BY <3>3, <3>4, <3>5, <4>1
    <3> QED
      BY <1>2, <3>2, <3>5
  <2>4. Tunnel!TypeOK'
    BY <1>2, <2>2, <2>3, SameSets DEF TunnelInv, Tunnel!TypeOK, Tunnel!InState
  <2>5. /\ conn'[c].id = i
        /\ \A d \in Conns \ {c} : conn'[d] = conn[d]
    BY <1>2 DEF TunnelInv, Tunnel!TypeOK
  <2>6. OnceInv'
    <3>1. ASSUME NEW j \in Ids
          PROVE  Owed(j)'
      <4>1. Owed(j)
        BY DEF TunnelInv, OnceInv
      <4>2. CASE issued'[j] = issued[j]
        BY <1>2, <4>1, <4>2 DEF Owed, Tunnel!Acceptable
      <4>3. CASE issued'[j] # issued[j]
        <5>1. issued[j] = None /\ accepted'[j] = 0 /\ seen'[j] = None
          BY <1>2, <2>3, <4>1, <4>3 DEF Owed
        <5>2. accepted'[j] <= exposed'[j] /\ accepted'[j] <= 1 + exposed'[j]
          BY <1>1, <1>2, <5>1
        <5> QED
          BY <5>1, <5>2 DEF Owed
      <4> QED
        BY <4>2, <4>3
    <3>2. \A d \in Conns : conn'[d].state = "sent" =>
            conn'[d].id \in Ids /\ issued'[conn'[d].id] # None
      BY <1>2, <2>3, <2>5 DEF TunnelInv, OnceInv
    <3> QED
      BY <3>1, <3>2 DEF OnceInv
  <2> QED
    BY <2>4, <2>6 DEF TunnelInv
<1>3. ASSUME NEW c \in Conns, NEW i \in Ids, Tunnel!Issue(i, c) \/ Tunnel!Repeat(i, c)
      PROVE  TunnelInv'
  <2>1. \A t \in (clock - Skew)..(clock + Skew) : t \in Tunnel!Times
    BY <1>1 DEF Tunnel!Times, TunnelInv, Tunnel!TypeOK
  <2> QED
    BY <1>2, <1>3, <2>1 DEF Tunnel!Issue, Tunnel!Repeat, Tunnel!InState
<1>4. ASSUME NEW c \in Conns, Tunnel!Open(c)
      PROVE  TunnelInv'
  <2>1. PICK i \in Ids : /\ i = conn[c].id /\ issued[i] \in Int /\ conn[c].state = "sent"
    BY <1>1, <1>4 DEF Tunnel!Open, Tunnel!InState, TunnelInv, OnceInv
  <2>2. PICK p : p = Tunnel!Purged
    OBVIOUS
  <2>3. /\ p \in [Ids -> Tunnel!Times \cup {None}]
        /\ \A j \in Ids : \/ p[j] = seen[j]
                          \/ p[j] = None /\ seen[j] # None /\ clock - seen[j] > 2 * MaxAge
    BY <2>2 DEF Tunnel!Purged, TunnelInv, Tunnel!TypeOK
  <2>4. \A j \in Ids : p[j] \in {None, issued[j]} /\ seen[j] \in {None, issued[j]}
    BY <2>3 DEF TunnelInv, OnceInv, Owed
  <2>5. \A j \in Ids : p[j] = None /\ clock - issued[j] <= MaxAge => seen[j] = None
    <3> SUFFICES ASSUME NEW j \in Ids, p[j] = None, clock - issued[j] <= MaxAge, seen[j] # None
                 PROVE  FALSE
      OBVIOUS
    <3>1. seen[j] = issued[j] /\ issued[j] \in Int /\ clock - issued[j] > 2 * MaxAge
      BY <1>1, <2>3, <2>4
    <3> QED
      BY <1>1, <3>1
  <2>6. /\ UNCHANGED <<clock, issued, active, upsets, exposed>>
        /\ \/ seen' = p /\ UNCHANGED accepted
              /\ conn' = [conn EXCEPT ![c] = [state |-> "free", id |-> None]]
           \/ /\ Tunnel!Fresh(i) /\ p[i] = None
              /\ seen' = [p EXCEPT ![i] = issued[i]]
              /\ \/ /\ conn' = [conn EXCEPT ![c] = [state |-> "free", id |-> None]]
                    /\ UNCHANGED accepted
                 \/ /\ conn' = [conn EXCEPT ![c].state = "connecting"]
                    /\ accepted' = [accepted EXCEPT ![i] = @ + 1]
    BY <1>4, <2>1, <2>2
       DEF Tunnel!Open, Tunnel!Closed, Tunnel!Becomes, Tunnel!Free
  <2>7. Tunnel!Fresh(i) => clock - issued[i] <= MaxAge
    BY <1>1, <2>1 DEF Tunnel!Fresh, Tunnel!Abs
  <2>8. Tunnel!Fresh(i) /\ p[i] = None => accepted[i] <= exposed[i]
    <3> SUFFICES ASSUME Tunnel!Fresh(i), p[i] = None
                 PROVE  accepted[i] <= exposed[i]
      OBVIOUS
    <3>1. issued[i] # None /\ Owed(i)
      BY <2>1 DEF TunnelInv, OnceInv
    <3>2. Tunnel!Acceptable(i)
      BY <2>5, <2>7, <3>1 DEF Tunnel!Acceptable
    <3> QED
      BY <3>1, <3>2 DEF Owed
  <2>9. /\ conn' \in [Conns -> [state : Tunnel!States, id : Ids \cup {None}]]
        /\ active' = Cardinality({d \in Conns : conn'[d].state = "open"})
        /\ conn'[c].state # "sent" /\ \A d \in Conns \ {c} : conn'[d] = conn[d]
    <3>1. PICK r \in [state : Tunnel!States, id : Ids \cup {None}] :
            /\ conn' = [conn EXCEPT ![c] = r] /\ r.state \in {"free", "connecting"}
      <4>1. CASE conn' = [conn EXCEPT ![c] = [state |-> "free", id |-> None]]
        <5>1. [state |-> "free", id |-> None] \in [state : Tunnel!States, id : Ids \cup {None}]
          BY DEF Tunnel!States
        <5> QED
          BY <4>1, <5>1
      <4>2. CASE conn' = [conn EXCEPT ![c].state = "connecting"]
        <5>1. PICK r : r = [conn[c] EXCEPT !.state = "connecting"]
          OBVIOUS
        <5>2. r \in [state : Tunnel!States, id : Ids \cup {None}] /\ r.state = "connecting"
          BY <5>1 DEF Tunnel!States, TunnelInv, Tunnel!TypeOK
        <5> QED
          BY <4>2, <5>1, <5>2
      <4> QED
        BY <2>6, <4>1, <4>2
    <3>2. active' = active + 0 - 0
      BY <1>1, <2>6
    <3>3. /\ conn' \in [Conns -> [state : Tunnel!States, id : Ids \cup {None}]]
          /\ active' = Cardinality({d \in Conns : conn'[d].state = "open"})
      BY <2>1, <3>1, <3>2, Counted DEF TunnelInv
    <3> QED
      BY <3>1, <3>3 DEF TunnelInv, Tunnel!TypeOK
  <2>10. /\ seen' \in [Ids -> Tunnel!Times \cup {None}] /\ accepted' \in [Ids -> Nat]
    <3>1. issued[i] \in Tunnel!Times
      BY <2>1 DEF TunnelInv, Tunnel!TypeOK
    <3> QED
      BY <2>3, <2>6, <3>1 DEF TunnelInv, Tunnel!TypeOK
  <2>11. Tunnel!TypeOK'
    BY <2>6, <2>9, <2>10, SameSets DEF TunnelInv, Tunnel!TypeOK, Tunnel!InState
  <2>12. OnceInv'
    <3>1. \A d \in Conns : conn'[d].state = "sent" =>
            conn'[d].id \in Ids /\ issued'[conn'[d].id] # None
      BY <2>6, <2>9 DEF TunnelInv, OnceInv
    <3>2. ASSUME NEW j \in Ids
          PROVE  Owed(j)'
      <4>1. Owed(j) /\ accepted[j] \in Nat /\ exposed[j] \in Nat
        BY <1>1 DEF TunnelInv, OnceInv
      <4>2. ASSUME seen'[j] = p[j], accepted'[j] = accepted[j]
            PROVE  Owed(j)'
        <5>1. Tunnel!Acceptable(j)' => Tunnel!Acceptable(j)
          BY <2>5, <2>6, <4>2 DEF Tunnel!Acceptable
        <5> QED
          BY <2>4, <2>6, <4>1, <4>2, <5>1 DEF Owed
      <4>3. CASE seen' = p /\ UNCHANGED accepted
        BY <4>2, <4>3
      <4>4. CASE /\ Tunnel!Fresh(i) /\ p[i] = None
                 /\ seen' = [p EXCEPT ![i] = issued[i]]
                 /\ UNCHANGED accepted \/ accepted' = [accepted EXCEPT ![i] = @ + 1]
        <5>1. CASE j = i
          <6>1. /\ seen'[j] = issued[i] /\ accepted'[j] \in {accepted[j], accepted[j] + 1}
                /\ issued[i] # None
            BY <2>1, <2>3, <4>4, <5>1 DEF TunnelInv, Tunnel!TypeOK
          <6>2. accepted'[j] <= 1 + exposed[j]
            BY <2>8, <4>1, <4>4, <5>1, <6>1
          <6> QED
            BY <2>6, <5>1, <6>1, <6>2 DEF Owed, Tunnel!Acceptable
        <5>2. CASE j # i
          <6>1. seen'[j] = p[j] /\ accepted'[j] = accepted[j]
            BY <2>3, <4>4, <5>2 DEF TunnelInv, Tunnel!TypeOK
          <6> QED
            BY <4>2, <6>1
        <5> QED
          BY <5>1, <5>2
      <4> QED
        BY <2>6, <4>3, <4>4
    <3> QED
      BY <3>1, <3>2 DEF OnceInv
  <2> QED
    BY <2>11, <2>12 DEF TunnelInv
<1>5. ASSUME NEW c \in Conns,
             Tunnel!Abandon(c) \/ Tunnel!Connected(c) \/ Tunnel!Unavailable(c) \/ Tunnel!Close(c)
      PROVE  TunnelInv'
  <2>1. /\ UNCHANGED <<clock, issued, seen, upsets, accepted, exposed>>
        /\ \/ /\ conn[c].state # "open" /\ UNCHANGED active
              /\ \/ Tunnel!Closed(c) \/ Tunnel!Becomes(c, "abandoned")
           \/ conn[c].state # "open" /\ active' = active + 1 /\ Tunnel!Becomes(c, "open")
           \/ conn[c].state = "open" /\ active' = active - 1 /\ Tunnel!Closed(c)
    BY <1>5 DEF Tunnel!Abandon, Tunnel!Connected, Tunnel!Unavailable, Tunnel!Close, Tunnel!InState
  <2>2. \A s \in {"abandoned", "open"} : \E r :
          /\ r \in [state : Tunnel!States \ {"sent"}, id : Ids \cup {None}] /\ r.state = s
          /\ Tunnel!Becomes(c, s) => conn' = [conn EXCEPT ![c] = r]
    <3> SUFFICES ASSUME NEW s \in {"abandoned", "open"}
                 PROVE  \E r :
          /\ r \in [state : Tunnel!States \ {"sent"}, id : Ids \cup {None}] /\ r.state = s
          /\ Tunnel!Becomes(c, s) => conn' = [conn EXCEPT ![c] = r]
      OBVIOUS
    <3>1. PICK r : r = [conn[c] EXCEPT !.state = s]
      OBVIOUS
    <3>2. r \in [state : Tunnel!States \ {"sent"}, id : Ids \cup {None}] /\ r.state = s
      BY <3>1 DEF Tunnel!States, TunnelInv, Tunnel!TypeOK
    <3> QED
      BY <3>1, <3>2 DEF Tunnel!Becomes
  <2>3. \E r : /\ r \in [state : Tunnel!States \ {"sent"}, id : Ids \cup {None}]
               /\ r.state = "free" /\ (Tunnel!Closed(c) => conn' = [conn EXCEPT ![c] = r])
    <3>1. PICK r : r = [state |-> "free", id |-> None]
      OBVIOUS
    <3>2. r \in [state : Tunnel!States \ {"sent"}, id : Ids \cup {None}] /\ r.state = "free"
      BY <3>1 DEF Tunnel!States
    <3> QED
      BY <3>1, <3>2 DEF Tunnel!Closed, Tunnel!Free
  <2>4. PICK r : /\ r \in [state : Tunnel!States \ {"sent"}, id : Ids \cup {None}]
                 /\ conn' = [conn EXCEPT ![c] = r]
                 /\ active' = active + (IF r.state = "open" THEN 1 ELSE 0)
                                     - (IF conn[c].state = "open" THEN 1 ELSE 0)
    BY <1>1, <2>1, <2>2, <2>3
  <2> QED
    BY <2>1, <2>4, Aside
<1>6. ASSUME Tunnel!Tick
      PROVE  TunnelInv'
  <2>1. /\ clock' = clock + 1 /\ clock' \in 0..MaxTime
        /\ UNCHANGED <<issued, seen, active, conn, upsets, accepted, exposed>>
    BY <1>6 DEF Tunnel!Tick, TunnelInv, Tunnel!TypeOK
  <2>2. Tunnel!TypeOK'
    BY <2>1 DEF TunnelInv, Tunnel!TypeOK, Tunnel!InState
  <2>3. OnceInv'
    BY <1>1, <2>1 DEF TunnelInv, OnceInv, Owed, Tunnel!Acceptable
  <2> QED
    BY <2>2, <2>3 DEF TunnelInv
<1>7. ASSUME Tunnel!Upset, UNCHANGED <<issued, accepted>>,
             \A i \in Ids : Tunnel!Acceptable(i) => Tunnel!Acceptable(i)'
      PROVE  /\ upsets' \in 0..MaxUpsets /\ exposed' \in [Ids -> Nat]
             /\ \A i \in Ids : seen'[i] \in {None, issued'[i]} => Owed(i)'
  <2>1. /\ upsets' = upsets + 1 /\ upsets < MaxUpsets
        /\ exposed' = [i \in Ids |-> IF ~Tunnel!Acceptable(i) /\ Tunnel!Acceptable(i)'
                                     THEN exposed[i] + 1 ELSE exposed[i]]
    BY <1>7 DEF Tunnel!Upset
  <2>2. upsets' \in 0..MaxUpsets
    BY <2>1 DEF TunnelInv, Tunnel!TypeOK
  <2>3. exposed' \in [Ids -> Nat]
    BY <1>1, <2>1
  <2>4. ASSUME NEW i \in Ids, seen'[i] \in {None, issued'[i]}
        PROVE  Owed(i)'
    <3>1. /\ Owed(i) /\ accepted[i] \in Nat /\ exposed[i] \in Nat
          /\ issued'[i] = issued[i] /\ accepted'[i] = accepted[i]
      BY <1>1, <1>7 DEF TunnelInv, OnceInv
    <3>2. CASE ~Tunnel!Acceptable(i) /\ Tunnel!Acceptable(i)'
      <4>1. exposed'[i] = exposed[i] + 1
        BY <2>1, <3>2
      <4> QED
        BY <2>4, <3>1, <4>1 DEF Owed
    <3>3. CASE ~(~Tunnel!Acceptable(i) /\ Tunnel!Acceptable(i)')
      <4>1. exposed'[i] = exposed[i] /\ (Tunnel!Acceptable(i)' => Tunnel!Acceptable(i))
        BY <2>1, <3>3
      <4> QED
        BY <2>4, <3>1, <4>1 DEF Owed
    <3> QED
      BY <3>2, <3>3
  <2> QED
    BY <2>2, <2>3, <2>4
<1>8. CASE Tunnel!Restart
  <2>1. /\ seen' = [i \in Ids |-> None] /\ active' = 0
        /\ conn' = [c \in Conns |-> Tunnel!Free]
        /\ UNCHANGED <<clock, issued, accepted>> /\ Tunnel!Upset
    BY <1>8 DEF Tunnel!Restart
  <2>2. \A i \in Ids : Tunnel!Acceptable(i) => Tunnel!Acceptable(i)'
    BY <2>1 DEF Tunnel!Acceptable
  <2>3. /\ upsets' \in 0..MaxUpsets /\ exposed' \in [Ids -> Nat]
        /\ \A i \in Ids : Owed(i)'
    BY <1>7, <2>1, <2>2
  <2>4. active' = Tunnel!Cardinality({c \in Conns : Tunnel!InState(c, "open")'})
    <3>1. {c \in Conns : Tunnel!InState(c, "open")'} = {}
      BY <2>1 DEF Tunnel!InState, Tunnel!Free
    <3>2. Tunnel!Cardinality({}) = 0
      BY FS_EmptySet, SameSets
    <3> QED
      BY <2>1, <3>1, <3>2
  <2>5. conn' \in [Conns -> [state : Tunnel!States, id : Ids \cup {None}]]
    BY <2>1 DEF Tunnel!Free, Tunnel!States
  <2>6. Tunnel!TypeOK'
    BY <2>1, <2>3, <2>4, <2>5 DEF TunnelInv, Tunnel!TypeOK
  <2>7. \A c \in Conns : conn'[c].state # "sent"
    BY <2>1 DEF Tunnel!Free
  <2> QED
    BY <2>3, <2>6, <2>7 DEF TunnelInv, OnceInv
<1>9. CASE Tunnel!SetBack
  <2>1. /\ clock' \in 0..(clock - 1) /\ UNCHANGED <<issued, seen, active, conn, accepted>>
        /\ Tunnel!Upset
    BY <1>9 DEF Tunnel!SetBack
  <2>2. clock' \in 0..MaxTime /\ clock' \in Int /\ clock' <= clock
    BY <1>1, <2>1 DEF TunnelInv, Tunnel!TypeOK
  <2>3. \A i \in Ids : Tunnel!Acceptable(i) => Tunnel!Acceptable(i)'
    BY <1>1, <2>1, <2>2 DEF Tunnel!Acceptable
  <2>4. \A i \in Ids : seen'[i] \in {None, issued'[i]}
    BY <2>1 DEF TunnelInv, OnceInv, Owed
  <2>5. /\ upsets' \in 0..MaxUpsets /\ exposed' \in [Ids -> Nat]
        /\ \A i \in Ids : Owed(i)'
    BY <1>7, <2>1, <2>3, <2>4
  <2>6. Tunnel!TypeOK'
    BY <2>1, <2>2, <2>5 DEF TunnelInv, Tunnel!TypeOK, Tunnel!InState
  <2> QED
    BY <2>1, <2>5, <2>6 DEF TunnelInv, OnceInv
<1>10. CASE UNCHANGED Tunnel!tunnelVars
  BY <1>10 DEF Tunnel!tunnelVars, TunnelInv, OnceInv, Owed, Tunnel!Acceptable, Tunnel!TypeOK,
     Tunnel!InState
<1> QED
  BY <1>3, <1>4, <1>5, <1>6, <1>8, <1>9, <1>10 DEF Tunnel!Next

\* A signed request opens one tunnel, and one more at most for each restart of the runner or
\* reversal of its clock that makes its line acceptable again.
THEOREM RequestsOpenOnce == Tunnel!Spec => []OneTunnelPerRequest
<1>1. TunnelInv => OneTunnelPerRequest
  BY DEF TunnelInv, OnceInv, Owed, OneTunnelPerRequest, Tunnel!OneTunnelPerRequest
<1> QED
  BY <1>1, TunnelInit, TunnelStepInv, PTL DEF Tunnel!Spec

-----------------------------------------------------------------------------
(* The directories.                                                          *)

Dirs    == Directory!Dirs
Volume  == Directory!Volume
Outside == Directory!Outside

\* The directory m is one for the account u: made for it, or deleted since, not inside of
\* another account's, and not recorded for another account.
For(u, m) ==
  /\ made[m] \in {u, "gone"} /\ m[1] \notin Inside
  /\ \A v \in Users \ {u} : record[v] # m

\* A directory in use was made for its account and cannot have been deleted; a container
\* with a volume has no directory recorded.
AccountInv(u) ==
  /\ u \in Legacy => record[u] = Outside /\ box[u] = Outside /\ old[u] = None
  /\ u \notin Legacy => /\ record[u] \in Dirs \cup {None} /\ box[u] \in Dirs \cup {Volume, None}
                        /\ old[u] \in {Volume, None}
  /\ record[u] \in Dirs => For(u, record[u]) /\ box[u] # Volume
  /\ box[u] \in Dirs => made[box[u]] = u /\ box[u][1] \notin Inside

Steps == {"idle", "publish", "users", "assign", "choose", "mkdir", "record", "copy", "verify",
        "rename", "provision", "drop", "undo", "back", "remove"}

Passes == [pc : Steps, user : Users \cup {None}, root : Roots \cup {None},
           mount : Directory!Mounts, left : SUBSET Directory!Suffixes,
           move : BOOLEAN, renamed : BOOLEAN]

\* What the pass relies on about the account it works for, at each of its steps.
PassInv ==
  LET u == pass.user
      m == pass.mount
      has(r, b, o) == record[u] = r /\ box[u] = b /\ old[u] = o
  IN
  /\ pass \in Passes
  /\ pass.pc \notin {"idle", "publish", "users"} => u \in Users \ Legacy
  /\ pass.pc \in {"assign", "choose", "mkdir"} =>
       has(None, IF pass.move THEN Volume ELSE None, None) /\ ~pass.renamed
  /\ pass.pc = "mkdir" => /\ pass.root \in Roots
                          /\ \A n \in pass.left, v \in Users \ {u} : record[v] # <<pass.root, n>>
  /\ pass.pc \in {"record", "copy", "verify", "rename", "provision", "drop", "undo", "back",
                  "remove"} /\ m \in Dirs => For(u, m)
  /\ pass.pc \in {"copy", "rename", "drop", "undo", "back", "remove"} => pass.move /\ m \in Dirs
  /\ pass.pc = "record" => m \in Dirs /\ IF pass.move THEN box[u] = m /\ record[u] = None
                                         ELSE has(None, None, None)
  /\ pass.pc = "verify" =>
       m \in Dirs /\ IF pass.move THEN has(None, Volume, None) /\ ~pass.renamed
                     ELSE has(m, None, None)
  /\ pass.pc = "provision" =>
       IF pass.move THEN m \in Dirs /\ pass.renamed /\ has(None, None, Volume)
       ELSE \/ m = Volume /\ has(None, None, None)
            \/ m \in Dirs /\ has(m, None, None)
  /\ pass.pc \in {"copy", "rename"} => has(None, Volume, None) /\ ~pass.renamed
  /\ pass.pc \in {"undo", "back", "remove"} => record[u] = None
  /\ pass.pc \in {"undo", "back"} /\ pass.renamed => old[u] = Volume
  /\ \/ pass.pc \in {"back", "remove"}
     \/ pass.pc = "undo" /\ ~pass.renamed
     => box[u] \in {None, Volume}

HoldInv ==
  /\ made \in [Dirs -> Users \cup {None, "operator", "gone"}]
  /\ record \in [Users -> Directory!Mounts] /\ box \in [Users -> Directory!Mounts]
  /\ old \in [Users -> Directory!Mounts] /\ volumes \subseteq Users
  /\ \A u \in Users : AccountInv(u)

\* The files of the onboarding, the requests of the installer and the verdicts.
Verdicts == [root : Roots \cup {None}, state : {"none", "ready", "invalid"}]

WorldInv ==
  /\ installation \in [root : Roots \cup {None}, done : BOOLEAN]
  /\ installer \in [Installers -> [step : {"idle", "save", "observe", "complete"},
                                   root : Roots \cup {None}]]
  /\ status \in [verdict : Verdicts, reserved : BOOLEAN]
  /\ cache \in [key : Roots \cup {None}, verdict : Verdicts]

DirectoryInv == WorldInv /\ HoldInv /\ PassInv

LEMMA MountsDiffer ==
  /\ Volume # Outside /\ Volume \notin Dirs /\ Outside \notin Dirs
  /\ None \notin Dirs \cup {Volume, Outside}
  /\ \A r \in Roots, n \in Directory!Suffixes : <<r, n>> \in Dirs
  /\ Directory!Mounts = Dirs \cup {Volume, Outside, None}
<1> USE ReachAssumption
        DEF Directory!WorkspacesAssumption, Dirs, Volume, Outside, Directory!Dirs,
            Directory!Volume, Directory!Outside, Directory!Mounts, Directory!Suffixes
<1>1. Volume # Outside /\ None \notin {Volume, Outside}
  OBVIOUS
<1>2. \A d \in Dirs : d # Volume /\ d # Outside
  <2>1. \A d \in Dirs : \E r \in Roots, n \in 1..MaxNames : d = <<r, n>>
    OBVIOUS
  <2>2. \A r, n : <<r, n>> # <<"volume">> /\ <<r, n>> # <<"legacy">>
    OBVIOUS
  <2> QED
    BY <2>1, <2>2
<1>3. None \notin Dirs
  OBVIOUS
<1> QED
  BY <1>1, <1>2, <1>3

LEMMA PassTo ==
  ASSUME pass \in Passes, NEW pc \in Steps
  PROVE  LET p == Directory!To(pc) IN
         /\ p \in Passes /\ p.pc = pc /\ p.user = pass.user /\ p.root = pass.root
         /\ p.mount = pass.mount /\ p.left = pass.left /\ p.move = pass.move
         /\ p.renamed = pass.renamed
BY DEF Directory!To, Passes

LEMMA PassRests ==
  /\ Directory!NoPass \in Passes /\ Directory!NoPass.pc = "idle"
  /\ Directory!Thrown \in Passes /\ Directory!Thrown.pc = "users"
BY MountsDiffer DEF Directory!NoPass, Directory!Thrown, Passes, Steps

LEMMA DirectoryInit == Directory!Init => DirectoryInv
<1> SUFFICES ASSUME Directory!Init
             PROVE  DirectoryInv
  OBVIOUS
<1> USE ReachAssumption, MountsDiffer DEF Directory!WorkspacesAssumption
<1>1. WorldInv
  BY DEF Directory!Init, WorldInv, Directory!NoVerdict, Directory!Resting, Verdicts
<1>2. HoldInv
  BY DEF Directory!Init, HoldInv, AccountInv, Outside, Dirs
<1>3. PassInv
  BY PassRests DEF Directory!Init, PassInv
<1> QED
  BY <1>1, <1>2, <1>3 DEF DirectoryInv

\* The invariant is about TypeOK and more.
LEMMA DirectoryTypes == DirectoryInv => Directory!TypeOK
BY MountsDiffer
   DEF DirectoryInv, WorldInv, HoldInv, PassInv, Passes, Verdicts, Directory!TypeOK, Dirs

\* The probe of a root leaves a verdict.
LEMMA ProbeLeads ==
  ASSUME WorldInv, NEW r \in Roots \cup {None}, Directory!Probe(r)
  PROVE  cache' \in [key : Roots \cup {None}, verdict : Verdicts]
<1>1. CASE r = None
  BY <1>1 DEF WorldInv, Directory!Probe, Directory!NoVerdict, Verdicts
<1>2. CASE r # None
  BY <1>2 DEF WorldInv, Directory!Probe, Verdicts
<1> QED
  BY <1>1, <1>2

holdings == <<made, record, box, old, volumes>>

\* Whatever happens to the files and verdicts, they stay well formed.
LEMMA WorldStep ==
  ASSUME DirectoryInv, [Directory!Next]_(Directory!workspaceVars)
  PROVE  WorldInv'
<1> USE DEF DirectoryInv
<1>1. ASSUME NEW h \in Installers, Directory!Onboard(h)
      PROVE  WorldInv'
  <2>1. UNCHANGED <<status, cache>>
    BY <1>1 DEF Directory!Onboard, Directory!SetRoot, Directory!SaveRoot, Directory!Look,
                Directory!Observed, Directory!Complete, Directory!Request
  <2>2. installer[h].root \in Roots \cup {None} /\ installation.root \in Roots \cup {None}
    BY DEF WorldInv
  <2>3. CASE \E s \in {"save", "observe"}, r \in Roots \cup {None} : Directory!Request(h, s, r)
    BY <2>1, <2>3 DEF WorldInv, Directory!Request
  <2>4. CASE Directory!SaveRoot(h)
    BY <2>1, <2>2, <2>4 DEF WorldInv, Directory!SaveRoot, Directory!Resting
  <2>5. CASE Directory!Observed(h)
    BY <2>1, <2>2, <2>5 DEF WorldInv, Directory!Observed, Directory!Resting
  <2>6. CASE Directory!Complete(h)
    BY <2>1, <2>2, <2>6 DEF WorldInv, Directory!Complete, Directory!Resting
  <2> QED
    BY <1>1, <2>2, <2>3, <2>4, <2>5, <2>6
       DEF Directory!Onboard, Directory!SetRoot, Directory!Look
<1>2. CASE Directory!Publish
  <2>1. UNCHANGED <<installation, installer>>
    BY <1>2 DEF Directory!Publish, Directory!onboarding
  <2>2. CASE UNCHANGED cache /\ status' = [verdict |-> Directory!NoVerdict, reserved |-> FALSE]
    BY <2>1, <2>2 DEF WorldInv, Directory!NoVerdict, Verdicts
  <2>3. CASE Directory!Probe(pass.root) /\ status' = [verdict |-> cache'.verdict, reserved |-> TRUE]
    <3>1. cache' \in [key : Roots \cup {None}, verdict : Verdicts]
      <4>1. pass.root \in Roots \cup {None}
        BY DEF PassInv, Passes
      <4> QED
        BY <2>3, <4>1, ProbeLeads
    <3> QED
      BY <2>1, <2>3, <3>1 DEF WorldInv
  <2> QED
    BY <1>2, <2>2, <2>3 DEF Directory!Publish
<1>3. CASE Directory!Choose
  <2>1. UNCHANGED <<installation, installer, status>>
    BY <1>3 DEF Directory!Choose, Directory!onboarding
  <2>2. CASE UNCHANGED cache
    BY <2>1, <2>2 DEF WorldInv
  <2>3. CASE Directory!Probe(pass.root)
    <3>1. cache' \in [key : Roots \cup {None}, verdict : Verdicts]
      <4>1. pass.root \in Roots \cup {None}
        BY DEF PassInv, Passes
      <4> QED
        BY <2>3, <4>1, ProbeLeads
    <3> QED
      BY <2>1, <3>1 DEF WorldInv
  <2> QED
    BY <1>3, <2>2, <2>3 DEF Directory!Choose
<1>4. CASE Directory!Crash
  BY <1>4 DEF WorldInv, Directory!Crash, Directory!onboarding, Directory!NoVerdict, Verdicts
<1>5. CASE UNCHANGED <<installation, installer, status, cache>>
  BY <1>5 DEF WorldInv
<1> QED
  BY <1>1, <1>2, <1>3, <1>4, <1>5
     DEF Directory!Next, Directory!HostChanges, Directory!PassBegin, Directory!PassEnd,
         Directory!Account, Directory!Create, Directory!Move, Directory!Work, Directory!Assign,
         Directory!Mkdir, Directory!Record, Directory!CopyVolume, Directory!Verify,
         Directory!SetAside, Directory!Provision, Directory!Drop, Directory!Undo, Directory!Back,
         Directory!Remove, Directory!onboarding, Directory!workspaceVars

\* Steps that leave the directories and the containers as they are, and the pass too or
\* between two accounts.
LEMMA LooseStep ==
  ASSUME DirectoryInv, UNCHANGED holdings,
         \/ UNCHANGED pass
         \/ pass' \in Passes /\ pass'.pc \in {"idle", "publish", "users"}
  PROVE  HoldInv' /\ PassInv'
<1>1. HoldInv'
  BY DEF DirectoryInv, HoldInv, AccountInv, For, holdings
<1>2. CASE UNCHANGED pass
  <2>1. PassInv'
    BY <1>2 DEF DirectoryInv, PassInv, For, holdings
  <2> QED
    BY <1>1, <2>1
<1>3. CASE pass' \in Passes /\ pass'.pc \in {"idle", "publish", "users"}
  <2>1. PassInv'
    BY <1>3 DEF PassInv
  <2> QED
    BY <1>1, <2>1
<1> QED
  BY <1>2, <1>3

\* What the host does is not to a directory in use, nor to one given to an account.
LEMMA HostStep ==
  ASSUME DirectoryInv, Directory!HostChanges
  PROVE  HoldInv' /\ PassInv'
<1> USE MountsDiffer, ReachAssumption DEF Directory!WorkspacesAssumption
<1>1. UNCHANGED <<record, old, volumes, pass>>
  BY DEF Directory!HostChanges
<1>2. ASSUME NEW d \in Dirs, UNCHANGED box,
             \/ /\ ~Directory!Exists(d) /\ pass.mount # d /\ \A u \in Users : record[u] # d
                /\ made' = [made EXCEPT ![d] = "operator"]
             \/ /\ ~Directory!Used(d)
                /\ made' = [made EXCEPT ![d] = "gone"]
      PROVE  HoldInv' /\ PassInv'
  <2>1. /\ made' \in [Dirs -> Users \cup {None, "operator", "gone"}]
        /\ \A e \in Dirs \ {d} : made'[e] = made[e]
        /\ made'[d] \in {"operator", "gone"}
    BY <1>2 DEF DirectoryInv, HoldInv
  <2>2. \A u \in Users : box[u] # d
    <3> SUFFICES ASSUME NEW u \in Users, box[u] = d
                 PROVE  FALSE
      OBVIOUS
    <3>1. made[d] = u /\ Directory!Used(d)
      BY DEF DirectoryInv, HoldInv, AccountInv, Directory!Used
    <3> QED
      BY <1>2, <3>1 DEF Directory!Exists
  <2>3. \A u \in Users : /\ record[u] = d => made'[d] = "gone"
                         /\ pass.mount = d => made'[d] = "gone"
    BY <1>2, <2>1 DEF DirectoryInv, HoldInv
  <2>4. ASSUME NEW u \in Users
        PROVE  AccountInv(u)'
    BY <1>1, <1>2, <2>1, <2>2, <2>3 DEF DirectoryInv, HoldInv, AccountInv, For
  <2>5. HoldInv'
    BY <1>1, <1>2, <2>1, <2>4 DEF DirectoryInv, HoldInv
  <2>6. PassInv'
    BY <1>1, <1>2, <2>1, <2>3 DEF DirectoryInv, PassInv, For
  <2> QED
    BY <2>5, <2>6
<1>3. ASSUME pass.pc = "idle", UNCHANGED made,
             NEW u \in Users \ Legacy, box' = [box EXCEPT ![u] = None]
      PROVE  HoldInv' /\ PassInv'
  <2>1. /\ box' \in [Users -> Directory!Mounts] /\ box'[u] = None
        /\ \A v \in Users \ {u} : box'[v] = box[v]
    BY <1>3 DEF DirectoryInv, HoldInv
  <2>2. ASSUME NEW v \in Users
        PROVE  AccountInv(v)'
    BY <1>1, <1>3, <2>1 DEF DirectoryInv, HoldInv, AccountInv, For
  <2>3. HoldInv'
    BY <1>1, <1>3, <2>1, <2>2 DEF DirectoryInv, HoldInv
  <2>4. PassInv'
    BY <1>1, <1>3 DEF DirectoryInv, PassInv
  <2> QED
    BY <2>3, <2>4
<1> QED
  BY <1>2, <1>3 DEF Directory!HostChanges, Directory!At, Dirs

\* Steps of the pass that only read.
LEMMA ReadStep ==
  ASSUME DirectoryInv,
         \/ \E u \in Users : Directory!Create(u) \/ Directory!Move(u)
         \/ Directory!Assign \/ Directory!Choose
         \/ Directory!CopyVolume \/ Directory!Verify
  PROVE  HoldInv' /\ PassInv'
<1> USE MountsDiffer DEF Directory!At
<1>1. UNCHANGED holdings
  BY DEF holdings, Directory!containers, Directory!Create, Directory!Move, Directory!Assign,
         Directory!Choose, Directory!CopyVolume, Directory!Verify
<1>2. HoldInv'
  BY <1>1 DEF DirectoryInv, HoldInv, AccountInv, For, holdings
<1>3. ASSUME pass' = Directory!Thrown
      PROVE  PassInv'
  BY <1>1, <1>3, PassRests, LooseStep
<1>4. ASSUME NEW u \in Users, Directory!Create(u)
      PROVE  PassInv'
  <2>1. box[u] = None /\ old[u] = None /\ u \notin Legacy
    BY <1>4 DEF Directory!Create, DirectoryInv, HoldInv, AccountInv
  <2>2. PICK m, s : m = record[u] /\ s = Directory!Suffixes
    OBVIOUS
  <2>3. m \in Dirs \cup {None} /\ (m \in Dirs => For(u, m))
    BY <2>1, <2>2 DEF DirectoryInv, HoldInv, AccountInv
  <2>4. /\ pass' \in Passes /\ pass'.user = u /\ ~pass'.move /\ ~pass'.renamed
        /\ \/ m \in Dirs /\ pass'.pc = "verify" /\ pass'.mount = m
           \/ m = None /\ pass'.pc = "assign"
           \/ m = None /\ pass'.pc = "provision" /\ pass'.mount = Volume
    <3>1. PICK job : job = [Directory!NoPass EXCEPT !.user = u]
      OBVIOUS
    <3>2. /\ job \in Passes /\ job.user = u /\ ~job.move /\ ~job.renamed
      BY <3>1, PassRests DEF Directory!NoPass, Passes
    <3>3. CASE m # None
      <4>1. PICK x : x = [job EXCEPT !.pc = "verify"]
        OBVIOUS
      <4>2. pass' = [x EXCEPT !.mount = m]
        BY <1>4, <2>2, <3>1, <3>3, <4>1 DEF Directory!Create
      <4>3. x \in Passes /\ x.user = u /\ ~x.move /\ ~x.renamed /\ x.pc = "verify"
        BY <3>2, <4>1 DEF Passes, Steps
      <4> QED
        BY <2>3, <3>3, <4>2, <4>3 DEF Passes
    <3>4. CASE m = None /\ installation.root # None /\ u \notin volumes
      <4>1. PICK x : x = [job EXCEPT !.pc = "assign"]
        OBVIOUS
      <4>2. pass' = [x EXCEPT !.left = s]
        BY <1>4, <2>2, <3>1, <3>4, <4>1 DEF Directory!Create
      <4>3. x \in Passes /\ x.user = u /\ ~x.move /\ ~x.renamed /\ x.pc = "assign"
        BY <3>2, <4>1 DEF Passes, Steps
      <4> QED
        BY <2>2, <3>4, <4>2, <4>3 DEF Passes
    <3>5. CASE m = None /\ ~(installation.root # None /\ u \notin volumes)
      <4>1. PICK x : x = [job EXCEPT !.pc = "provision"]
        OBVIOUS
      <4>2. pass' = [x EXCEPT !.mount = Volume]
        BY <1>4, <2>2, <3>1, <3>5, <4>1 DEF Directory!Create, Volume
      <4>3. x \in Passes /\ x.user = u /\ ~x.move /\ ~x.renamed /\ x.pc = "provision"
        BY <3>2, <4>1 DEF Passes, Steps
      <4> QED
        BY <3>5, <4>2, <4>3 DEF Passes
    <3> QED
      BY <3>3, <3>4, <3>5
  <2> QED
    BY <1>1, <2>1, <2>2, <2>3, <2>4 DEF PassInv, For, holdings
<1>5. ASSUME NEW u \in Users, Directory!Move(u)
      PROVE  PassInv'
  <2>1. box[u] = Volume /\ old[u] = None /\ u \notin Legacy /\ record[u] = None
    BY <1>5 DEF Directory!Move, DirectoryInv, HoldInv, AccountInv, Volume
  <2>2. PICK n \in Directory!Suffixes :
          pass' = [pc |-> "assign", user |-> u, root |-> None, mount |-> None, left |-> {n},
                   move |-> TRUE, renamed |-> FALSE]
    BY <1>5 DEF Directory!Move, Directory!NoPass
  <2>3. pass' \in Passes
    BY <2>2 DEF Passes, Steps
  <2> QED
    BY <1>1, <2>1, <2>2, <2>3 DEF PassInv, holdings
<1>6. ASSUME Directory!Assign
      PROVE  PassInv'
  <2>1. /\ pass' \in Passes /\ pass'.pc = "choose" /\ pass'.user = pass.user
        /\ pass'.move = pass.move /\ pass'.renamed = pass.renamed /\ pass.pc = "assign"
    <3>1. installation.root \in Roots \cup {None} /\ pass \in Passes
      BY DEF DirectoryInv, WorldInv, PassInv
    <3>2. PICK x : x = [pass EXCEPT !.pc = "choose"]
      OBVIOUS
    <3>3. x \in Passes /\ x.pc = "choose" /\ x.user = pass.user
          /\ x.move = pass.move /\ x.renamed = pass.renamed
      BY <3>1, <3>2 DEF Passes, Steps
    <3>4. pass' = [x EXCEPT !.root = installation.root] /\ pass.pc = "assign"
      BY <1>6, <3>2 DEF Directory!Assign
    <3> QED
      BY <3>1, <3>3, <3>4 DEF Passes
  <2> QED
    BY <1>1, <2>1 DEF DirectoryInv, PassInv, holdings
<1>7. ASSUME Directory!Choose
      PROVE  PassInv'
  <2>1. CASE pass' = Directory!Thrown
    BY <1>3, <2>1
  <2>2. CASE pass' # Directory!Thrown
    <3>1. /\ Directory!Probe(pass.root) /\ cache'.verdict.state = "ready" /\ pass.pc = "choose"
          /\ pass' = [pass EXCEPT !.pc = "mkdir",
                                  !.left = @ \ Directory!Taken(pass.root, pass.user)]
      BY <1>7, <2>2 DEF Directory!Choose
    <3>2. pass.root \in Roots
      BY <3>1 DEF Directory!Probe, Directory!NoVerdict, DirectoryInv, PassInv, Passes, WorldInv
    <3>3. PICK x, t : /\ x = [pass EXCEPT !.pc = "mkdir"]
                      /\ t = Directory!Taken(pass.root, pass.user)
      OBVIOUS
    <3>4. /\ x \in Passes /\ x.pc = "mkdir" /\ x.user = pass.user /\ x.root = pass.root
          /\ x.move = pass.move /\ x.renamed = pass.renamed /\ x.left = pass.left
      BY <3>3 DEF DirectoryInv, PassInv, Passes, Steps
    <3>5. pass' = [x EXCEPT !.left = x.left \ t]
      BY <3>1, <3>3, <3>4
    <3>6. /\ pass' \in Passes /\ pass'.pc = "mkdir" /\ pass'.user = pass.user
          /\ pass'.root = pass.root /\ pass'.move = pass.move /\ pass'.renamed = pass.renamed
          /\ pass'.left = pass.left \ t
      BY <3>4, <3>5 DEF Passes
    <3>7. \A n \in pass'.left, v \in Users \ {pass.user} : record[v] # <<pass.root, n>>
      <4>1. pass.left \subseteq Directory!Suffixes
        BY DEF DirectoryInv, PassInv, Passes
      <4> QED
        BY <3>3, <3>6, <4>1 DEF Directory!Taken
    <3> QED
      BY <1>1, <3>1, <3>2, <3>6, <3>7 DEF DirectoryInv, PassInv, holdings
  <2> QED
    BY <2>1, <2>2
<1>8. ASSUME Directory!CopyVolume \/ Directory!Verify
      PROVE  PassInv'
  <2>1. CASE pass' = Directory!Thrown
    BY <1>3, <2>1
  <2>2. CASE pass' # Directory!Thrown
    <3>1. PICK pc \in Steps :
            /\ pass' = Directory!To(pc)
            /\ \/ pass.pc = "copy" /\ pc \in {"verify", "undo"}
               \/ pass.pc = "verify" /\ pass.move /\ pc \in {"rename", "undo"}
               \/ pass.pc = "verify" /\ ~pass.move /\ pc = "provision"
      BY <1>8, <2>2 DEF Directory!CopyVolume, Directory!Verify, Directory!Caught, Steps,
                        DirectoryInv, PassInv
    <3>2. /\ pass' \in Passes /\ pass'.pc = pc /\ pass'.user = pass.user
          /\ pass'.mount = pass.mount /\ pass'.move = pass.move
          /\ pass'.renamed = pass.renamed
      BY <3>1, PassTo DEF DirectoryInv, PassInv
    <3> QED
      BY <1>1, <3>1, <3>2 DEF DirectoryInv, PassInv, For, holdings
  <2> QED
    BY <2>1, <2>2
<1> QED
  BY <1>2, <1>4, <1>5, <1>6, <1>7, <1>8

LEMMA FirstIsLeft ==
  ASSUME pass \in Passes, pass.left # {}
  PROVE  Directory!First \in pass.left
<1>1. pass.left \subseteq Nat
  BY DEF Passes, Directory!Suffixes
<1>2. \E n \in pass.left : \A m \in pass.left : n <= m
  <2>1. PICK less : less = {p \in Nat \X Nat : p[1] < p[2]}
    OBVIOUS
  <2>2. IsWellFoundedOn(less, Nat)
    BY <2>1, NatLessThanWellFounded DEF OpToRel
  <2>3. PICK n \in pass.left : \A m \in pass.left : <<m, n>> \notin less
    BY <1>1, <2>2, WFMin
  <2>4. \A i, j \in Nat : <<i, j>> \in less <=> i < j
    BY <2>1
  <2>5. \A i, j \in Nat : i < j \/ j <= i
    OBVIOUS
  <2>6. \A m \in pass.left : n <= m
    BY <1>1, <2>3, <2>4, <2>5
  <2> QED
    BY <2>6
<1> QED
  BY <1>2 DEF Directory!First

\* The directory d is made for the account of the pass, which goes on with it or is lost.
LEMMA MkdirMakes ==
  ASSUME DirectoryInv, pass.pc = "mkdir", UNCHANGED <<record, box, old, volumes>>,
         NEW d \in Dirs, ~Directory!Exists(d), d[1] \notin Inside,
         \A v \in Users \ {pass.user} : record[v] # d,
         made' = [made EXCEPT ![d] = pass.user],
         \/ pass' \in Passes /\ pass'.pc = "users"
         \/ /\ pass' \in Passes /\ pass'.pc = IF pass.move THEN "copy" ELSE "record"
            /\ pass'.user = pass.user /\ pass'.mount = d /\ pass'.move = pass.move
            /\ pass'.renamed = pass.renamed
  PROVE  HoldInv' /\ PassInv'
<1> USE MountsDiffer, ReachAssumption DEF Directory!WorkspacesAssumption
<1>1. PICK u \in Users \ Legacy :
        /\ u = pass.user /\ record[u] = None /\ old[u] = None
        /\ box[u] = (IF pass.move THEN Volume ELSE None) /\ ~pass.renamed
  BY DEF DirectoryInv, PassInv
<1>2. /\ made' \in [Dirs -> Users \cup {None, "operator", "gone"}] /\ made'[d] = u
      /\ \A e \in Dirs \ {d} : made'[e] = made[e]
  BY <1>1 DEF DirectoryInv, HoldInv
<1>3. \A v \in Users : box[v] # d /\ record[v] # d
  <2> SUFFICES ASSUME NEW v \in Users
               PROVE  box[v] # d /\ record[v] # d
    OBVIOUS
  <2>1. box[v] = d => made[d] = v
    BY DEF DirectoryInv, HoldInv, AccountInv
  <2> QED
    BY <1>1, <2>1 DEF Directory!Exists
<1>4. ASSUME NEW v \in Users
      PROVE  AccountInv(v)'
  BY <1>2, <1>3 DEF DirectoryInv, HoldInv, AccountInv, For
<1>5. HoldInv'
  BY <1>2, <1>4 DEF DirectoryInv, HoldInv
<1>6. PassInv'
  <2>1. CASE pass'.pc = "users"
    BY <2>1 DEF PassInv
  <2>2. CASE pass'.pc # "users"
    BY <1>1, <1>2, <1>3, <2>2 DEF PassInv, For
  <2> QED
    BY <2>1, <2>2
<1> QED
  BY <1>5, <1>6

\* The helper makes a directory that was not there, under a name that is not recorded for
\* anybody else.
LEMMA MkdirStep ==
  ASSUME DirectoryInv, Directory!Mkdir
  PROVE  HoldInv' /\ PassInv'
<1>1. UNCHANGED <<record, box, old, volumes>> /\ pass.pc = "mkdir" /\ pass \in Passes
  BY DEF Directory!Mkdir, Directory!At, Directory!containers, DirectoryInv, PassInv
<1>2. CASE UNCHANGED made /\ pass' = Directory!Thrown
  BY <1>1, <1>2, PassRests, LooseStep DEF holdings
<1>3. CASE ~(UNCHANGED made /\ pass' = Directory!Thrown)
  <2>1. pass.left # {}
    BY <1>3 DEF Directory!Mkdir
  <2>2. PICK n \in pass.left : n = Directory!First
    BY <1>1, <2>1, FirstIsLeft
  <2>3. PICK d \in Dirs : d = <<pass.root, n>>
    BY <1>1, MountsDiffer DEF DirectoryInv, PassInv, Passes
  <2>4. \/ made' = made /\ pass' = [pass EXCEPT !.left = @ \ {n}]
        \/ /\ made' = [made EXCEPT ![d] = pass.user]
           /\ ~Directory!Exists(d) /\ pass.root \notin Inside
           /\ \/ pass' = Directory!Thrown
              \/ pass' = [pass EXCEPT !.pc = IF pass.move THEN "copy" ELSE "record",
                                      !.root = None, !.left = {}, !.mount = d]
    BY <1>3, <2>1, <2>2, <2>3 DEF Directory!Mkdir
  <2>5. CASE made' = made /\ pass' = [pass EXCEPT !.left = @ \ {n}]
    <3>1. /\ pass' \in Passes /\ pass'.pc = "mkdir" /\ pass'.user = pass.user
          /\ pass'.root = pass.root /\ pass'.move = pass.move
          /\ pass'.renamed = pass.renamed /\ pass'.left \subseteq pass.left
      BY <1>1, <2>5 DEF Passes
    <3>2. PassInv'
      BY <1>1, <3>1 DEF DirectoryInv, PassInv
    <3>3. HoldInv'
      BY <1>1, <2>5 DEF DirectoryInv, HoldInv, AccountInv, For
    <3> QED
      BY <3>2, <3>3
  <2>6. CASE /\ made' = [made EXCEPT ![d] = pass.user]
             /\ ~Directory!Exists(d) /\ pass.root \notin Inside
             /\ \/ pass' = Directory!Thrown
                \/ pass' = [pass EXCEPT !.pc = IF pass.move THEN "copy" ELSE "record",
                                        !.root = None, !.left = {}, !.mount = d]
    <3>1. d[1] \notin Inside /\ \A v \in Users \ {pass.user} : record[v] # d
      BY <1>1, <2>2, <2>3, <2>6 DEF DirectoryInv, PassInv
    <3>2. \/ pass' \in Passes /\ pass'.pc = "users"
          \/ /\ pass' \in Passes /\ pass'.pc = IF pass.move THEN "copy" ELSE "record"
             /\ pass'.user = pass.user /\ pass'.mount = d /\ pass'.move = pass.move
             /\ pass'.renamed = pass.renamed
      <4>1. CASE pass' = Directory!Thrown
        BY <4>1, PassRests
      <4>2. CASE pass' = [pass EXCEPT !.pc = IF pass.move THEN "copy" ELSE "record",
                                      !.root = None, !.left = {}, !.mount = d]
        <5>1. PICK x : x = [pass EXCEPT !.pc = IF pass.move THEN "copy" ELSE "record"]
          OBVIOUS
        <5>2. /\ x \in Passes /\ x.pc = (IF pass.move THEN "copy" ELSE "record")
              /\ x.user = pass.user /\ x.move = pass.move /\ x.renamed = pass.renamed
          BY <1>1, <5>1 DEF Passes, Steps
        <5>3. PICK y : y = [x EXCEPT !.root = None]
          OBVIOUS
        <5>4. /\ y \in Passes /\ y.pc = x.pc
              /\ y.user = pass.user /\ y.move = pass.move /\ y.renamed = pass.renamed
          BY <5>2, <5>3 DEF Passes
        <5>5. PICK z : z = [y EXCEPT !.left = {}]
          OBVIOUS
        <5>6. /\ z \in Passes /\ z.pc = x.pc
              /\ z.user = pass.user /\ z.move = pass.move /\ z.renamed = pass.renamed
          BY <5>4, <5>5 DEF Passes
        <5>7. pass' = [z EXCEPT !.mount = d]
          BY <4>2, <5>1, <5>3, <5>5
        <5>8. d \in Directory!Mounts
          BY MountsDiffer
        <5> QED
          BY <5>2, <5>6, <5>7, <5>8 DEF Passes
      <4> QED
        BY <2>6, <4>1, <4>2
    <3> QED
      BY <1>1, <2>6, <3>1, <3>2, MkdirMakes
  <2> QED
    BY <2>4, <2>5, <2>6
<1> QED
  BY <1>2, <1>3

\* The account u may have r recorded, and b and o mounted; it gets them.
May(u, r, b, o) ==
  /\ u \in Users \ Legacy /\ r \in Dirs \cup {None} /\ b \in Dirs \cup {Volume, None}
  /\ o \in {Volume, None} /\ (r \in Dirs => For(u, r) /\ b # Volume)
  /\ b \in Dirs => made[b] = u /\ b[1] \notin Inside

Gets(u, r, b, o) ==
  /\ UNCHANGED made /\ volumes' \subseteq Users
  /\ record' = [record EXCEPT ![u] = r] /\ box' = [box EXCEPT ![u] = b]
  /\ old' = [old EXCEPT ![u] = o]

\* A step that changes what is recorded and what is mounted for one account only.
LEMMA GivenStep ==
  ASSUME DirectoryInv, NEW u, NEW r, NEW b, NEW o, May(u, r, b, o), Gets(u, r, b, o)
  PROVE  HoldInv' /\ record'[u] = r /\ box'[u] = b /\ old'[u] = o
                  /\ \A v \in Users \ {u} : record'[v] = record[v]
<1> USE DEF May, Gets
<1>1. /\ record' \in [Users -> Directory!Mounts] /\ box' \in [Users -> Directory!Mounts]
      /\ old' \in [Users -> Directory!Mounts]
      /\ record'[u] = r /\ box'[u] = b /\ old'[u] = o
      /\ \A v \in Users \ {u} : record'[v] = record[v] /\ box'[v] = box[v] /\ old'[v] = old[v]
  <2>1. r \in Directory!Mounts /\ b \in Directory!Mounts /\ o \in Directory!Mounts
    BY MountsDiffer
  <2> QED
    BY <2>1 DEF DirectoryInv, HoldInv
<1>2. AccountInv(u)'
  BY <1>1 DEF AccountInv, For
<1>3. ASSUME NEW v \in Users \ {u}
      PROVE  AccountInv(v)'
  <2>1. AccountInv(v)
    BY DEF DirectoryInv, HoldInv
  <2>2. r \in Dirs => r # record[v]
    BY <1>1 DEF For
  <2>3. record[v] \in Dirs => For(v, record[v])'
    <3>1. record[v] \in Dirs => record[v] # r
      BY <2>2
    <3> QED
      BY <1>1, <2>1, <3>1 DEF AccountInv, For
  <2> QED
    BY <1>1, <2>1, <2>3 DEF AccountInv
<1>4. \A v \in Users : AccountInv(v)'
  BY <1>2, <1>3
<1> QED
  BY <1>1, <1>4 DEF DirectoryInv, HoldInv

LEMMA RecordStep ==
  ASSUME DirectoryInv, Directory!Record
  PROVE  HoldInv' /\ PassInv'
<1> USE MountsDiffer
<1>1. PICK u \in Users \ Legacy, m \in Dirs :
        /\ u = pass.user /\ m = pass.mount /\ record[u] = None /\ For(u, m) /\ pass \in Passes
        /\ IF pass.move THEN box[u] = m ELSE box[u] = None /\ old[u] = None
  BY DEF Directory!Record, Directory!At, DirectoryInv, PassInv
<1>2. /\ UNCHANGED <<made, box, old, volumes>> /\ record' = [record EXCEPT ![u] = m]
      /\ \/ pass.move /\ pass' = Directory!To("drop")
         \/ ~pass.move /\ pass' = Directory!To("verify")
  BY <1>1 DEF Directory!Record, Directory!containers
<1>3. AccountInv(u) /\ volumes' \subseteq Users
  BY <1>2 DEF DirectoryInv, HoldInv
<1>4. PICK b \in Directory!Mounts, o \in Directory!Mounts :
        /\ b = box[u] /\ o = old[u] /\ box' = [box EXCEPT ![u] = b] /\ old' = [old EXCEPT ![u] = o]
  BY <1>2 DEF DirectoryInv, HoldInv
<1>5. HoldInv' /\ record'[u] = m /\ box'[u] = b /\ old'[u] = o
               /\ \A v \in Users \ {u} : record'[v] = record[v]
  <2>1. May(u, m, b, o)
    BY <1>1, <1>3, <1>4 DEF May, AccountInv
  <2>2. Gets(u, m, b, o)
    BY <1>2, <1>3, <1>4 DEF Gets
  <2> QED
    BY <2>1, <2>2, GivenStep
<1>6. /\ pass' \in Passes /\ pass'.user = u /\ pass'.mount = m /\ pass'.move = pass.move
      /\ pass'.pc = IF pass.move THEN "drop" ELSE "verify"
  BY <1>1, <1>2, PassTo DEF Steps
<1>7. PassInv'
  BY <1>1, <1>2, <1>4, <1>5, <1>6 DEF PassInv, For
<1> QED
  BY <1>5, <1>7

LEMMA SetAsideStep ==
  ASSUME DirectoryInv, Directory!SetAside
  PROVE  HoldInv' /\ PassInv'
<1> USE MountsDiffer
<1>1. PICK u \in Users \ Legacy, m \in Dirs :
        /\ u = pass.user /\ m = pass.mount /\ record[u] = None /\ For(u, m) /\ pass \in Passes
        /\ box[u] = Volume /\ old[u] = None /\ pass.move /\ ~pass.renamed
  BY DEF Directory!SetAside, Directory!At, DirectoryInv, PassInv
<1>2. PICK b \in Directory!Mounts, o \in Directory!Mounts :
        /\ UNCHANGED <<made, record, volumes>>
        /\ box' = [box EXCEPT ![u] = b] /\ old' = [old EXCEPT ![u] = o]
        /\ \/ b = None /\ o = Volume
           \/ b = Volume /\ o = None /\ pass' = Directory!To("undo")
        /\ \/ pass' = [pass EXCEPT !.pc = "provision", !.renamed = TRUE]
           \/ pass' = Directory!To("undo")
  <2>1. box \in [Users -> Directory!Mounts] /\ old \in [Users -> Directory!Mounts]
    BY DEF DirectoryInv, HoldInv
  <2>2. CASE UNCHANGED <<box, old>> /\ pass' = Directory!To("undo")
    BY <1>1, <2>1, <2>2 DEF Directory!SetAside
  <2>3. CASE box' = [box EXCEPT ![u] = None] /\ old' = [old EXCEPT ![u] = Volume]
    BY <1>1, <2>3 DEF Directory!SetAside, Directory!Caught
  <2> QED
    BY <1>1, <2>2, <2>3 DEF Directory!SetAside, Directory!Caught
<1>3. AccountInv(u) /\ volumes' \subseteq Users /\ record' = [record EXCEPT ![u] = None]
  BY <1>1, <1>2 DEF DirectoryInv, HoldInv
<1>4. HoldInv' /\ record'[u] = None /\ box'[u] = b /\ old'[u] = o
               /\ \A v \in Users \ {u} : record'[v] = record[v]
  <2>1. May(u, None, b, o)
    BY <1>2 DEF May
  <2>2. Gets(u, None, b, o)
    BY <1>2, <1>3 DEF Gets
  <2> QED
    BY <2>1, <2>2, GivenStep
<1>5. CASE pass' = [pass EXCEPT !.pc = "provision", !.renamed = TRUE]
  <2>1. PICK x : x = [pass EXCEPT !.pc = "provision"]
    OBVIOUS
  <2>2. x \in Passes /\ x.pc = "provision" /\ x.user = u /\ x.mount = m /\ x.move
    BY <1>1, <2>1 DEF Passes, Steps
  <2>3. pass' = [x EXCEPT !.renamed = TRUE]
    BY <1>5, <2>1
  <2>4. /\ pass' \in Passes /\ pass'.pc = "provision" /\ pass'.user = u /\ pass'.mount = m
        /\ pass'.move /\ pass'.renamed
    BY <2>2, <2>3 DEF Passes
  <2>5. b = None /\ o = Volume
    <3>1. Directory!To("undo").pc = "undo"
      BY <1>1, PassTo DEF Steps
    <3> QED
      BY <1>2, <2>4, <3>1
  <2>6. PassInv'
    BY <1>1, <1>2, <1>4, <2>4, <2>5 DEF PassInv, For
  <2> QED
    BY <1>4, <2>6
<1>6. CASE pass' = Directory!To("undo")
  <2>1. /\ pass' \in Passes /\ pass'.pc = "undo" /\ pass'.user = u /\ pass'.mount = m
        /\ pass'.move /\ ~pass'.renamed
    BY <1>1, <1>6, PassTo DEF Steps
  <2>2. PassInv'
    BY <1>1, <1>2, <1>4, <2>1 DEF PassInv, For
  <2> QED
    BY <1>4, <2>2
<1> QED
  BY <1>2, <1>5, <1>6

LEMMA ProvisionStep ==
  ASSUME DirectoryInv, Directory!Provision
  PROVE  HoldInv' /\ PassInv'
<1> USE MountsDiffer
<1>1. PICK u \in Users \ Legacy, m \in Directory!Mounts :
        /\ u = pass.user /\ m = pass.mount /\ pass \in Passes
        /\ m \in Dirs => For(u, m)
        /\ \/ /\ pass.move /\ m \in Dirs /\ pass.renamed
              /\ record[u] = None /\ box[u] = None /\ old[u] = Volume
           \/ /\ ~pass.move /\ m = Volume
              /\ record[u] = None /\ box[u] = None /\ old[u] = None
           \/ /\ ~pass.move /\ m \in Dirs
              /\ record[u] = m /\ box[u] = None /\ old[u] = None
  BY DEF Directory!Provision, Directory!At, DirectoryInv, PassInv, Passes
<1>2. UNCHANGED <<made, record, old>> /\ volumes' \subseteq Users
  BY <1>1 DEF Directory!Provision, Directory!Mounted, DirectoryInv, HoldInv
<1>3. PICK b \in {None, m}, r \in {record[u]}, o \in {old[u]} :
        /\ box' = [box EXCEPT ![u] = b] /\ (b \in Dirs => Directory!Exists(b))
        /\ \/ pass' = Directory!Thrown
           \/ pass.move /\ pass' = Directory!To("undo")
           \/ pass.move /\ pass' = Directory!To("record") /\ b = m
  <2>1. box \in [Users -> Directory!Mounts]
    BY DEF DirectoryInv, HoldInv
  <2>2. PICK t \in BOOLEAN : t <=> (m \in Dirs => Directory!Exists(m))
    OBVIOUS
  <2>3. \/ t /\ box' = [box EXCEPT ![u] = m]
        \/ /\ box' = box
           /\ pass' = Directory!Thrown \/ (pass.move /\ pass' = Directory!To("undo"))
    BY <1>1, <2>2 DEF Directory!Provision, Directory!Caught, Dirs
  <2>4. \/ pass' = Directory!Thrown
        \/ pass.move /\ pass' = Directory!To("undo")
        \/ pass.move /\ pass' = Directory!To("record")
    BY DEF Directory!Provision, Directory!Caught
  <2>5. CASE t /\ box' = [box EXCEPT ![u] = m]
    BY <2>2, <2>4, <2>5
  <2>6. CASE /\ box' = box
             /\ pass' = Directory!Thrown \/ (pass.move /\ pass' = Directory!To("undo"))
    <3>1. box' = [box EXCEPT ![u] = None] /\ None \notin Dirs
      BY <1>1, <2>1, <2>6
    <3> QED
      BY <2>6, <3>1
  <2> QED
    BY <2>3, <2>5, <2>6
<1>4. HoldInv' /\ record'[u] = r /\ box'[u] = b /\ old'[u] = o
               /\ \A v \in Users \ {u} : record'[v] = record[v]
  <2>1. r \in Directory!Mounts /\ o \in Directory!Mounts
    BY <1>1, <1>3
  <2>2. b \in Dirs => made[b] = u /\ b[1] \notin Inside
    BY <1>1, <1>3 DEF For, Directory!Exists
  <2>3. May(u, r, b, o)
    BY <1>1, <1>3, <2>2 DEF May
  <2>4. Gets(u, r, b, o)
    BY <1>1, <1>2, <1>3 DEF Gets, DirectoryInv, HoldInv
  <2> QED
    BY <2>3, <2>4, GivenStep
<1>5. CASE pass' = Directory!Thrown
  BY <1>4, <1>5, PassRests DEF PassInv
<1>6. ASSUME NEW pc \in {"undo", "record"}, pass' = Directory!To(pc), pass.move,
             pc = "record" => b = m
      PROVE  PassInv'
  <2>1. pc \in Steps /\ pass \in Passes
    BY <1>1 DEF Steps
  <2>2. /\ pass' \in Passes /\ pass'.pc = pc /\ pass'.user = u /\ pass'.mount = m
        /\ pass'.move /\ pass'.renamed = pass.renamed
    BY <1>1, <1>6, <2>1, PassTo
  <2> QED
    BY <1>1, <1>2, <1>3, <1>4, <1>6, <2>2 DEF PassInv, For
<1>7. PassInv'
  BY <1>3, <1>5, <1>6
<1> QED
  BY <1>4, <1>7

LEMMA DropStep ==
  ASSUME DirectoryInv, Directory!Drop
  PROVE  HoldInv' /\ PassInv'
<1> USE MountsDiffer
<1>1. PICK u \in Users \ Legacy, o \in Directory!Mounts :
        u = pass.user /\ o \in {old[u], None} /\ old' = [old EXCEPT ![u] = o]
  <2>1. old \in [Users -> Directory!Mounts]
    BY DEF DirectoryInv, HoldInv
  <2> QED
    BY <2>1 DEF Directory!Drop, Directory!At, DirectoryInv, PassInv
<1>2. pass' = Directory!Thrown /\ UNCHANGED <<made, record, box, volumes>>
  BY DEF Directory!Drop
<1>3. HoldInv'
  <2>1. AccountInv(u)
    BY DEF DirectoryInv, HoldInv
  <2>2. PICK r, b : r = record[u] /\ b = box[u]
    OBVIOUS
  <2>3. May(u, r, b, o)
    BY <1>1, <2>1, <2>2 DEF May, AccountInv
  <2>4. Gets(u, r, b, o)
    BY <1>1, <1>2, <2>2 DEF Gets, DirectoryInv, HoldInv
  <2> QED
    BY <2>3, <2>4, GivenStep
<1> QED
  BY <1>2, <1>3, PassRests DEF PassInv

LEMMA UndoStep ==
  ASSUME DirectoryInv, Directory!Undo
  PROVE  HoldInv' /\ PassInv'
<1> USE MountsDiffer
<1>1. PICK u \in Users \ Legacy, m \in Dirs, r \in {None}, o \in Directory!Mounts :
        /\ u = pass.user /\ m = pass.mount /\ r = record[u] /\ o = old[u]
        /\ pass \in Passes /\ pass.move /\ For(u, m)
        /\ pass.renamed => o = Volume
        /\ ~pass.renamed => box[u] \in {None, Volume}
  BY DEF Directory!Undo, Directory!At, DirectoryInv, PassInv, HoldInv
<1>2. UNCHANGED <<made, record, old, volumes>>
  BY DEF Directory!Undo
<1>3. PICK b : /\ b \in {box[u], None} /\ box' = [box EXCEPT ![u] = b]
               /\ \/ pass' = Directory!Thrown
                  \/ pass' = Directory!To("back") /\ (pass.renamed => b = None)
  <2>1. box \in [Users -> Directory!Mounts]
    BY DEF DirectoryInv, HoldInv
  <2>2. CASE pass.renamed /\ box[u] # None
    BY <1>1, <2>1, <2>2 DEF Directory!Undo
  <2>3. CASE ~(pass.renamed /\ box[u] # None)
    BY <1>1, <2>1, <2>3 DEF Directory!Undo
  <2> QED
    BY <2>2, <2>3
<1>4. HoldInv' /\ record'[u] = r /\ box'[u] = b /\ old'[u] = o
               /\ \A v \in Users \ {u} : record'[v] = record[v]
  <2>1. AccountInv(u)
    BY DEF DirectoryInv, HoldInv
  <2>2. May(u, r, b, o)
    BY <1>1, <1>3, <2>1 DEF May, AccountInv
  <2>3. Gets(u, r, b, o)
    BY <1>1, <1>2, <1>3 DEF Gets, DirectoryInv, HoldInv
  <2> QED
    BY <2>2, <2>3, GivenStep
<1>5. CASE pass' = Directory!Thrown
  BY <1>4, <1>5, PassRests DEF PassInv
<1>6. CASE pass' = Directory!To("back") /\ (pass.renamed => b = None)
  <2>1. /\ pass' \in Passes /\ pass'.pc = "back" /\ pass'.user = u /\ pass'.mount = m
        /\ pass'.move /\ pass'.renamed = pass.renamed
    BY <1>1, <1>6, PassTo DEF Steps
  <2>2. b \in {None, Volume}
    BY <1>1, <1>3, <1>6
  <2>3. PassInv'
    BY <1>1, <1>2, <1>4, <2>1, <2>2 DEF PassInv, For
  <2> QED
    BY <1>4, <2>3
<1> QED
  BY <1>3, <1>4, <1>5, <1>6

LEMMA BackStep ==
  ASSUME DirectoryInv, Directory!Back
  PROVE  HoldInv' /\ PassInv'
<1> USE MountsDiffer
<1>1. PICK u \in Users \ Legacy, m \in Dirs, r \in {None} :
        /\ u = pass.user /\ m = pass.mount /\ r = record[u]
        /\ pass \in Passes /\ pass.move /\ For(u, m)
        /\ pass.renamed => old[u] = Volume
        /\ box[u] \in {None, Volume} /\ old[u] \in {None, Volume}
  BY DEF Directory!Back, Directory!At, DirectoryInv, PassInv, HoldInv, AccountInv
<1>2. UNCHANGED <<made, record, volumes>>
  BY DEF Directory!Back
<1>3. PICK b \in {None, Volume}, o \in {None, Volume} :
        /\ box' = [box EXCEPT ![u] = b] /\ old' = [old EXCEPT ![u] = o]
        /\ pass' = Directory!Thrown \/ pass' = Directory!To("remove")
  <2>1. box \in [Users -> Directory!Mounts] /\ old \in [Users -> Directory!Mounts]
    BY DEF DirectoryInv, HoldInv
  <2>2. pass' = Directory!Thrown \/ pass' = Directory!To("remove")
    BY DEF Directory!Back
  <2>3. CASE UNCHANGED <<box, old>>
    BY <1>1, <2>1, <2>2, <2>3
  <2>4. CASE /\ box' = [box EXCEPT ![u] = old[u]] /\ old' = [old EXCEPT ![u] = None]
    BY <1>1, <2>2, <2>4
  <2> QED
    BY <1>1, <2>3, <2>4 DEF Directory!Back
<1>4. HoldInv' /\ record'[u] = r /\ box'[u] = b /\ old'[u] = o
               /\ \A v \in Users \ {u} : record'[v] = record[v]
  <2>1. May(u, r, b, o)
    BY <1>1, <1>3 DEF May
  <2>2. Gets(u, r, b, o)
    BY <1>1, <1>2, <1>3 DEF Gets, DirectoryInv, HoldInv
  <2> QED
    BY <2>1, <2>2, GivenStep
<1>5. CASE pass' = Directory!Thrown
  BY <1>4, <1>5, PassRests DEF PassInv
<1>6. CASE pass' = Directory!To("remove")
  <2>1. /\ pass' \in Passes /\ pass'.pc = "remove" /\ pass'.user = u /\ pass'.mount = m
        /\ pass'.move /\ pass'.renamed = pass.renamed
    BY <1>1, <1>6, PassTo DEF Steps
  <2>2. PassInv'
    BY <1>1, <1>2, <1>3, <1>4, <2>1 DEF PassInv, For
  <2> QED
    BY <1>4, <2>2
<1> QED
  BY <1>3, <1>4, <1>5, <1>6

\* The directory of a move that failed is removed: nobody uses it.
LEMMA RemoveStep ==
  ASSUME DirectoryInv, Directory!Remove
  PROVE  HoldInv' /\ PassInv'
<1> USE MountsDiffer, ReachAssumption DEF Directory!WorkspacesAssumption
<1>1. PICK u \in Users \ Legacy, m \in Dirs :
        /\ u = pass.user /\ m = pass.mount /\ record[u] = None /\ For(u, m)
        /\ box[u] \in {None, Volume}
  BY DEF Directory!Remove, Directory!At, DirectoryInv, PassInv
<1>2. UNCHANGED <<record, box, old, volumes>> /\ pass' = Directory!Thrown
  BY DEF Directory!Remove, Directory!containers
<1>3. CASE UNCHANGED made
  BY <1>2, <1>3, PassRests, LooseStep DEF holdings
<1>4. CASE made' = [made EXCEPT ![m] = None]
  <2>1. /\ made' \in [Dirs -> Users \cup {None, "operator", "gone"}]
        /\ \A e \in Dirs \ {m} : made'[e] = made[e]
    BY <1>4 DEF DirectoryInv, HoldInv
  <2>2. ASSUME NEW v \in Users
        PROVE  record[v] # m /\ box[v] # m
    <3>1. box[v] = m => made[m] = v
      BY DEF DirectoryInv, HoldInv, AccountInv
    <3> QED
      BY <1>1, <3>1 DEF For
  <2>3. ASSUME NEW v \in Users
        PROVE  AccountInv(v)'
    BY <1>2, <2>1, <2>2 DEF DirectoryInv, HoldInv, AccountInv, For
  <2>4. HoldInv'
    BY <1>2, <2>1, <2>3 DEF DirectoryInv, HoldInv
  <2> QED
    BY <1>2, <2>4, PassRests DEF PassInv
<1> QED
  BY <1>1, <1>3, <1>4 DEF Directory!Remove

LEMMA DirectoryStepInv ==
  DirectoryInv /\ [Directory!Next]_(Directory!workspaceVars) => DirectoryInv'
<1> SUFFICES ASSUME DirectoryInv, [Directory!Next]_(Directory!workspaceVars)
             PROVE  HoldInv' /\ PassInv'
  BY WorldStep DEF DirectoryInv
<1>1. ASSUME NEW h \in Installers, Directory!Onboard(h)
      PROVE  HoldInv' /\ PassInv'
  <2>1. UNCHANGED <<holdings, pass>>
    BY <1>1 DEF Directory!Onboard, Directory!SetRoot, Directory!SaveRoot, Directory!Look,
                Directory!Observed, Directory!Complete, Directory!Request,
                Directory!containers, holdings
  <2> QED
    BY <2>1, LooseStep
<1>2. ASSUME Directory!PassBegin \/ Directory!Publish \/ Directory!PassEnd \/ Directory!Crash
      PROVE  HoldInv' /\ PassInv'
  <2>1. UNCHANGED holdings
    BY <1>2 DEF Directory!PassBegin, Directory!Publish, Directory!PassEnd, Directory!Crash,
                Directory!containers, holdings
  <2>2. pass' \in Passes /\ pass'.pc \in {"idle", "publish", "users"}
    <3>1. CASE Directory!PassBegin
      <4>1. installation.root \in Roots \cup {None}
        BY DEF DirectoryInv, WorldInv
      <4>2. PICK x : x = [Directory!NoPass EXCEPT !.pc = "publish"]
        OBVIOUS
      <4>3. x \in Passes /\ x.pc = "publish"
        BY <4>2, PassRests DEF Passes, Steps
      <4>4. pass' = [x EXCEPT !.root = installation.root]
        BY <3>1, <4>2 DEF Directory!PassBegin
      <4> QED
        BY <4>1, <4>3, <4>4 DEF Passes
    <3> QED
      BY <1>2, <3>1, PassRests DEF Directory!Publish, Directory!PassEnd, Directory!Crash
  <2> QED
    BY <2>1, <2>2, LooseStep
<1>3. CASE UNCHANGED Directory!workspaceVars
  <2>1. UNCHANGED <<holdings, pass>>
    BY <1>3 DEF Directory!workspaceVars, Directory!containers, holdings
  <2> QED
    BY <2>1, LooseStep
<1> QED
  BY <1>1, <1>2, <1>3, HostStep, ReadStep, MkdirStep, RecordStep, SetAsideStep, ProvisionStep,
     DropStep, UndoStep, BackStep, RemoveStep
     DEF Directory!Next, Directory!Account, Directory!Work

\* No directory is given to an account but one made for it, and none to two: the directories
\* in use are those made for their accounts, and what is recorded for one is not recorded
\* for another.
THEOREM DirectoriesStayApart == Directory!Spec => []DirectoriesAreOwn
<1>1. DirectoryInv => DirectoriesAreOwn
  <2> USE MountsDiffer, ReachAssumption DEF Directory!WorkspacesAssumption
  <2> SUFFICES ASSUME DirectoryInv, NEW u \in Users,
                      NEW d \in {record[u], box[u], old[u]} \cap Dirs
               PROVE  /\ made[d] \in {u, "gone"} /\ d[1] \notin Inside
                      /\ \A v \in Users \ {u} : d \notin {record[v], box[v], old[v]}
    BY DEF DirectoriesAreOwn, Directory!DirectoriesAreOwn, Dirs
  <2>1. /\ d \in {record[u], box[u]}
        /\ d = record[u] => For(u, d)
        /\ d = box[u] => made[d] = u /\ d[1] \notin Inside
    BY DEF DirectoryInv, HoldInv, AccountInv
  <2>2. ASSUME NEW v \in Users \ {u}
        PROVE  d \notin {record[v], box[v], old[v]}
    <3>1. /\ d = record[v] => For(v, d)
          /\ d = box[v] => made[d] = v
          /\ d # old[v]
      BY DEF DirectoryInv, HoldInv, AccountInv
    <3> QED
      BY <2>1, <3>1 DEF For
  <2> QED
    BY <2>1, <2>2 DEF For
<1> QED
  BY <1>1, DirectoryInit, DirectoryStepInv, PTL DEF Directory!Spec

-----------------------------------------------------------------------------
(* The previews.                                                             *)

VisitRecords ==
  [step : Preview!Steps, kind : {"open", "exchange", "authorize", "vouched", None},
   slug : Slugs \cup {None}, app : Preview!App \cup {None},
   ticket : Codes \cup Cookies \cup {None}, since : Nat]
CodeRecords ==
  [state : {"unused", "live", "spent"}, slug : Slugs \cup {None}, user : Viewers \cup {None},
   version : Nat, source : {None}]
CookieRecords ==
  [state : {"unused", "set", "expired"}, slug : Slugs \cup {None}, user : Viewers \cup {None},
   version : Nat, source : Codes \cup {None}]

Issued(c) == codes[c].state # "unused"
Set(c) == cookies[c].state # "unused"

\* A request with a cookie began when the account had a version of at least since; what
\* vouches for it has that version.  A code that is exchanged was issued, and the cookie
\* gets the version of the code.
VisitInv(x) ==
  /\ x \in VisitRecords
  /\ x.step # "idle" =>
       /\ x.kind \in {"open", "exchange", "authorize", "vouched"}
       /\ x.step = "owner" => x.kind \in {"open", "exchange"}
       /\ x.step \in {"setting", "cookie", "viewer"} => x.kind = "open"
       /\ x.step = "viewer" => x.ticket # None
       /\ x.step \in {"redeem", "confirm", "seal"} => x.kind = "exchange"
       /\ x.kind = "exchange" => x.ticket \in Codes /\ Issued(x.ticket)
       /\ x.kind \in {"open", "vouched"} /\ x.ticket # None =>
            x.ticket \in Cookies /\ Set(x.ticket)
       /\ x.kind = "open" /\ x.ticket # None =>
            x.since <= viewers[cookies[x.ticket].user].version
       /\ x.step = "seal" => x.since = codes[x.ticket].version
       /\ x.kind = "vouched" => x.ticket # None /\ x.since <= cookies[x.ticket].version

\* A cookie is for the account and the version of the code it was changed for.
CookieInv(c) ==
  Set(c) => /\ cookies[c].source \in Codes /\ Issued(cookies[c].source)
            /\ cookies[c].user \in Viewers
            /\ cookies[c].version = codes[cookies[c].source].version

WorldTypes ==
  /\ viewers \in [Viewers -> Preview!Viewer] /\ published \in [Slugs -> Preview!App \cup {None}]
  /\ publicLinks \in BOOLEAN /\ events \in 0..MaxEvents
  /\ \A a \in Viewers : viewers[a].version <= events + 1

CodeTypes ==
  codes \in [Codes -> CodeRecords] /\ \A c \in Codes : Issued(c) => codes[c].user \in Viewers

CookieTypes == cookies \in [Cookies -> CookieRecords] /\ \A c \in Cookies : CookieInv(c)

PreviewInv ==
  /\ WorldTypes /\ CodeTypes /\ CookieTypes
  /\ DOMAIN visit = Visits /\ \A v \in Visits : VisitInv(visit[v])

\* What was issued stays as it was, but for its state, and versions only grow.
Grows ==
  /\ \A c \in Codes : Issued(c) =>
       codes'[c].state # "unused" /\ codes'[c].version = codes[c].version
  /\ \A c \in Cookies : Set(c) =>
       /\ cookies'[c].state # "unused" /\ cookies'[c].user = cookies[c].user
       /\ cookies'[c].version = cookies[c].version /\ cookies'[c].source = cookies[c].source
  /\ \A a \in Viewers : viewers[a].version <= viewers'[a].version
  /\ viewers \in [Viewers -> [version : Nat, role : Preview!Roles, status : Preview!Statuses]]
  /\ viewers' \in [Viewers -> [version : Nat, role : Preview!Roles, status : Preview!Statuses]]

LEMMA VisitLasts ==
  ASSUME CookieTypes, Grows, NEW x, VisitInv(x)
  PROVE  VisitInv(x)'
<1>1. x \in VisitRecords /\ x.since \in Nat
  BY DEF VisitInv, VisitRecords
<1>2. x.step # "idle" /\ x.kind = "open" /\ x.ticket # None =>
        x.since <= viewers'[cookies'[x.ticket].user].version
  <2> SUFFICES ASSUME x.step # "idle", x.kind = "open", x.ticket # None
               PROVE  x.since <= viewers'[cookies'[x.ticket].user].version
    OBVIOUS
  <2>1. /\ x.ticket \in Cookies /\ Set(x.ticket)
        /\ x.since <= viewers[cookies[x.ticket].user].version
    BY DEF VisitInv
  <2>2. PICK a \in Viewers : a = cookies[x.ticket].user
    BY <2>1 DEF CookieTypes, CookieInv
  <2>3. cookies'[x.ticket].user = a
    BY <2>1, <2>2 DEF Grows
  <2>4. /\ viewers[a].version \in Nat /\ viewers'[a].version \in Nat
        /\ viewers[a].version <= viewers'[a].version
    BY DEF Grows
  <2> QED
    BY <1>1, <2>1, <2>2, <2>3, <2>4
<1> QED
  BY <1>1, <1>2 DEF VisitInv, Grows, Issued, Set

\* A request goes on with what is so now, and the others with what they had.
LEMMA VisitsGoOn ==
  ASSUME PreviewInv, Grows, NEW v \in Visits, NEW x, VisitInv(x),
         visit' = [visit EXCEPT ![v] = x]
  PROVE  DOMAIN visit' = Visits /\ \A w \in Visits : VisitInv(visit[w])'
<1>1. DOMAIN visit' = Visits
  BY DEF PreviewInv
<1>2. ASSUME NEW w \in Visits
      PROVE  VisitInv(visit[w])'
  <2>1. PICK y : y = (IF w = v THEN x ELSE visit[w])
    OBVIOUS
  <2>2. VisitInv(y)
    BY <2>1 DEF PreviewInv
  <2>3. visit'[w] = y
    BY <2>1 DEF PreviewInv
  <2>4. VisitInv(y)'
    BY <2>2, VisitLasts DEF PreviewInv
  <2> QED
    BY <2>3, <2>4 DEF VisitInv
<1> QED
  BY <1>1, <1>2

LEMMA VisitsRest ==
  ASSUME PreviewInv, Grows, UNCHANGED visit
  PROVE  DOMAIN visit' = Visits /\ \A w \in Visits : VisitInv(visit[w])'
<1>1. ASSUME NEW w \in Visits
      PROVE  VisitInv(visit[w])'
  <2>1. PICK y : y = visit[w]
    OBVIOUS
  <2>2. VisitInv(y)'
    BY <2>1, VisitLasts DEF PreviewInv
  <2> QED
    BY <2>1, <2>2 DEF VisitInv
<1> QED
  BY <1>1 DEF PreviewInv

LEMMA WaitingRests == VisitInv(Preview!Waiting) /\ Preview!Waiting.step = "idle"
BY DEF VisitInv, VisitRecords, Preview!Waiting, Preview!Steps

LEMMA PreviewInit == Preview!Init => PreviewInv
<1> SUFFICES ASSUME Preview!Init
             PROVE  PreviewInv
  OBVIOUS
<1> USE ReachAssumption DEF Preview!PreviewsAssumption, Preview!Init
<1>1. WorldTypes
  <2>1. ASSUME NEW a \in Viewers
        PROVE  viewers[a] \in Preview!Viewer /\ viewers[a].version = 1
    <3>1. /\ viewers[a].role \in Preview!Roles /\ viewers[a].status = "active"
          /\ viewers[a].version = 1
          /\ viewers[a] \in [role : Preview!Roles, status : {"active"}, version : {1}]
      OBVIOUS
    <3> QED
      BY <3>1 DEF Preview!Viewer, Preview!Statuses
  <2> QED
    BY <2>1 DEF WorldTypes
<1>2. CodeTypes
  BY DEF CodeTypes, CodeRecords, Issued, Preview!Unused
<1>3. CookieTypes
  BY DEF CookieTypes, CookieRecords, CookieInv, Set, Preview!Unused
<1>4. DOMAIN visit = Visits /\ \A v \in Visits : visit[v] = Preview!Waiting
  OBVIOUS
<1> QED
  BY <1>1, <1>2, <1>3, <1>4, WaitingRests DEF PreviewInv

LEMMA ViewerTypes ==
  ASSUME WorldTypes
  PROVE  viewers \in [Viewers -> [version : Nat, role : Preview!Roles, status : Preview!Statuses]]
BY ReachAssumption DEF Preview!PreviewsAssumption, WorldTypes, Preview!Viewer

\* Requests that only look.
LEMMA LookStep ==
  ASSUME PreviewInv, NEW v \in Visits,
         \/ Preview!Visit(v) \/ Preview!ReadOwner(v) \/ Preview!ReadSetting(v)
         \/ Preview!Verify(v) \/ Preview!ReadViewer(v) \/ Preview!Granted(v)
         \/ Preview!Confirm(v)
  PROVE  PreviewInv'
<1> USE DEF Preview!At
<1>1. UNCHANGED <<viewers, published, publicLinks, events, codes, cookies>>
  BY DEF Preview!Visit, Preview!Arrive, Preview!ReadOwner, Preview!ReadSetting, Preview!Verify,
         Preview!ReadViewer, Preview!Granted, Preview!Confirm, Preview!world
<1>2. PICK y : y = visit[v]
  OBVIOUS
<1>3. VisitInv(y) /\ y \in VisitRecords
  BY <1>2 DEF PreviewInv, VisitInv
<1>4. Grows
  BY <1>1, ViewerTypes DEF PreviewInv, WorldTypes, Grows, Issued, Set, Preview!Viewer
<1>5. ASSUME NEW s \in Preview!Steps, Preview!Goto(v, s), y.step # "idle",
             s \in {"setting", "cookie", "viewer"} => y.kind = "open",
             s = "viewer" => y.ticket # None,
             s \in {"redeem", "confirm"} => y.kind = "exchange",
             s \notin {"owner", "seal"}
      PROVE  \E x : VisitInv(x) /\ visit' = [visit EXCEPT ![v] = x]
  <2>1. PICK x : x = [y EXCEPT !.step = s]
    OBVIOUS
  <2>2. /\ x \in VisitRecords /\ x.step = s /\ x.kind = y.kind /\ x.ticket = y.ticket
        /\ x.since = y.since
    BY <1>3, <2>1 DEF VisitRecords
  <2>3. VisitInv(x)
    BY <1>3, <1>5, <2>2 DEF VisitInv
  <2>4. visit' = [visit EXCEPT ![v] = x]
    BY <1>2, <1>5, <2>1 DEF Preview!Goto
  <2> QED
    BY <2>3, <2>4
<1>6. ASSUME Preview!Over(v)
      PROVE  \E x : VisitInv(x) /\ visit' = [visit EXCEPT ![v] = x]
  BY <1>6, WaitingRests DEF Preview!Over
<1>7. ASSUME NEW s \in Slugs, NEW kind, NEW ticket, NEW since,
             Preview!Arrive(v, kind, s, ticket, since),
             \/ kind = "open" /\ ticket = None /\ since = 0
             \/ /\ kind = "open" /\ ticket \in Cookies /\ cookies[ticket].state = "set"
                /\ since = viewers[cookies[ticket].user].version
             \/ kind = "exchange" /\ ticket \in Codes /\ Issued(ticket) /\ since = 0
             \/ kind = "authorize" /\ ticket = None /\ since = 0
      PROVE  \E x : VisitInv(x) /\ visit' = [visit EXCEPT ![v] = x]
  <2>1. PICK x :
          x = [step |-> IF kind = "authorize" THEN "session" ELSE "owner", kind |-> kind,
               slug |-> s, app |-> published[s], ticket |-> ticket, since |-> since]
    OBVIOUS
  <2>2. since \in Nat /\ published[s] \in Preview!App
    <3>1. CASE ticket \in Cookies /\ cookies[ticket].state = "set"
                 /\ since = viewers[cookies[ticket].user].version
      <4>1. PICK a \in Viewers : a = cookies[ticket].user
        BY <3>1 DEF PreviewInv, CookieTypes, CookieInv, Set
      <4>2. viewers[a].version \in Nat
        BY ViewerTypes DEF PreviewInv
      <4>3. published[s] \in Preview!App
        BY <1>7 DEF Preview!Arrive, PreviewInv, WorldTypes
      <4> QED
        BY <3>1, <4>1, <4>2, <4>3
    <3> QED
      BY <1>7, <3>1 DEF Preview!Arrive, PreviewInv, WorldTypes
  <2>3. /\ x \in VisitRecords /\ x.step \in {"session", "owner"} /\ x.kind = kind
        /\ x.ticket = ticket /\ x.since = since
    BY <1>7, <2>1, <2>2 DEF VisitRecords, Preview!Steps
  <2>4. VisitInv(x)
    <3>1. /\ x.step = "owner" => kind \in {"open", "exchange"}
          /\ kind = "exchange" => ticket \in Codes /\ Issued(ticket)
          /\ kind = "open" /\ ticket # None =>
               ticket \in Cookies /\ Set(ticket) /\ since = viewers[cookies[ticket].user].version
          /\ kind \in {"open", "exchange", "authorize"}
      BY <1>7, <2>1 DEF Set
    <3>2. since <= since
      BY <2>2
    <3> QED
      BY <2>3, <3>1, <3>2 DEF VisitInv
  <2>5. visit' = [visit EXCEPT ![v] = x]
    BY <1>7, <2>1 DEF Preview!Arrive
  <2> QED
    BY <2>4, <2>5
<1>8. \E x : VisitInv(x) /\ visit' = [visit EXCEPT ![v] = x]
  <2>1. CASE Preview!Visit(v)
    BY <1>7, <2>1 DEF Preview!Visit, Issued
  <2>2. CASE Preview!ReadOwner(v)
    <3>1. CASE Preview!Over(v)
      BY <1>6, <3>1
    <3>2. CASE ~Preview!Over(v)
      <4>1. PICK s \in {"redeem", "setting", "cookie"} :
              /\ Preview!Goto(v, s) /\ y.step = "owner"
              /\ IF y.kind = "exchange" THEN s = "redeem" ELSE s \in {"setting", "cookie"}
        BY <1>2, <2>2, <3>2 DEF Preview!ReadOwner
      <4>2. s \in Preview!Steps /\ (s \in {"setting", "cookie"} => y.kind = "open")
        BY <1>3, <4>1 DEF VisitInv, Preview!Steps
      <4> QED
        BY <1>5, <4>1, <4>2
    <3> QED
      BY <3>1, <3>2
  <2>3. CASE Preview!ReadSetting(v)
    <3>1. PICK s \in {"granted", "cookie"} : Preview!Goto(v, s) /\ y.step = "setting"
      BY <1>2, <2>3 DEF Preview!ReadSetting
    <3>2. s \in Preview!Steps /\ y.kind = "open"
      BY <1>3, <3>1 DEF VisitInv, Preview!Steps
    <3> QED
      BY <1>5, <3>1, <3>2
  <2>4. CASE Preview!Verify(v)
    <3>1. CASE Preview!Over(v)
      BY <1>6, <3>1
    <3>2. CASE ~Preview!Over(v)
      <4>1. /\ Preview!Goto(v, "viewer") /\ y.step = "cookie" /\ y.ticket # None
        BY <1>2, <2>4, <3>2 DEF Preview!Verify
      <4>2. PICK s \in Preview!Steps : s = "viewer" /\ y.kind = "open"
        BY <1>3, <4>1 DEF VisitInv, Preview!Steps
      <4> QED
        BY <1>5, <4>1, <4>2
    <3> QED
      BY <3>1, <3>2
  <2>5. CASE Preview!ReadViewer(v)
    <3>1. CASE Preview!Over(v)
      BY <1>6, <3>1
    <3>2. CASE ~Preview!Over(v)
      <4>1. /\ y.step = "viewer"
            /\ viewers[cookies[y.ticket].user].version = cookies[y.ticket].version
            /\ visit' = [visit EXCEPT ![v].step = "granted", ![v].kind = "vouched"]
        BY <1>2, <2>5, <3>2 DEF Preview!ReadViewer
      <4>2. /\ y.ticket # None /\ y.ticket \in Cookies /\ Set(y.ticket)
            /\ y.since <= cookies[y.ticket].version
        BY <1>3, <4>1 DEF VisitInv
      <4>3. PICK z : z = [y EXCEPT !.step = "granted"]
        OBVIOUS
      <4>4. /\ z \in VisitRecords /\ z.step = "granted" /\ z.ticket = y.ticket /\ z.since = y.since
        BY <1>3, <4>3 DEF VisitRecords, Preview!Steps
      <4>5. PICK x : x = [z EXCEPT !.kind = "vouched"]
        OBVIOUS
      <4>6. /\ x \in VisitRecords /\ x.step = "granted" /\ x.kind = "vouched"
            /\ x.ticket = y.ticket /\ x.since = y.since
        BY <4>4, <4>5 DEF VisitRecords
      <4>7. VisitInv(x)
        BY <4>2, <4>6 DEF VisitInv
      <4>8. visit' = [visit EXCEPT ![v] = x]
        BY <1>2, <4>1, <4>3, <4>5 DEF PreviewInv
      <4> QED
        BY <4>7, <4>8
    <3> QED
      BY <3>1, <3>2
  <2>6. CASE Preview!Granted(v)
    BY <1>6, <2>6 DEF Preview!Granted
  <2>7. CASE Preview!Confirm(v)
    <3>1. CASE Preview!Over(v)
      BY <1>6, <3>1
    <3>2. CASE ~Preview!Over(v)
      <4>1. PICK n : n = codes[y.ticket].version
        OBVIOUS
      <4>2. /\ y.step = "confirm"
            /\ visit' = [visit EXCEPT ![v].step = "seal", ![v].since = n]
        BY <1>2, <2>7, <3>2, <4>1 DEF Preview!Confirm
      <4>3. /\ y.kind = "exchange" /\ y.ticket \in Codes /\ Issued(y.ticket) /\ n \in Nat
        BY <1>3, <4>1, <4>2 DEF VisitInv, PreviewInv, CodeTypes, CodeRecords
      <4>4. PICK z : z = [y EXCEPT !.step = "seal"]
        OBVIOUS
      <4>5. z \in VisitRecords /\ z.step = "seal" /\ z.ticket = y.ticket /\ z.kind = y.kind
        BY <1>3, <4>4 DEF VisitRecords, Preview!Steps
      <4>6. PICK x : x = [z EXCEPT !.since = n]
        OBVIOUS
      <4>7. /\ x \in VisitRecords /\ x.step = "seal" /\ x.kind = "exchange"
            /\ x.ticket = y.ticket /\ x.since = n
        BY <4>3, <4>5, <4>6 DEF VisitRecords
      <4>8. VisitInv(x)
        BY <4>1, <4>3, <4>7 DEF VisitInv
      <4>9. visit' = [visit EXCEPT ![v] = x]
        BY <1>2, <4>2, <4>4, <4>6 DEF PreviewInv
      <4> QED
        BY <4>8, <4>9
    <3> QED
      BY <3>1, <3>2
  <2> QED
    BY <2>1, <2>2, <2>3, <2>4, <2>5, <2>6, <2>7
<1>9. DOMAIN visit' = Visits /\ \A w \in Visits : VisitInv(visit[w])'
  BY <1>4, <1>8, VisitsGoOn
<1>10. (WorldTypes /\ CodeTypes /\ CookieTypes)'
  BY <1>1 DEF PreviewInv, WorldTypes, CodeTypes, CookieTypes, CookieInv, Issued, Set
<1> QED
  BY <1>9, <1>10 DEF PreviewInv

\* A code that changes, before it is issued or to be spent: it is a code still, and what was
\* issued with it stays.
LEMMA CodeChanges ==
  ASSUME PreviewInv, NEW c \in Codes, NEW e \in CodeRecords, codes' = [codes EXCEPT ![c] = e],
         UNCHANGED <<viewers, published, publicLinks, events, cookies>>,
         e.state # "unused", e.user \in Viewers,
         Issued(c) => e.version = codes[c].version
  PROVE  Grows /\ (WorldTypes /\ CodeTypes /\ CookieTypes)'
<1>1. codes' \in [Codes -> CodeRecords] /\ codes'[c] = e
      /\ \A d \in Codes \ {c} : codes'[d] = codes[d]
  BY DEF PreviewInv, CodeTypes
<1>2. \A d \in Codes :
        Issued(d) => codes'[d].state # "unused" /\ codes'[d].version = codes[d].version
  BY <1>1 DEF Issued
<1>3. Grows
  <2>1. viewers' = viewers /\ cookies' = cookies
    OBVIOUS
  <2>2. \A a \in Viewers : viewers[a].version <= viewers'[a].version
    BY <2>1, ViewerTypes DEF PreviewInv
  <2>3. viewers \in [Viewers -> [version : Nat, role : Preview!Roles, status : Preview!Statuses]]
    BY ViewerTypes DEF PreviewInv
  <2> QED
    BY <1>2, <2>1, <2>2, <2>3 DEF Grows, Set
<1>4. CodeTypes'
  BY <1>1 DEF PreviewInv, CodeTypes, Issued
<1>5. CookieTypes'
  BY <1>2 DEF PreviewInv, CookieTypes, CookieInv, Issued, Set
<1>6. WorldTypes'
  BY DEF PreviewInv, WorldTypes
<1> QED
  BY <1>3, <1>4, <1>5, <1>6

LEMMA CookieChanges ==
  ASSUME PreviewInv, NEW c \in Cookies, NEW e \in CookieRecords,
         cookies' = [cookies EXCEPT ![c] = e],
         UNCHANGED <<viewers, published, publicLinks, events, codes>>,
         e.state # "unused", e.user \in Viewers, e.source \in Codes, Issued(e.source),
         e.version = codes[e.source].version,
         Set(c) => e.user = cookies[c].user /\ e.version = cookies[c].version
                   /\ e.source = cookies[c].source
  PROVE  Grows /\ (WorldTypes /\ CodeTypes /\ CookieTypes)'
<1>1. cookies' \in [Cookies -> CookieRecords] /\ cookies'[c] = e
      /\ \A d \in Cookies \ {c} : cookies'[d] = cookies[d]
  BY DEF PreviewInv, CookieTypes
<1>2. Grows
  <2>1. viewers' = viewers /\ codes' = codes
    OBVIOUS
  <2>2. \A a \in Viewers : viewers[a].version <= viewers'[a].version
    BY <2>1, ViewerTypes DEF PreviewInv
  <2>3. viewers \in [Viewers -> [version : Nat, role : Preview!Roles, status : Preview!Statuses]]
    BY ViewerTypes DEF PreviewInv
  <2>4. \A d \in Cookies : Set(d) =>
          /\ cookies'[d].state # "unused" /\ cookies'[d].user = cookies[d].user
          /\ cookies'[d].version = cookies[d].version /\ cookies'[d].source = cookies[d].source
    BY <1>1 DEF Set
  <2> QED
    BY <2>1, <2>2, <2>3, <2>4 DEF Grows, Issued
<1>3. ASSUME NEW d \in Cookies
      PROVE  CookieInv(d)'
  BY <1>1 DEF PreviewInv, CookieTypes, CookieInv, Issued, Set
<1>4. (WorldTypes /\ CodeTypes /\ CookieTypes)'
  BY <1>1, <1>3 DEF PreviewInv, WorldTypes, CodeTypes, CookieTypes, Issued
<1> QED
  BY <1>2, <1>4

LEMMA AuthorizeStep ==
  ASSUME PreviewInv, NEW v \in Visits, Preview!Authorize(v)
  PROVE  PreviewInv'
<1>1. UNCHANGED <<viewers, published, publicLinks, events, cookies>> /\ Preview!Over(v)
  BY DEF Preview!Authorize, Preview!world
<1>2. Grows /\ (WorldTypes /\ CodeTypes /\ CookieTypes)'
  <2>1. CASE UNCHANGED codes
    <3>1. Grows
      BY <1>1, <2>1, ViewerTypes DEF PreviewInv, Grows, Issued, Set
    <3> QED
      BY <1>1, <2>1, <3>1 DEF PreviewInv, WorldTypes, CodeTypes, CookieTypes, CookieInv, Issued, Set
  <2>2. CASE codes' # codes
    <3>1. PICK a \in Viewers, c \in Codes :
            /\ codes[c].state = "unused"
            /\ codes' = [codes EXCEPT ![c] =
                 [state |-> "live", slug |-> visit[v].slug, user |-> a,
                  version |-> viewers[a].version, source |-> None]]
      BY <2>2 DEF Preview!Authorize
    <3>2. PICK e : e = [state |-> "live", slug |-> visit[v].slug, user |-> a,
                        version |-> viewers[a].version, source |-> None]
      OBVIOUS
    <3>3. viewers[a].version \in Nat /\ visit[v].slug \in Slugs \cup {None}
      BY ViewerTypes DEF PreviewInv, VisitInv, VisitRecords
    <3>4. e \in CodeRecords /\ e.state # "unused" /\ e.user \in Viewers
      BY <3>2, <3>3 DEF CodeRecords
    <3> QED
      BY <1>1, <3>1, <3>2, <3>4, CodeChanges DEF Issued
  <2> QED
    BY <2>1, <2>2
<1> QED
  BY <1>1, <1>2, VisitsGoOn, WaitingRests DEF Preview!Over, PreviewInv

\* A code that is spent is what it was otherwise.
LEMMA Spent ==
  ASSUME PreviewInv, NEW c \in Codes, Issued(c), codes' = [codes EXCEPT ![c].state = "spent"],
         UNCHANGED <<viewers, published, publicLinks, events, cookies>>
  PROVE  Grows /\ (WorldTypes /\ CodeTypes /\ CookieTypes)'
<1>1. codes[c] \in CodeRecords /\ codes[c].user \in Viewers
  BY DEF PreviewInv, CodeTypes
<1>2. PICK e : e = [codes[c] EXCEPT !.state = "spent"]
  OBVIOUS
<1>3. e \in CodeRecords /\ e.state = "spent" /\ e.user = codes[c].user
      /\ e.version = codes[c].version
  BY <1>1, <1>2 DEF CodeRecords
<1>4. codes' = [codes EXCEPT ![c] = e]
  BY <1>2 DEF PreviewInv, CodeTypes
<1> QED
  BY <1>1, <1>3, <1>4, CodeChanges

LEMMA RedeemStep ==
  ASSUME PreviewInv, NEW v \in Visits, Preview!Redeem(v)
  PROVE  PreviewInv'
<1>1. /\ UNCHANGED <<viewers, published, publicLinks, events, cookies>>
      /\ visit[v].step = "redeem"
      /\ codes' = [codes EXCEPT ![visit[v].ticket].state = "spent"]
      /\ Preview!Over(v) \/ Preview!Goto(v, "confirm")
  BY DEF Preview!Redeem, Preview!At, Preview!world
<1>2. PICK y : y = visit[v]
  OBVIOUS
<1>3. VisitInv(y) /\ y \in VisitRecords
  BY <1>2 DEF PreviewInv, VisitInv
<1>4. y.kind = "exchange" /\ y.ticket \in Codes /\ Issued(y.ticket)
  BY <1>1, <1>2, <1>3 DEF VisitInv
<1>5. Grows /\ (WorldTypes /\ CodeTypes /\ CookieTypes)'
  BY <1>1, <1>2, <1>4, Spent
<1>6. \E x : VisitInv(x) /\ visit' = [visit EXCEPT ![v] = x]
  <2>1. CASE Preview!Over(v)
    BY <2>1, WaitingRests DEF Preview!Over
  <2>2. CASE Preview!Goto(v, "confirm")
    <3>1. PICK x : x = [y EXCEPT !.step = "confirm"]
      OBVIOUS
    <3>2. /\ x \in VisitRecords /\ x.step = "confirm" /\ x.kind = y.kind
          /\ x.ticket = y.ticket /\ x.since = y.since
      BY <1>3, <3>1 DEF VisitRecords, Preview!Steps
    <3>3. VisitInv(x)
      BY <1>3, <1>4, <3>2 DEF VisitInv
    <3>4. visit' = [visit EXCEPT ![v] = x]
      BY <1>2, <2>2, <3>1 DEF Preview!Goto
    <3> QED
      BY <3>3, <3>4
  <2> QED
    BY <1>1, <2>1, <2>2
<1> QED
  BY <1>5, <1>6, VisitsGoOn DEF PreviewInv

LEMMA SealStep ==
  ASSUME PreviewInv, NEW v \in Visits, Preview!Seal(v)
  PROVE  PreviewInv'
<1>1. /\ UNCHANGED <<viewers, published, publicLinks, events, codes>>
      /\ visit[v].step = "seal" /\ Preview!Over(v)
  BY DEF Preview!Seal, Preview!At, Preview!world
<1>2. PICK y : y = visit[v]
  OBVIOUS
<1>3. VisitInv(y) /\ y \in VisitRecords
  BY <1>2 DEF PreviewInv, VisitInv
<1>4. /\ y.kind = "exchange" /\ y.ticket \in Codes /\ Issued(y.ticket)
      /\ y.since = codes[y.ticket].version
  BY <1>1, <1>2, <1>3 DEF VisitInv
<1>5. PICK c \in Cookies,
           e \in {[state |-> "set", slug |-> y.slug, user |-> codes[y.ticket].user,
                   version |-> y.since, source |-> y.ticket]} :
        cookies[c].state = "unused" /\ cookies' = [cookies EXCEPT ![c] = e]
  BY <1>2 DEF Preview!Seal
<1>6. codes[y.ticket].user \in Viewers
  BY <1>4 DEF PreviewInv, CodeTypes
<1>7. /\ e \in CookieRecords /\ e.state # "unused" /\ e.user \in Viewers /\ e.source = y.ticket
      /\ e.version = codes[e.source].version
  BY <1>3, <1>4, <1>5, <1>6 DEF CookieRecords, VisitRecords
<1>8. Grows /\ (WorldTypes /\ CodeTypes /\ CookieTypes)'
  BY <1>1, <1>4, <1>5, <1>7, CookieChanges DEF Set
<1> QED
  BY <1>1, <1>8, VisitsGoOn, WaitingRests DEF Preview!Over, PreviewInv

LEMMA ExpiryStep ==
  ASSUME PreviewInv,
         \/ \E c \in Codes : Preview!CodeExpires(c)
         \/ \E c \in Cookies : Preview!CookieExpires(c)
  PROVE  PreviewInv'
<1>1. UNCHANGED <<viewers, published, publicLinks, events, visit>>
  BY DEF Preview!CodeExpires, Preview!CookieExpires, Preview!world
<1>2. Grows /\ (WorldTypes /\ CodeTypes /\ CookieTypes)'
  <2>1. ASSUME NEW c \in Codes, Preview!CodeExpires(c)
        PROVE  Grows /\ (WorldTypes /\ CodeTypes /\ CookieTypes)'
    <3>1. /\ codes[c].state = "live" /\ codes' = [codes EXCEPT ![c].state = "spent"]
          /\ UNCHANGED cookies
      BY <2>1 DEF Preview!CodeExpires
    <3> QED
      BY <1>1, <3>1, Spent DEF Issued
  <2>2. ASSUME NEW c \in Cookies, Preview!CookieExpires(c)
        PROVE  Grows /\ (WorldTypes /\ CodeTypes /\ CookieTypes)'
    <3>1. /\ cookies[c].state = "set" /\ cookies' = [cookies EXCEPT ![c].state = "expired"]
          /\ UNCHANGED codes
      BY <2>2 DEF Preview!CookieExpires
    <3>2. cookies[c] \in CookieRecords /\ CookieInv(c) /\ Set(c)
      BY <3>1 DEF PreviewInv, CookieTypes, Set
    <3>3. PICK e : e = [cookies[c] EXCEPT !.state = "expired"]
      OBVIOUS
    <3>4. /\ e \in CookieRecords /\ e.state = "expired" /\ e.user = cookies[c].user
          /\ e.version = cookies[c].version /\ e.source = cookies[c].source
      BY <3>2, <3>3 DEF CookieRecords
    <3>5. /\ e.user \in Viewers /\ e.source \in Codes /\ Issued(e.source)
          /\ e.version = codes[e.source].version
      BY <3>2, <3>4 DEF CookieInv
    <3>6. cookies' = [cookies EXCEPT ![c] = e]
      BY <3>1, <3>3 DEF PreviewInv, CookieTypes
    <3> QED
      BY <1>1, <3>1, <3>4, <3>5, <3>6, CookieChanges
  <2> QED
    BY <2>1, <2>2
<1> QED
  BY <1>1, <1>2, VisitsRest DEF PreviewInv

\* An administrator changes an account, an app or the setting.
LEMMA ChangeStep ==
  ASSUME PreviewInv,
         \/ \E a \in Viewers : Preview!ChangeViewer(a)
         \/ \E s \in Slugs : Preview!Publish(s)
         \/ Preview!SetPublicLinks
         \/ UNCHANGED Preview!previewVars
  PROVE  PreviewInv'
<1>1. UNCHANGED <<codes, cookies, visit>>
  BY DEF Preview!ChangeViewer, Preview!Publish, Preview!SetPublicLinks, Preview!previewVars
<1>2. WorldTypes' /\ \A a \in Viewers : viewers[a].version <= viewers'[a].version
  <2>1. ASSUME NEW a \in Viewers, Preview!ChangeViewer(a)
        PROVE  WorldTypes' /\ \A b \in Viewers : viewers[b].version <= viewers'[b].version
    <3>1. PICK r \in Preview!Roles, s \in Preview!Statuses :
            viewers' = [viewers EXCEPT ![a] = [role |-> r, status |-> s, version |-> @.version + 1]]
      BY <2>1 DEF Preview!ChangeViewer
    <3>2. events' = events + 1 /\ events < MaxEvents /\ UNCHANGED <<published, publicLinks>>
      BY <2>1 DEF Preview!ChangeViewer
    <3>3. PICK n \in 1..MaxEvents : n = viewers[a].version /\ n <= events + 1
      BY <3>2, ReachAssumption
         DEF Preview!PreviewsAssumption, PreviewInv, WorldTypes, Preview!Viewer
    <3>4. PICK e : e = [role |-> r, status |-> s, version |-> n + 1]
      OBVIOUS
    <3>5. e \in Preview!Viewer /\ e.version = n + 1
      BY <3>4, ReachAssumption DEF Preview!PreviewsAssumption, Preview!Viewer
    <3>6. /\ viewers' \in [Viewers -> Preview!Viewer] /\ viewers'[a] = e
          /\ \A b \in Viewers \ {a} : viewers'[b] = viewers[b]
      BY <3>1, <3>3, <3>4, <3>5 DEF PreviewInv, WorldTypes
    <3>7. ASSUME NEW b \in Viewers
          PROVE  viewers[b].version <= viewers'[b].version /\ viewers'[b].version <= events' + 1
      <4>1. viewers[b].version \in Nat /\ viewers[b].version <= events + 1 /\ events \in Nat
        BY ViewerTypes, ReachAssumption DEF Preview!PreviewsAssumption, PreviewInv, WorldTypes
      <4>2. CASE b = a
        BY <3>2, <3>3, <3>5, <3>6, <4>1, <4>2
      <4>3. CASE b # a
        BY <3>2, <3>6, <4>1, <4>3
      <4> QED
        BY <4>2, <4>3
    <3>8. published' \in [Slugs -> Preview!App \cup {None}] /\ publicLinks' \in BOOLEAN
          /\ events' \in 0..MaxEvents
      BY <3>2, ReachAssumption DEF Preview!PreviewsAssumption, PreviewInv, WorldTypes
    <3> QED
      BY <3>6, <3>7, <3>8 DEF WorldTypes
  <2>2. ASSUME UNCHANGED viewers
        PROVE  \A b \in Viewers : viewers[b].version <= viewers'[b].version
    BY <2>2, ViewerTypes DEF PreviewInv
  <2>3. ASSUME UNCHANGED viewers, events' \in {events, events + 1}, events' \in 0..MaxEvents,
               published' \in [Slugs -> Preview!App \cup {None}], publicLinks' \in BOOLEAN
        PROVE  WorldTypes'
    <3>1. \A b \in Viewers : viewers[b].version \in Nat /\ viewers[b].version <= events + 1
      BY ViewerTypes DEF PreviewInv, WorldTypes
    <3>2. \A b \in Viewers : viewers'[b].version <= events' + 1
      BY <2>3, <3>1 DEF PreviewInv, WorldTypes
    <3> QED
      BY <2>3, <3>2 DEF PreviewInv, WorldTypes
  <2>4. ASSUME NEW s \in Slugs, Preview!Publish(s)
        PROVE  /\ UNCHANGED viewers /\ events' = events + 1 /\ events' \in 0..MaxEvents
               /\ published' \in [Slugs -> Preview!App \cup {None}] /\ publicLinks' \in BOOLEAN
    BY <2>4, ReachAssumption
       DEF Preview!PreviewsAssumption, Preview!Publish, PreviewInv, WorldTypes
  <2>5. ASSUME Preview!SetPublicLinks
        PROVE  /\ UNCHANGED viewers /\ events' = events + 1 /\ events' \in 0..MaxEvents
               /\ published' \in [Slugs -> Preview!App \cup {None}] /\ publicLinks' \in BOOLEAN
    BY <2>5, ReachAssumption
       DEF Preview!PreviewsAssumption, Preview!SetPublicLinks, PreviewInv, WorldTypes
  <2>6. CASE UNCHANGED Preview!previewVars
    BY <2>2, <2>3, <2>6 DEF Preview!previewVars, PreviewInv, WorldTypes
  <2> QED
    BY <2>1, <2>2, <2>3, <2>4, <2>5, <2>6
<1>3. Grows
  <2>1. viewers' \in [Viewers -> [version : Nat, role : Preview!Roles, status : Preview!Statuses]]
    BY <1>2, ReachAssumption DEF Preview!PreviewsAssumption, WorldTypes, Preview!Viewer
  <2> QED
    BY <1>1, <1>2, <2>1, ViewerTypes DEF PreviewInv, Grows, Issued, Set
<1>4. (CodeTypes /\ CookieTypes)'
  BY <1>1 DEF PreviewInv, CodeTypes, CookieTypes, CookieInv, Issued, Set
<1> QED
  BY <1>1, <1>2, <1>3, <1>4, VisitsRest DEF PreviewInv

LEMMA PreviewStepInv ==
  ASSUME PreviewInv, [Preview!Next]_(Preview!previewVars)
  PROVE  PreviewInv'
BY LookStep, AuthorizeStep, RedeemStep, SealStep, ExpiryStep, ChangeStep DEF Preview!Next

\* What vouches for a request was signed in for at the version the account had when the
\* request began, or later: rights that ended before open nothing.
THEOREM RevokedRightsOpenNothing == Preview!Spec => []RevocationEndsPreview
<1>1. PreviewInv => RevocationEndsPreview
  <2> SUFFICES ASSUME PreviewInv, NEW v \in Visits,
                      visit[v].step = "granted", visit[v].kind = "vouched"
               PROVE  codes[cookies[visit[v].ticket].source].version >= visit[v].since
    BY DEF RevocationEndsPreview, Preview!RevocationEndsPreview, Preview!At
  <2>1. PICK c \in Cookies : c = visit[v].ticket /\ Set(c) /\ visit[v].since <= cookies[c].version
                             /\ visit[v].since \in Nat
    BY DEF PreviewInv, VisitInv, VisitRecords
  <2>2. cookies[c].version = codes[cookies[c].source].version /\ cookies[c].version \in Nat
    BY <2>1 DEF PreviewInv, CookieTypes, CookieInv, CookieRecords
  <2> QED
    BY <2>1, <2>2
<1> QED
  BY <1>1, PreviewInit, PreviewStepInv, PTL DEF Preview!Spec

-----------------------------------------------------------------------------
(* The parts together.                                                       *)

\* A behaviour of the whole is one of each part.
LEMMA PartsAreKept ==
  ReachSpec => Spec /\ Preview!Spec /\ Tunnel!Spec /\ Directory!Spec
<1>1. ReachInit => Init /\ Preview!Init /\ Tunnel!Init /\ Directory!Init
  BY DEF ReachInit
<1>2. [ReachNext]_reachVars =>
        /\ [Next]_appVars /\ [Preview!Next]_(Preview!previewVars)
        /\ [Tunnel!Next]_(Tunnel!tunnelVars) /\ [Directory!Next]_(Directory!workspaceVars)
  <2> SUFFICES ASSUME [ReachNext]_reachVars
               PROVE  /\ Next \/ UNCHANGED appVars
                      /\ Preview!Next \/ UNCHANGED previewPart
                      /\ Tunnel!Next \/ UNCHANGED tunnelPart
                      /\ Directory!Next \/ UNCHANGED directoryPart
    BY DEF previewPart, tunnelPart, directoryPart, Preview!previewVars, Tunnel!tunnelVars,
           Directory!workspaceVars, Directory!onboarding, Directory!containers
  <2>1. CASE UNCHANGED reachVars
    BY <2>1 DEF reachVars
  <2>2. CASE ReachNext
    BY <2>2 DEF ReachNext, AppStep, PreviewStep, TunnelStep, DirectoryStep
  <2> QED
    BY <2>1, <2>2
<1> QED
  BY <1>1, <1>2, PTL
     DEF ReachSpec, Spec, Preview!Spec, Tunnel!Spec, Directory!Spec

LEMMA PreviewTypes == PreviewInv => Preview!TypeOK
BY DEF PreviewInv, WorldTypes, CodeTypes, CodeRecords, CookieTypes, CookieRecords, VisitInv,
       VisitRecords, Preview!TypeOK

\* The files, the codes and cookies, the tunnels and the directories are well formed, in the
\* parts together as each alone.
THEOREM ReachTyping == ReachSpec => []ReachTypeOK
<1>1. Spec => []TypeOK
  BY Typing
<1>2. Preview!Spec => []Preview!TypeOK
  BY PreviewTypes, PreviewInit, PreviewStepInv, PTL DEF Preview!Spec
<1>3. Tunnel!Spec => []Tunnel!TypeOK
  <2>1. TunnelInv => Tunnel!TypeOK
    BY DEF TunnelInv
  <2> QED
    BY <2>1, TunnelInit, TunnelStepInv, PTL DEF Tunnel!Spec
<1>4. Directory!Spec => []Directory!TypeOK
  BY DirectoryTypes, DirectoryInit, DirectoryStepInv, PTL DEF Directory!Spec
<1>5. TypeOK /\ Preview!TypeOK /\ Tunnel!TypeOK /\ Directory!TypeOK => ReachTypeOK
  BY DEF ReachTypeOK
<1> QED
  BY <1>1, <1>2, <1>3, <1>4, <1>5, PartsAreKept, PTL
=============================================================================
