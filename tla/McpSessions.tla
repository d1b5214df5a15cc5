------------------------------ MODULE McpSessions ------------------------------
(***************************************************************************)
(* The registry of MCP sessions of the gateway                             *)
(* (packages/gateway/src/mcp-session-registry.ts) with the HTTP handlers   *)
(* that use it (the /mcp routes of app.ts) and the request pins of the     *)
(* audited transport (mcp-audit.ts).                                       *)
(*                                                                         *)
(* A session slot stands for one session object from the reservation made  *)
(* for its initialize request until nothing refers to it any more; the     *)
(* slot of a dead object is reused for a later session.  The gateway is    *)
(* one thread: an action is one synchronous turn.  The loop of reserve()   *)
(* is split into its iterations, during which nothing else runs.           *)
(***************************************************************************)
EXTENDS Naturals, FiniteSets

CONSTANTS
  Sessions,    \* slots for session objects
  Requests,    \* slots for HTTP requests and the JSON-RPC requests they carry
  Users,
  Clients,     \* OAuth clients, the "actor" of a session
  PerClient,   \* limits.perClient
  PerUser,     \* limits.perUser
  IdleTicks,   \* limits.idleMs, in clock ticks
  None

ASSUME LimitsAssumption == PerClient \in Nat \ {0} /\ PerUser \in Nat \ {0}
ASSUME IdleAssumption   == IdleTicks \in Nat \ {0}

VARIABLES
  state,      \* [Sessions -> {"free", "reserved", "open", "closed"}]
  owner,      \* user and client of the slot
  active,     \* the WeakMap of pins: begun and not ended requests per session
  age,        \* ticks since lastSeenAt, saturated at IdleTicks
  timer,      \* is the idle timer of the session armed?
  req,        \* what each request slot is doing
  admitting   \* the reserve() call whose loop is running

vars == <<state, owner, active, age, timer, req, admitting>>

Owner  == [user: Users, client: Clients]
Ticket == [session: Sessions, request: Requests, owner: Owner, evicted: Nat]
Kinds  == {"init", "post", "get", "rpc"}
Request == [kind: Kinds, session: Sessions, ended: BOOLEAN]

ASSUME NoneAssumption == None \notin Owner \cup Ticket \cup Request

(* reserve() counts the sessions of the map and the pending reservations.  *)
Held(u)          == {s \in Sessions : state[s] \in {"reserved", "open"}
                                        /\ owner[s] # None /\ owner[s].user = u}
HeldBy(u, c)     == {s \in Held(u) : owner[s].client = c}

(* Faulty variant: unfinished initializations are not counted.             *)
ClientFullOpenOnly(o) ==
  Cardinality({s \in HeldBy(o.user, o.client) : state[s] = "open"}) >= PerClient

ClientFull(o) == Cardinality(HeldBy(o.user, o.client)) >= PerClient
UserFull(o)   == Cardinality(Held(o.user)) >= PerUser

(* Faulty variant: any client's session may go, whichever limit is reached.*)
CandidatesOfUser(o) == {s \in Held(o.user) : state[s] = "open" /\ active[s] = 0}

(* The sessions reserve() may evict: of this user, of this client when the *)
(* client limit is the one reached, and with no active request.            *)
Candidates(o) ==
  {s \in Sessions : /\ state[s] = "open"
                    /\ s \in IF ClientFull(o) THEN HeldBy(o.user, o.client)
                                              ELSE Held(o.user)
                    /\ active[s] = 0}

Stalest(C) == {s \in C : \A t \in C : age[s] >= age[t]}

Pins(s) == {r \in Requests : req[r] # None /\ req[r].session = s /\ ~req[r].ended}

Referenced(s) == \E r \in Requests : req[r] # None /\ req[r].session = s

--------------------------------------------------------------------------------
Init ==
  /\ state = [s \in Sessions |-> "free"]
  /\ owner = [s \in Sessions |-> None]
  /\ active = [s \in Sessions |-> 0]
  /\ age = [s \in Sessions |-> 0]
  /\ timer = [s \in Sessions |-> FALSE]
  /\ req = [r \in Requests |-> None]
  /\ admitting = None

(* Faulty variant: the timer is armed although requests are active.        *)
TouchAlways(s, st, act) ==
  /\ age' = [age EXCEPT ![s] = 0]
  /\ timer' = [timer EXCEPT ![s] = st[s] = "open"]

(* touch(): restamp, and rearm the timer unless pinned or no longer in the *)
(* map.  The age of a session outside the map is of no consequence.        *)
Touch(s, st, act) ==
  /\ age' = [age EXCEPT ![s] = 0]
  /\ timer' = [timer EXCEPT ![s] = act[s] = 0 /\ st[s] = "open"]

Less(n, k) == IF n >= k THEN n - k ELSE 0

(* forget() for every session of F, with what closing their servers does:  *)
(* clearPending() ends the pins of the requests the servers were handling. *)
Cleared(F) == {r \in Requests : /\ req[r] # None /\ req[r].session \in F
                                /\ req[r].kind = "rpc" /\ ~req[r].ended}

Close(F, done) ==
  /\ state' = [s \in Sessions |-> IF s \in F THEN "closed" ELSE state[s]]
  /\ timer' = [s \in Sessions |-> timer[s] /\ s \notin F]
  /\ age' = [s \in Sessions |-> IF s \in F THEN 0 ELSE age[s]]
  /\ active' = [s \in Sessions |->
       IF s \in F THEN Less(active[s], Cardinality(Cleared({s}))) ELSE active[s]]
  /\ req' = [r \in Requests |->
       IF r \in Cleared(F) \cup done THEN None ELSE req[r]]

(* begin(): count the request and cancel the timer.                        *)
Begin(r, k, s) ==
  /\ req' = [req EXCEPT ![r] = [kind |-> k, session |-> s, ended |-> FALSE]]
  /\ active' = [active EXCEPT ![s] = @ + 1]
  /\ Touch(s, state, active')

(* Faulty variant: the end of a request does not touch its session.        *)
EndUntouched(r, after) ==
  /\ req' = [req EXCEPT ![r] = after]
  /\ active' = [active EXCEPT ![req[r].session] = IF req[r].ended THEN @ ELSE Less(@, 1)]
  /\ UNCHANGED <<age, timer>>

(* The callback begin() returned: only its first call counts.              *)
End(r, after) ==
  LET s == req[r].session IN
  /\ req' = [req EXCEPT ![r] = after]
  /\ IF req[r].ended
     THEN UNCHANGED <<active, age, timer>>
     ELSE /\ active' = [active EXCEPT ![s] = Less(@, 1)]
          /\ Touch(s, state, active')

Idle == admitting = None

Unused(r) == req[r] = None

--------------------------------------------------------------------------------
(* POST /mcp without a session header: an initialize request calls         *)
(* reserve() for the user and client of its token.                         *)
Initialize(r, s, u, c) ==
  /\ Idle /\ Unused(r) /\ state[s] = "free"
  /\ admitting' = [session |-> s, request |-> r, evicted |-> 0,
                   owner |-> [user |-> u, client |-> c]]
  /\ UNCHANGED <<state, owner, active, age, timer, req>>

(* Faulty variant: the evicted session leaves the map only once closed.    *)
EvictOneDeferred ==
  /\ ~Idle
  /\ ClientFull(admitting.owner) \/ UserFull(admitting.owner)
  /\ Candidates(admitting.owner) # {} /\ admitting.evicted < 2
  /\ admitting' = [admitting EXCEPT !.evicted = @ + 1]
  /\ UNCHANGED <<state, owner, active, age, timer, req>>

(* One iteration of the loop: evict the candidate seen the longest ago.    *)
EvictOne ==
  /\ ~Idle
  /\ ClientFull(admitting.owner) \/ UserFull(admitting.owner)
  /\ \E s \in Stalest(Candidates(admitting.owner)) : Close({s}, {})
  /\ admitting' = [admitting EXCEPT !.evicted = @ + 1]
  /\ UNCHANGED owner

(* No candidate: reserve() returns undefined and the answer is HTTP 429.   *)
Refuse ==
  /\ ~Idle
  /\ ClientFull(admitting.owner) \/ UserFull(admitting.owner)
  /\ Candidates(admitting.owner) = {}
  /\ admitting' = None
  /\ UNCHANGED <<state, owner, active, age, timer, req>>

(* Below both limits: the reservation is added and the handler goes on.    *)
Reserve ==
  /\ ~Idle
  /\ ~ClientFull(admitting.owner) /\ ~UserFull(admitting.owner)
  /\ state' = [state EXCEPT ![admitting.session] = "reserved"]
  /\ owner' = [owner EXCEPT ![admitting.session] = admitting.owner]
  /\ req' = [req EXCEPT ![admitting.request] =
       [kind |-> "init", session |-> admitting.session, ended |-> TRUE]]
  /\ admitting' = None
  /\ UNCHANGED <<active, age, timer>>

(* onsessioninitialized: the reservation is released and the session put   *)
(* in the map in the same turn.                                            *)
Register(r) ==
  /\ Idle /\ ~Unused(r) /\ req[r].kind = "init"
  /\ state[req[r].session] = "reserved"
  /\ state' = [state EXCEPT ![req[r].session] = "open"]
  /\ Touch(req[r].session, state', active)
  /\ UNCHANGED <<owner, active, req, admitting>>

(* Faulty variant: no finally block.                                       *)
InitReturnOnly(r) ==
  /\ Idle /\ ~Unused(r) /\ req[r].kind = "init"
  /\ req' = [req EXCEPT ![r] = None]
  /\ UNCHANGED <<state, owner, active, age, timer, admitting>>

(* The initialize handler returns; its finally block releases the          *)
(* reservation, which has an effect only if no session was registered.     *)
InitReturn(r) ==
  /\ Idle /\ ~Unused(r) /\ req[r].kind = "init"
  /\ LET s == req[r].session IN
       state' = IF state[s] = "reserved" THEN [state EXCEPT ![s] = "closed"] ELSE state
  /\ req' = [req EXCEPT ![r] = None]
  /\ UNCHANGED <<owner, active, age, timer, admitting>>

(* connect() or handleRequest() throws: the server is closed, which        *)
(* forgets a session already registered, and the reservation is released.  *)
InitThrow(r) ==
  /\ Idle /\ ~Unused(r) /\ req[r].kind = "init"
  /\ Close({req[r].session}, {r})
  /\ UNCHANGED <<owner, admitting>>

(* POST /mcp with a session header: begin() before the transport handles   *)
(* it, the end in the finally block.                                       *)
PostBegin(r, s) ==
  /\ Idle /\ Unused(r) /\ state[s] = "open"
  /\ Begin(r, "post", s)
  /\ UNCHANGED <<state, owner, admitting>>

PostEnd(r) ==
  /\ Idle /\ ~Unused(r) /\ req[r].kind = "post"
  /\ End(r, None)
  /\ UNCHANGED <<state, owner, admitting>>

(* GET /mcp: the stream pins the session until "finish", "close" or an     *)
(* error; the later ones of these call the same callback again.            *)
GetBegin(r, s) ==
  /\ Idle /\ Unused(r) /\ state[s] = "open"
  /\ Begin(r, "get", s)
  /\ UNCHANGED <<state, owner, admitting>>

GetEnd(r) ==
  /\ Idle /\ ~Unused(r) /\ req[r].kind = "get"
  /\ \/ End(r, [req[r] EXCEPT !.ended = TRUE])
     \/ End(r, None)
  /\ UNCHANGED <<state, owner, admitting>>

(* A JSON-RPC request reaches onmessage while the HTTP request that        *)
(* carries it is being handled, and gets a pin of its own that outlives    *)
(* the HTTP connection; its response ends it.                              *)
Carrying(s) == \E p \in Requests : /\ ~Unused(p) /\ req[p].session = s
                                   /\ req[p].kind \in {"init", "post"}
                                   /\ state[s] # "reserved"

RpcBegin(r, s) ==
  /\ Idle /\ Unused(r) /\ Carrying(s)
  /\ Begin(r, "rpc", s)
  /\ UNCHANGED <<state, owner, admitting>>

RpcEnd(r) ==
  /\ Idle /\ ~Unused(r) /\ req[r].kind = "rpc"
  /\ End(r, None)
  /\ UNCHANGED <<state, owner, admitting>>

(* DELETE /mcp: the session is restamped, then the transport rejects the   *)
(* request or closes the session, which forgets it.                        *)
DeleteRejected(s) ==
  /\ Idle /\ state[s] = "open"
  /\ Touch(s, state, active)
  /\ UNCHANGED <<state, owner, active, req, admitting>>

Delete(s) ==
  /\ Idle /\ state[s] = "open"
  /\ Close({s}, {})
  /\ UNCHANGED <<owner, admitting>>

(* mcpSessions.close(): all sessions of a user, or those of one client.    *)
CloseUser(u, C) ==
  /\ Idle
  /\ LET F == {s \in Held(u) : state[s] = "open" /\ owner[s].client \in C}
     IN F # {} /\ Close(F, {})
  /\ UNCHANGED <<owner, admitting>>

(* The idle timer fires.                                                   *)
IdleTimeout(s) ==
  /\ Idle /\ timer[s] /\ age[s] = IdleTicks
  /\ Close({s}, {})
  /\ UNCHANGED <<owner, admitting>>

(* Time passes for the sessions of the map.                                *)
Tick ==
  /\ Idle
  /\ \E s \in Sessions : state[s] = "open" /\ age[s] < IdleTicks
  /\ age' = [s \in Sessions |->
       IF state[s] = "open" /\ age[s] < IdleTicks THEN age[s] + 1 ELSE age[s]]
  /\ UNCHANGED <<state, owner, active, timer, req, admitting>>

(* Nothing refers to the object any more: its slot can stand for another.  *)
Reuse(s) ==
  /\ Idle /\ state[s] = "closed" /\ ~Referenced(s)
  /\ state' = [state EXCEPT ![s] = "free"]
  /\ owner' = [owner EXCEPT ![s] = None]
  /\ UNCHANGED <<active, age, timer, req, admitting>>

Next ==
  \/ \E r \in Requests, s \in Sessions, u \in Users, c \in Clients :
       Initialize(r, s, u, c)
  \/ EvictOne \/ Refuse \/ Reserve \/ Tick
  \/ \E r \in Requests :
       Register(r) \/ InitReturn(r) \/ InitThrow(r) \/ PostEnd(r) \/ GetEnd(r) \/ RpcEnd(r)
  \/ \E r \in Requests, s \in Sessions :
       PostBegin(r, s) \/ GetBegin(r, s) \/ RpcBegin(r, s)
  \/ \E s \in Sessions :
       DeleteRejected(s) \/ Delete(s) \/ IdleTimeout(s) \/ Reuse(s)
  \/ \E u \in Users, C \in {Clients} \cup {{c} : c \in Clients} : CloseUser(u, C)

Spec == Init /\ [][Next]_vars

(* Time passes, a due timer fires, the loop of reserve() runs on, and an   *)
(* initialize handler returns.  The event loop gives every pending timer   *)
(* its turn; strong fairness only undoes the splitting of reserve().       *)
Fairness ==
  /\ SF_vars(Tick)
  /\ \A s \in Sessions : SF_vars(IdleTimeout(s))
  /\ WF_vars(EvictOne \/ Refuse \/ Reserve)
  /\ \A r \in Requests : SF_vars(InitReturn(r))

FairSpec == Spec /\ Fairness

--------------------------------------------------------------------------------
TypeOK ==
  /\ state \in [Sessions -> {"free", "reserved", "open", "closed"}]
  /\ owner \in [Sessions -> Owner \cup {None}]
  /\ active \in [Sessions -> Nat]
  /\ age \in [Sessions -> 0..IdleTicks]
  /\ timer \in [Sessions -> BOOLEAN]
  /\ req \in [Requests -> Request \cup {None}]
  /\ admitting \in Ticket \cup {None}

(* Concurrent reconnects cannot bypass the limits: the registered sessions *)
(* and the unfinished initializations of a user, and of a client of that   *)
(* user, stay within them at all times (reserve, register and every path   *)
(* that releases a reservation).                                           *)
AdmissionBound ==
  \A u \in Users :
    /\ Cardinality(Held(u)) <= PerUser
    /\ \A c \in Clients : Cardinality(HeldBy(u, c)) <= PerClient

(* reserve() evicts at most one session, and never one for a request it    *)
(* then refuses: after an eviction the loop is below both limits.          *)
EvictionAdmits ==
  ~Idle /\ admitting.evicted > 0 =>
    /\ admitting.evicted = 1
    /\ ~ClientFull(admitting.owner) /\ ~UserFull(admitting.owner)

(* The idle timer is armed exactly for the sessions in the map without an  *)
(* active request: neither a pinned session nor a forgotten one can time   *)
(* out, and no idle one is left behind, whatever the order of pins, ends   *)
(* that are called twice, and closes.                                      *)
IdleTimerArmed ==
  \A s \in Sessions : timer[s] <=> state[s] = "open" /\ Pins(s) = {}

(* An admission closes only an unpinned session of the same user, of the   *)
(* same client if that client is at its limit, and none that was used      *)
(* more recently than another session it could have taken.                 *)
AdmissionEvictsOwn ==
  [][\A s \in Sessions : ~Idle /\ state[s] = "open" /\ state'[s] # "open" =>
       LET o       == admitting.owner
           limited == IF Cardinality(HeldBy(o.user, o.client)) = PerClient
                      THEN HeldBy(o.user, o.client) ELSE Held(o.user)
       IN /\ s \in limited /\ Pins(s) = {}
          /\ \A t \in limited : state[t] = "open" /\ Pins(t) = {} => age[t] <= age[s]]_vars

(* A session that is neither pinned nor touched again does not stay in the *)
(* map for ever: the idle timer is never lost.                             *)
IdleSessionsExpire ==
  \A s \in Sessions : []<>(state[s] # "open" \/ Pins(s) # {} \/ age[s] = 0)

(* An initialization never holds its place under the limits for ever: it   *)
(* ends in a registered session or in a released reservation.              *)
ReservationsEnd ==
  \A s \in Sessions : state[s] = "reserved" ~> state[s] # "reserved"
================================================================================
