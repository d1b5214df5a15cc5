---------------------------------- MODULE OAuth ----------------------------------
(***************************************************************************)
(* Authorization of MCP clients by the gateway: the consent and token      *)
(* endpoints (packages/gateway/src/oauth.ts) over the token store          *)
(* (auth-store.ts) and the account versions of the user store              *)
(* (user-store.ts).                                                        *)
(*                                                                         *)
(* A transaction and the code it leads to share one identity.  Tokens are  *)
(* issued in pairs, an access and a refresh token.  A request handler runs *)
(* from await to await; an update of a store is one step, since each store *)
(* queues its updates and replaces its file atomically.  PKCE, redirect    *)
(* URIs and scopes are left out: a request that does not match them ends   *)
(* without an effect.  Expiry may strike any time.                         *)
(***************************************************************************)
EXTENDS Naturals, FiniteSets

CONSTANTS
  Users, Clients,
  Codes,       \* consent transactions and their codes
  Pairs,       \* token pairs
  Handlers,    \* concurrent HTTP requests
  Variants,    \* the different scope requests of a refresh: part of its key
  MaxChanges,  \* bound: changes of an account, revocations of a connection
  None

ASSUME BoundAssumption == MaxChanges \in Nat

VARIABLES
  account,   \* status and authVersion of each user
  clients,   \* registered clients
  pending,   \* open consent transactions and their client
  codes,     \* stored codes
  pairs,     \* every pair issued so far
  live,      \* the stored tokens: <<"access" or "refresh", pair>>
  recent,    \* recentRefreshes: the answer kept for a refresh request
  inFlight,  \* refreshInFlight: the rotation running for a refresh request
  handler,   \* what each request is doing
  epoch,     \* history: changes of each account that revoke its access
  cuts       \* history: revocations of each connection

stores == <<account, clients, pending, codes, pairs, live>>
vars   == <<stores, recent, inFlight, handler, epoch, cuts>>

Keys  == Pairs \X Variants      \* refreshRequestKey: refresh token and scopes
Connections == Users \X Clients
Idle  == [step |-> "idle"]
Failed == "failed"

(* A grant: whom it is for, the authVersion it carries, and, as history,   *)
(* when it was consented to, when its code was stored, and whether a token *)
(* request held it while its connection was revoked.                       *)
Grant == [user: Users, client: Clients, ver: Nat, code: Codes,
          consented: Nat, cut: Nat, held: BOOLEAN]
Pair  == [grant: Grant, from: Pairs \cup {None}]

ASSUME NoneAssumption ==
  None \notin Users \cup Clients \cup Codes \cup Pairs \cup Grant \cup Pair

Handler ==
  {Idle} \cup [step: {"consume", "store", "valid", "issue"}, grant: Grant]
         \cup [step: {"join"}, key: Keys]
         \cup [step: {"cached", "answer"}, pair: Pairs]

Connection(g) == <<g.user, g.client>>
Valid(g) == account[g.user].active /\ account[g.user].ver = g.ver
HasAccess(p) == <<"access", p>> \in live /\ pairs[p].grant.client \in clients
Usable(p) == HasAccess(p) /\ Valid(pairs[p].grant)
Issued == {p \in Pairs : pairs[p] # None}

Init ==
  /\ account = [u \in Users |-> [active |-> TRUE, ver |-> 1]]
  /\ clients = Clients
  /\ pending = [k \in Codes |-> None]
  /\ codes = [k \in Codes |-> None]
  /\ pairs = [p \in Pairs |-> None]
  /\ live = {}
  /\ recent = [x \in Keys |-> None]
  /\ inFlight = [x \in Keys |-> None]
  /\ handler = [h \in Handlers |-> Idle]
  /\ epoch = [u \in Users |-> 0]
  /\ cuts = [x \in Connections |-> 0]

Continue(h, state) == handler' = [handler EXCEPT ![h] = state]
Return(h) == Continue(h, Idle)

--------------------------------------------------------------------------------
(* GET /oauth/authorize: a transaction for a registered client.  Each      *)
(* transaction identity is drawn once.                                     *)
Fresh(k) ==
  /\ pending[k] = None /\ codes[k] = None
  /\ \A p \in Issued : pairs[p].grant.code # k
  /\ \A h \in Handlers : handler[h].step \in {"consume", "store", "valid", "issue"}
                           => handler[h].grant.code # k

Authorize(k, c) ==
  /\ Fresh(k) /\ c \in clients
  /\ pending' = [pending EXCEPT ![k] = c]
  /\ UNCHANGED <<account, clients, codes, pairs, live, recent, inFlight, handler, epoch, cuts>>

(* POST /oauth/authorize: the transaction and the browser session of an    *)
(* active user are read, and the version of the session is kept;           *)
Consent(h, k, u) ==
  /\ handler[h] = Idle /\ pending[k] # None /\ account[u].active
  /\ Continue(h, [step |-> "consume",
                  grant |-> [user |-> u, client |-> pending[k], ver |-> account[u].ver,
                             code |-> k, consented |-> epoch[u], cut |-> 0, held |-> FALSE]])
  /\ UNCHANGED <<stores, recent, inFlight, epoch, cuts>>

(* Faulty variant: the transaction read before is used without looking     *)
(* whether it is still there.                                              *)
ConsumePendingAgain(h) ==
  /\ handler[h].step = "consume"
  /\ pending' = [pending EXCEPT ![handler[h].grant.code] = None]
  /\ Continue(h, [handler[h] EXCEPT !.step = "store"])
  /\ UNCHANGED <<account, clients, codes, pairs, live, recent, inFlight, epoch, cuts>>

(* then the transaction is consumed, by one request only;                  *)
ConsumePending(h) ==
  /\ handler[h].step = "consume"
  /\ LET k == handler[h].grant.code IN
       IF pending[k] = None
       THEN Return(h) /\ UNCHANGED pending
       ELSE /\ pending' = [pending EXCEPT ![k] = None]
            /\ Continue(h, [handler[h] EXCEPT !.step = "store"])
  /\ UNCHANGED <<account, clients, codes, pairs, live, recent, inFlight, epoch, cuts>>

(* "deny" consumes it too.                                                 *)
Deny(h) ==
  /\ handler[h].step = "consume"
  /\ pending' = [pending EXCEPT ![handler[h].grant.code] = None]
  /\ Return(h)
  /\ UNCHANGED <<account, clients, codes, pairs, live, recent, inFlight, epoch, cuts>>

(* and the code is stored and sent to the client.                          *)
CreateCode(h) ==
  /\ handler[h].step = "store"
  /\ LET g == handler[h].grant IN
       codes' = [codes EXCEPT ![g.code] = [g EXCEPT !.cut = cuts[Connection(g)]]]
  /\ Return(h)
  /\ UNCHANGED <<account, clients, pending, pairs, live, recent, inFlight, epoch, cuts>>

--------------------------------------------------------------------------------
(* Faulty variant: the code stays stored until the tokens are issued.      *)
ExchangeCodeKeeping(h, k) ==
  /\ handler[h] = Idle /\ codes[k] # None /\ codes[k].client \in clients
  /\ Continue(h, [step |-> "valid", grant |-> codes[k]])
  /\ UNCHANGED <<stores, recent, inFlight, epoch, cuts>>

(* POST /oauth/token, authorization_code: the client is looked up and the  *)
(* code taken out of the store (its client's removal would have done the   *)
(* same);                                                                  *)
ExchangeCode(h, k) ==
  /\ handler[h] = Idle /\ codes[k] # None /\ codes[k].client \in clients
  /\ Continue(h, [step |-> "valid", grant |-> codes[k]])
  /\ codes' = [codes EXCEPT ![k] = None]
  /\ UNCHANGED <<account, clients, pending, pairs, live, recent, inFlight, epoch, cuts>>

(* the account is read;                                                    *)
CheckUser(h) ==
  /\ handler[h].step = "valid"
  /\ IF Valid(handler[h].grant)
     THEN Continue(h, [handler[h] EXCEPT !.step = "issue"])
     ELSE Return(h)
  /\ UNCHANGED <<stores, recent, inFlight, epoch, cuts>>

(* and a pair is stored and answered.                                      *)
IssueTokens(h, p) ==
  /\ handler[h].step = "issue" /\ pairs[p] = None
  /\ pairs' = [pairs EXCEPT ![p] = [grant |-> handler[h].grant, from |-> None]]
  /\ live' = live \cup {<<"access", p>>, <<"refresh", p>>}
  /\ Return(h)
  /\ UNCHANGED <<account, clients, pending, codes, recent, inFlight, epoch, cuts>>

--------------------------------------------------------------------------------
(* POST /oauth/token, refresh_token: a recent answer for the same request  *)
(* is taken up, a running rotation joined, or a rotation started.          *)
Refresh(h, p, v) ==
  LET x == <<p, v>> IN
  /\ handler[h] = Idle /\ p \in Issued /\ pairs[p].grant.client \in clients
  /\ IF recent[x] # None
     THEN /\ Continue(h, [step |-> "cached", pair |-> recent[x]])
          /\ UNCHANGED inFlight
     ELSE /\ Continue(h, [step |-> "join", key |-> x])
          /\ inFlight' = [inFlight EXCEPT ![x] = IF @ = None THEN "queued" ELSE @]
  /\ UNCHANGED <<stores, recent, epoch, cuts>>

(* A recent answer counts while its access token does.                     *)
CheckRecent(h) ==
  /\ handler[h].step = "cached"
  /\ IF HasAccess(handler[h].pair)
     THEN Continue(h, [handler[h] EXCEPT !.step = "answer"])
     ELSE Return(h)
  /\ UNCHANGED <<stores, recent, inFlight, epoch, cuts>>

(* rotateRefresh(): the refresh token gives way to a new pair, which       *)
(* inherits its user, version and client.                                  *)
Rotated(x, q, g) ==
  /\ pairs' = [pairs EXCEPT ![q] = [grant |-> g, from |-> x[1]]]
  /\ inFlight' = [inFlight EXCEPT ![x] = q]

(* Faulty variants: the old refresh token is kept; the new pair gets the   *)
(* present version of the account.                                         *)
RotateKeeping(x, q) ==
  /\ inFlight[x] = "queued" /\ <<"refresh", x[1]>> \in live /\ pairs[q] = None
  /\ Rotated(x, q, pairs[x[1]].grant)
  /\ live' = live \cup {<<"access", q>>, <<"refresh", q>>}
  /\ UNCHANGED <<account, clients, pending, codes, recent, handler, epoch, cuts>>

RotateToPresent(x, q) ==
  LET g == pairs[x[1]].grant IN
  /\ inFlight[x] = "queued" /\ <<"refresh", x[1]>> \in live /\ pairs[q] = None
  /\ Rotated(x, q, [g EXCEPT !.ver = account[g.user].ver])
  /\ live' = (live \ {<<"refresh", x[1]>>}) \cup {<<"access", q>>, <<"refresh", q>>}
  /\ UNCHANGED <<account, clients, pending, codes, recent, handler, epoch, cuts>>

Rotate(x, q) ==
  /\ inFlight[x] = "queued" /\ <<"refresh", x[1]>> \in live /\ pairs[q] = None
  /\ Rotated(x, q, pairs[x[1]].grant)
  /\ live' = (live \ {<<"refresh", x[1]>>}) \cup {<<"access", q>>, <<"refresh", q>>}
  /\ UNCHANGED <<account, clients, pending, codes, recent, handler, epoch, cuts>>

(* The token is not stored, or the store could not be written.             *)
RotateFails(x) ==
  /\ inFlight[x] = "queued"
  /\ inFlight' = [inFlight EXCEPT ![x] = Failed]
  /\ UNCHANGED <<stores, recent, handler, epoch, cuts>>

(* The rotation settles: a result is remembered, the entry removed, and    *)
(* every request that awaited it goes on.                                  *)
Settled(x) == [h \in Handlers |->
  IF handler[h].step # "join" THEN handler[h]
  ELSE IF handler[h].key # x THEN handler[h]
  ELSE IF inFlight[x] = Failed THEN Idle
  ELSE [step |-> "answer", pair |-> inFlight[x]]]

(* Faulty variant: a failure is remembered as if it were a result.         *)
SettleRemembersFailure(x) ==
  /\ inFlight[x] \notin {None, "queued"}
  /\ recent' = [recent EXCEPT ![x] = inFlight[x]]
  /\ inFlight' = [inFlight EXCEPT ![x] = None]
  /\ handler' = Settled(x)
  /\ UNCHANGED <<stores, epoch, cuts>>

Settle(x) ==
  /\ inFlight[x] \notin {None, "queued"}
  /\ recent' = IF inFlight[x] = Failed THEN recent ELSE [recent EXCEPT ![x] = inFlight[x]]
  /\ inFlight' = [inFlight EXCEPT ![x] = None]
  /\ handler' = Settled(x)
  /\ UNCHANGED <<stores, epoch, cuts>>

(* The account is read once more and the pair is answered or withheld.     *)
Answer(h) ==
  /\ handler[h].step = "answer"
  /\ Return(h)
  /\ UNCHANGED <<stores, recent, inFlight, epoch, cuts>>

ForgetRecent(x) ==
  /\ recent[x] # None
  /\ recent' = [recent EXCEPT ![x] = None]
  /\ UNCHANGED <<stores, inFlight, handler, epoch, cuts>>

--------------------------------------------------------------------------------
(* POST /oauth/revoke, and expiry, delete one token or code.               *)
DropToken(t) ==
  /\ t \in live
  /\ live' = live \ {t}
  /\ UNCHANGED <<account, clients, pending, codes, pairs, recent, inFlight, handler, epoch, cuts>>

Expire(k) ==
  /\ pending[k] # None \/ codes[k] # None
  /\ pending' = [pending EXCEPT ![k] = None]
  /\ codes' = [codes EXCEPT ![k] = None]
  /\ UNCHANGED <<account, clients, pairs, live, recent, inFlight, handler, epoch, cuts>>

(* Deleting tokens also drops the recent answers whose access token went.  *)
Delete(tokens) ==
  /\ live' = live \ tokens
  /\ recent' = [x \in Keys |->
       IF recent[x] # None /\ <<"access", recent[x]>> \in live' THEN recent[x] ELSE None]

Tokens(S) == {"access", "refresh"} \X S

(* removeClient()                                                          *)
RemoveClient(c) ==
  /\ c \in clients
  /\ clients' = clients \ {c}
  /\ pending' = [k \in Codes |-> IF pending[k] = c THEN None ELSE pending[k]]
  /\ codes' = [k \in Codes |->
       IF codes[k] # None /\ codes[k].client = c THEN None ELSE codes[k]]
  /\ Delete(Tokens({p \in Issued : pairs[p].grant.client = c}))
  /\ UNCHANGED <<account, pairs, inFlight, handler, epoch, cuts>>

(* revokeConnection(): tokens and codes of one user and client.            *)
InConnection(g, u, c) == g.user = u /\ g.client = c

Holding(u, c) == [h \in Handlers |->
  IF handler[h].step \in {"valid", "issue"} /\ InConnection(handler[h].grant, u, c)
  THEN [handler[h] EXCEPT !.grant.held = TRUE] ELSE handler[h]]

(* Faulty variant: the codes are left.                                     *)
RevokeConnectionTokens(u, c) ==
  /\ cuts[<<u, c>>] < MaxChanges
  /\ Delete(Tokens({p \in Issued : InConnection(pairs[p].grant, u, c)}))
  /\ cuts' = [cuts EXCEPT ![<<u, c>>] = @ + 1]
  /\ handler' = Holding(u, c)
  /\ UNCHANGED <<account, clients, pending, codes, pairs, inFlight, epoch>>

RevokeConnection(u, c) ==
  /\ cuts[<<u, c>>] < MaxChanges
  /\ Delete(Tokens({p \in Issued : InConnection(pairs[p].grant, u, c)}))
  /\ codes' = [k \in Codes |->
       IF codes[k] # None /\ InConnection(codes[k], u, c) THEN None ELSE codes[k]]
  /\ cuts' = [cuts EXCEPT ![<<u, c>>] = @ + 1]
  /\ handler' = Holding(u, c)
  /\ UNCHANGED <<account, clients, pending, pairs, inFlight, epoch>>

(* UserStore.revokeAccess(), and update() with a change of the status:     *)
(* both advance authVersion.                                               *)
RevokeAccess(u) ==
  /\ epoch[u] < MaxChanges
  /\ account' = [account EXCEPT ![u].ver = @ + 1]
  /\ epoch' = [epoch EXCEPT ![u] = @ + 1]
  /\ UNCHANGED <<clients, pending, codes, pairs, live, recent, inFlight, handler, cuts>>

ChangeStatus(u) ==
  /\ epoch[u] < MaxChanges
  /\ account' = [account EXCEPT ![u] = [active |-> ~@.active, ver |-> @.ver + 1]]
  /\ epoch' = [epoch EXCEPT ![u] = @ + 1]
  /\ UNCHANGED <<clients, pending, codes, pairs, live, recent, inFlight, handler, cuts>>

(* The gateway restarts: requests and in-memory answers are gone.          *)
Restart ==
  /\ recent' = [x \in Keys |-> None]
  /\ inFlight' = [x \in Keys |-> None]
  /\ handler' = [h \in Handlers |-> Idle]
  /\ UNCHANGED <<stores, epoch, cuts>>

Next ==
  \/ \E k \in Codes, c \in Clients : Authorize(k, c)
  \/ \E h \in Handlers, k \in Codes, u \in Users : Consent(h, k, u)
  \/ \E h \in Handlers :
       ConsumePending(h) \/ Deny(h) \/ CreateCode(h) \/ CheckUser(h) \/ CheckRecent(h) \/ Answer(h)
  \/ \E h \in Handlers, k \in Codes : ExchangeCode(h, k)
  \/ \E h \in Handlers, p \in Pairs : IssueTokens(h, p)
  \/ \E h \in Handlers, p \in Pairs, v \in Variants : Refresh(h, p, v)
  \/ \E x \in Keys, q \in Pairs : Rotate(x, q)
  \/ \E x \in Keys : RotateFails(x) \/ Settle(x) \/ ForgetRecent(x)
  \/ \E t \in live : DropToken(t)
  \/ \E k \in Codes : Expire(k)
  \/ \E c \in Clients : RemoveClient(c)
  \/ \E u \in Users, c \in Clients : RevokeConnection(u, c)
  \/ \E u \in Users : RevokeAccess(u) \/ ChangeStatus(u)
  \/ Restart

Spec == Init /\ [][Next]_vars

--------------------------------------------------------------------------------
TypeOK ==
  /\ account \in [Users -> [active: BOOLEAN, ver: Nat]]
  /\ clients \subseteq Clients
  /\ pending \in [Codes -> Clients \cup {None}]
  /\ codes \in [Codes -> Grant \cup {None}]
  /\ pairs \in [Pairs -> Pair \cup {None}]
  /\ live \subseteq Tokens(Issued)
  /\ recent \in [Keys -> Pairs \cup {None}]
  /\ inFlight \in [Keys -> Pairs \cup {None, "queued", Failed}]
  /\ handler \in [Handlers -> Handler]
  /\ epoch \in [Users -> 0..MaxChanges]
  /\ cuts \in [Connections -> 0..MaxChanges]

(* One consent gives tokens once: a double submission of the consent form  *)
(* or of the code, in any interleaving, leads to a single first pair.      *)
ConsentGivesOnce ==
  \A p, q \in Issued :
    pairs[p].from = None /\ pairs[q].from = None
      /\ pairs[p].grant.code = pairs[q].grant.code => p = q

(* Rotation is a chain: a refresh token has at most one successor, and of  *)
(* all the pairs that descend from one consent at most one can still be    *)
(* refreshed, whatever retries, joins and restarts there are.              *)
RotationIsAChain ==
  \A p, q \in Issued : p # q /\ pairs[p].grant.code = pairs[q].grant.code =>
    /\ pairs[p].from # None => pairs[p].from # pairs[q].from
    /\ ~(<<"refresh", p>> \in live /\ <<"refresh", q>> \in live)

(* "Revoke all" and every change of status end all access that was         *)
(* consented to before, also through codes, exchanges, rotations and       *)
(* retries that were under way: a usable token was consented to after the  *)
(* last of them.                                                           *)
RevocationEndsAccess ==
  \A p \in Issued : Usable(p) => pairs[p].grant.consented = epoch[pairs[p].grant.user]

(* Revoking a connection ends what was stored for it: a usable token comes *)
(* from a code stored later, or was in the hands of a token request.       *)
RevokedConnectionStaysCut ==
  \A p \in Issued : HasAccess(p) =>
    pairs[p].grant.held \/ pairs[p].grant.cut = cuts[Connection(pairs[p].grant)]

(* What of all this is in force: the consents in a store or in the hands   *)
(* of a request, the tokens that are accepted and those that can be        *)
(* refreshed.                                                              *)
InForce(g) == Valid(g) /\ g.client \in clients
RightOf(g) == [user |-> g.user, client |-> g.client, code |-> g.code]
Consents ==
  {RightOf(codes[k]) : k \in {k \in Codes : codes[k] # None /\ InForce(codes[k])}}
    \cup {RightOf(handler[h].grant) : h \in {h \in Handlers :
            handler[h].step \in {"store", "valid", "issue"} /\ InForce(handler[h].grant)}}
Spent == {pairs[p].grant.code : p \in Issued}
Rights ==
  {<<t, RightOf(pairs[t[2]].grant)>> : t \in {t \in live : InForce(pairs[t[2]].grant)}}

Promise == INSTANCE Grants WITH consents <- Consents, spent <- Spent, tokens <- Rights

(* The two endpoints implement Grants: through every interleaving of       *)
(* consents, exchanges, rotations, retries, revocations and restarts,      *)
(* rights end at one stroke and come only from consents.                   *)
GrantsAreKept == Promise!Spec

(* After a connection is revoked no token of it is accepted until its user *)
(* has been through a new consent.                                         *)
RevokedConnectionHasNoAccess ==
  \A p \in Issued : HasAccess(p) => pairs[p].grant.cut = cuts[Connection(pairs[p].grant)]
================================================================================
