---------------------------- MODULE OAuth_proofs ----------------------------
(***************************************************************************)
(* Proofs about the authorization of MCP clients: type correctness, that   *)
(* one consent gives tokens once, that rotation is a chain, that the two   *)
(* kinds of revocation end the access they are about, and that all of this *)
(* implements Grants, for any number of users, clients, consents, token    *)
(* pairs and concurrent requests.                                          *)
(***************************************************************************)
EXTENDS OAuth, TLAPS

\* The steps at which a request holds a grant; at all but the first the
\* consent it came from is used up.
Holds == {"consume", "store", "valid", "issue"}
Taken == {"store", "valid", "issue"}

\* A consent is in one place: its open transaction, its stored code, one
\* request that consumed it, or the pairs issued from it.
CodesKnowThemselves == \A k \in Codes : codes[k] # None => codes[k].code = k

InOnePlace ==
  \A k \in Codes :
    /\ pending[k] # None => codes[k] = None
    /\ pending[k] # None \/ codes[k] # None =>
         /\ \A h \in Handlers : handler[h].step \in Taken => handler[h].grant.code # k
         /\ \A p \in Issued : pairs[p].grant.code # k

InOneRequest ==
  \A h \in Handlers : handler[h].step \in Taken =>
    /\ \A i \in Handlers :
         handler[i].step \in Taken /\ handler[i].grant.code = handler[h].grant.code => h = i
    /\ \A p \in Issued : pairs[p].grant.code # handler[h].grant.code

PlaceInv == CodesKnowThemselves /\ InOnePlace /\ InOneRequest /\ ConsentGivesOnce

\* A pair that was rotated cannot be refreshed any more, and its successor
\* descends from the same consent.
Succession ==
  \A p \in Issued : pairs[p].from # None =>
    /\ pairs[p].from \in Issued
    /\ pairs[pairs[p].from].grant.code = pairs[p].grant.code
    /\ <<"refresh", pairs[p].from>> \notin live

ChainInv == Succession /\ RotationIsAChain

\* Wherever a grant is kept: in a code, in a pair, in the hands of a request.
Kept(g) ==
  \/ \E k \in Codes : codes[k] # None /\ g = codes[k]
  \/ \E p \in Issued : g = pairs[p].grant
  \/ \E h \in Handlers : handler[h].step \in Holds /\ g = handler[h].grant

\* Every change that ends access advances the version of the account, and a
\* grant carries the version of the moment of its consent, which is past.
Dated(g) == g.ver = g.consented + 1 /\ g.consented <= epoch[g.user]

VersionInv ==
  /\ \A u \in Users : account[u].ver = epoch[u] + 1
  /\ \A g \in Grant : Kept(g) => Dated(g)

\* What is stored of a connection was stored after its last revocation, or
\* was in the hands of a token request; not only access tokens, also the
\* refresh tokens, the codes and the requests they come from.
Uncut(g) == g.held \/ g.cut = cuts[Connection(g)]

CutInv ==
  /\ \A k \in Codes : codes[k] # None => Uncut(codes[k])
  /\ \A t \in live : Uncut(pairs[t[2]].grant)
  /\ \A h \in Handlers : handler[h].step \in {"valid", "issue"} => Uncut(handler[h].grant)

-----------------------------------------------------------------------------
(* What a request keeps at each of its steps.                                *)
LEMMA HandlerHas ==
  ASSUME TypeOK, NEW h \in Handlers
  PROVE  /\ handler[h].step \in Holds =>
              /\ handler[h].grant \in Grant
              /\ handler[h] = [step |-> handler[h].step, grant |-> handler[h].grant]
         /\ handler[h].step \in {"cached", "answer"} =>
              /\ handler[h].pair \in Pairs
              /\ handler[h] = [step |-> handler[h].step, pair |-> handler[h].pair]
<1>1. handler[h] \in Handler
  BY DEF TypeOK
<1> QED
  BY <1>1 DEF Handler, Idle, Holds

LEMMA GrantStep ==
  ASSUME NEW g \in Grant, NEW s \in Holds
  PROVE  [step |-> s, grant |-> g] \in Handler
BY DEF Handler, Holds

LEMMA ContinueTyping ==
  ASSUME TypeOK, NEW h \in Handlers, NEW s \in Handler, Continue(h, s)
  PROVE  handler' \in [Handlers -> Handler]
BY DEF TypeOK, Continue

LEMMA ReturnTyping ==
  ASSUME TypeOK, NEW h \in Handlers, Return(h)
  PROVE  handler' \in [Handlers -> Handler]
BY DEF TypeOK, Return, Continue, Handler

\* A request at a step that holds a grant goes on with it.
LEMMA NextStep ==
  ASSUME TypeOK, NEW h \in Handlers, handler[h].step \in Holds, NEW s \in Holds
  PROVE  /\ [handler[h] EXCEPT !.step = s] \in Handler
         /\ [handler[h] EXCEPT !.step = s] = [step |-> s, grant |-> handler[h].grant]
<1>1. PICK g \in Grant : handler[h] = [step |-> handler[h].step, grant |-> g]
  BY HandlerHas
<1>2. [handler[h] EXCEPT !.step = s] = [step |-> s, grant |-> g]
  BY <1>1
<1> QED
  BY <1>1, <1>2, GrantStep

LEMMA HeldGrant ==
  ASSUME NEW g \in Grant, NEW s \in Holds
  PROVE  /\ [[step |-> s, grant |-> g] EXCEPT !.grant.held = TRUE]
              = [step |-> s, grant |-> [g EXCEPT !.held = TRUE]]
         /\ [g EXCEPT !.held = TRUE] \in Grant
<1>1. [g EXCEPT !.held = TRUE] \in Grant
  BY DEF Grant
<1>2. PICK f : f = [g EXCEPT !.held = TRUE]
  OBVIOUS
<1>3. PICK r : r = [step |-> s, grant |-> g]
  OBVIOUS
<1>4. [r EXCEPT !.grant.held = TRUE] = [r EXCEPT !.grant = [r.grant EXCEPT !.held = TRUE]]
  BY <1>3
<1>5. [r EXCEPT !.grant = f] = [step |-> s, grant |-> f]
  BY <1>3
<1> QED
  BY <1>1, <1>2, <1>3, <1>4, <1>5

LEMMA HoldingTyping ==
  ASSUME TypeOK, NEW u \in Users, NEW c \in Clients
  PROVE  Holding(u, c) \in [Handlers -> Handler]
<1> SUFFICES ASSUME NEW h \in Handlers
             PROVE  Holding(u, c)[h] \in Handler
  BY DEF Holding
<1>1. CASE handler[h].step \in {"valid", "issue"} /\ InConnection(handler[h].grant, u, c)
  <2>1. PICK g \in Grant : handler[h] = [step |-> handler[h].step, grant |-> g]
    BY <1>1, HandlerHas DEF Holds
  <2>2. PICK s \in Holds : handler[h] = [step |-> s, grant |-> g]
    BY <1>1, <2>1 DEF Holds
  <2>3. /\ [handler[h] EXCEPT !.grant.held = TRUE]
             = [step |-> s, grant |-> [g EXCEPT !.held = TRUE]]
        /\ [g EXCEPT !.held = TRUE] \in Grant
    BY <2>2, HeldGrant
  <2>4. [handler[h] EXCEPT !.grant.held = TRUE] \in Handler
    BY <2>2, <2>3, GrantStep
  <2> QED
    BY <1>1, <2>4 DEF Holding
<1>2. CASE ~(handler[h].step \in {"valid", "issue"} /\ InConnection(handler[h].grant, u, c))
  BY <1>2 DEF Holding, TypeOK
<1> QED
  BY <1>1, <1>2

LEMMA SettledTyping ==
  ASSUME TypeOK, NEW x \in Keys, inFlight[x] \notin {None, "queued"}
  PROVE  Settled(x) \in [Handlers -> Handler]
<1> SUFFICES ASSUME NEW h \in Handlers
             PROVE  Settled(x)[h] \in Handler
  BY DEF Settled
<1>1. inFlight[x] \in Pairs \cup {Failed} /\ handler[h] \in Handler
  BY DEF TypeOK
<1>2. \A p \in Pairs : [step |-> "answer", pair |-> p] \in Handler
  BY DEF Handler
<1>3. Idle \in Handler
  BY DEF Handler
<1> QED
  BY <1>1, <1>2, <1>3 DEF Settled

LEMMA DeleteTyping ==
  ASSUME TypeOK, NEW T, Delete(T)
  PROVE  live' \subseteq live /\ recent' \in [Keys -> Pairs \cup {None}]
BY DEF TypeOK, Delete

\* A pair is issued, and stays so.
LEMMA NewPair ==
  ASSUME TypeOK, NEW q \in Pairs, pairs[q] = None, NEW r \in Pair,
         pairs' = [pairs EXCEPT ![q] = r]
  PROVE  /\ pairs' \in [Pairs -> Pair \cup {None}]
         /\ Issued' = Issued \cup {q} /\ q \notin Issued
         /\ pairs'[q] = r /\ \A p \in Issued : pairs'[p] = pairs[p]
<1>1. r # None
  BY NoneAssumption
<1> QED
  BY <1>1 DEF TypeOK, Issued

LEMMA PairHas ==
  ASSUME TypeOK, NEW p \in Issued
  PROVE  pairs[p] \in Pair /\ pairs[p].grant \in Grant /\ pairs[p].from \in Pairs \cup {None}
BY DEF TypeOK, Issued, Pair

LEMMA LiveIsIssued ==
  ASSUME TypeOK, NEW t \in live
  PROVE  t[2] \in Issued /\ t = <<t[1], t[2]>> /\ t[1] \in {"access", "refresh"}
BY DEF TypeOK, Tokens

LEMMA InitTyping == Init => TypeOK
<1> SUFFICES ASSUME Init
             PROVE  TypeOK
  OBVIOUS
<1>1. 0 \in 0..MaxChanges
  BY BoundAssumption
<1>2. Idle \in Handler
  BY DEF Handler
<1> QED
  BY <1>1, <1>2 DEF Init, TypeOK, Tokens

LEMMA TypingStep ==
  ASSUME TypeOK, [Next]_vars
  PROVE  TypeOK'
<1> USE BoundAssumption, NoneAssumption
<1>1. ASSUME NEW k \in Codes, NEW c \in Clients, Authorize(k, c)
      PROVE  TypeOK'
  BY <1>1 DEF TypeOK, Authorize, Issued
<1>2. ASSUME NEW h \in Handlers, NEW k \in Codes, NEW u \in Users, Consent(h, k, u)
      PROVE  TypeOK'
  <2> DEFINE g == [user |-> u, client |-> pending[k], ver |-> account[u].ver,
                   code |-> k, consented |-> epoch[u], cut |-> 0, held |-> FALSE]
  <2>1. g \in Grant
    BY <1>2 DEF TypeOK, Consent, Grant
  <2>2. [step |-> "consume", grant |-> g] \in Handler
    BY <2>1, GrantStep DEF Holds
  <2>3. handler' \in [Handlers -> Handler]
    BY <1>2, <2>2, ContinueTyping DEF Consent
  <2> QED
    BY <1>2, <2>3 DEF TypeOK, Consent, stores, Issued
<1>3. ASSUME NEW h \in Handlers, ConsumePending(h) \/ Deny(h)
      PROVE  TypeOK'
  <2>1. handler[h].step = "consume"
    BY <1>3 DEF ConsumePending, Deny
  <2>2. handler[h].grant.code \in Codes
    BY <2>1, HandlerHas DEF Holds, Grant
  <2>3. [handler[h] EXCEPT !.step = "store"] \in Handler
    BY <2>1, NextStep DEF Holds
  <2>4. handler' \in [Handlers -> Handler]
    BY <1>3, <2>3, ContinueTyping, ReturnTyping DEF ConsumePending, Deny
  <2>5. pending' \in [Codes -> Clients \cup {None}]
    BY <1>3, <2>2 DEF ConsumePending, Deny, TypeOK
  <2> QED
    BY <1>3, <2>4, <2>5 DEF TypeOK, ConsumePending, Deny, Issued
<1>4. ASSUME NEW h \in Handlers, CreateCode(h)
      PROVE  TypeOK'
  <2> DEFINE g == handler[h].grant
  <2>1. g \in Grant /\ Connection(g) \in Connections
    BY <1>4, HandlerHas DEF CreateCode, Holds, Grant, Connection, Connections
  <2>2. cuts[Connection(g)] \in Nat
    BY <2>1 DEF TypeOK
  <2>3. [g EXCEPT !.cut = cuts[Connection(g)]] \in Grant
    BY <2>1, <2>2 DEF Grant
  <2>4. codes' \in [Codes -> Grant \cup {None}]
    BY <1>4, <2>3 DEF CreateCode, TypeOK
  <2>5. handler' \in [Handlers -> Handler]
    BY <1>4, ReturnTyping DEF CreateCode
  <2> QED
    BY <1>4, <2>4, <2>5 DEF TypeOK, CreateCode, Issued
<1>5. ASSUME NEW h \in Handlers, NEW k \in Codes, ExchangeCode(h, k)
      PROVE  TypeOK'
  <2>1. codes[k] \in Grant
    BY <1>5 DEF ExchangeCode, TypeOK
  <2>2. [step |-> "valid", grant |-> codes[k]] \in Handler
    BY <2>1, GrantStep DEF Holds
  <2>3. handler' \in [Handlers -> Handler]
    BY <1>5, <2>2, ContinueTyping DEF ExchangeCode
  <2> QED
    BY <1>5, <2>3 DEF TypeOK, ExchangeCode, Issued
<1>6. ASSUME NEW h \in Handlers, CheckUser(h)
      PROVE  TypeOK'
  <2>1. [handler[h] EXCEPT !.step = "issue"] \in Handler
    BY <1>6, NextStep DEF CheckUser, Holds
  <2>2. handler' \in [Handlers -> Handler]
    BY <1>6, <2>1, ContinueTyping, ReturnTyping DEF CheckUser
  <2> QED
    BY <1>6, <2>2 DEF TypeOK, CheckUser, stores, Issued
<1>7. ASSUME NEW h \in Handlers, NEW p \in Pairs, IssueTokens(h, p)
      PROVE  TypeOK'
  <2>1. [grant |-> handler[h].grant, from |-> None] \in Pair
    BY <1>7, HandlerHas DEF IssueTokens, Holds, Pair
  <2>2. pairs' \in [Pairs -> Pair \cup {None}] /\ Issued' = Issued \cup {p}
    BY <1>7, <2>1, NewPair DEF IssueTokens
  <2>3. handler' \in [Handlers -> Handler]
    BY <1>7, ReturnTyping DEF IssueTokens
  <2> QED
    BY <1>7, <2>2, <2>3 DEF TypeOK, IssueTokens, Tokens
<1>8. ASSUME NEW h \in Handlers, NEW p \in Pairs, NEW v \in Variants, Refresh(h, p, v)
      PROVE  TypeOK'
  <2>1. <<p, v>> \in Keys
    BY DEF Keys
  <2>2. /\ [step |-> "join", key |-> <<p, v>>] \in Handler
        /\ recent[<<p, v>>] # None =>
             [step |-> "cached", pair |-> recent[<<p, v>>]] \in Handler
    BY <2>1 DEF Handler, TypeOK
  <2>3. handler' \in [Handlers -> Handler]
    BY <1>8, <2>2, ContinueTyping DEF Refresh
  <2>4. inFlight' \in [Keys -> Pairs \cup {None, "queued", Failed}]
    BY <1>8, <2>1 DEF TypeOK, Refresh
  <2> QED
    BY <1>8, <2>3, <2>4 DEF TypeOK, Refresh, stores, Issued
<1>9. ASSUME NEW h \in Handlers, CheckRecent(h) \/ Answer(h)
      PROVE  TypeOK'
  <2>1. CheckRecent(h) => [handler[h] EXCEPT !.step = "answer"] \in Handler
    <3> SUFFICES ASSUME CheckRecent(h)
                 PROVE  [handler[h] EXCEPT !.step = "answer"] \in Handler
      OBVIOUS
    <3>1. PICK p \in Pairs : handler[h] = [step |-> "cached", pair |-> p]
      BY HandlerHas DEF CheckRecent
    <3>2. [handler[h] EXCEPT !.step = "answer"] = [step |-> "answer", pair |-> p]
      BY <3>1
    <3> QED
      BY <3>2 DEF Handler
  <2>2. handler' \in [Handlers -> Handler]
    BY <1>9, <2>1, ContinueTyping, ReturnTyping DEF CheckRecent, Answer
  <2> QED
    BY <1>9, <2>2 DEF TypeOK, CheckRecent, Answer, stores, Issued
<1>10. ASSUME NEW x \in Keys, NEW q \in Pairs, Rotate(x, q)
       PROVE  TypeOK'
  <2>1. x[1] \in Issued
    BY <1>10, LiveIsIssued DEF Rotate
  <2>2. [grant |-> pairs[x[1]].grant, from |-> x[1]] \in Pair
    BY <2>1, PairHas DEF Pair, Issued
  <2>3. pairs' \in [Pairs -> Pair \cup {None}] /\ Issued' = Issued \cup {q}
    BY <1>10, <2>2, NewPair DEF Rotate, Rotated
  <2> QED
    BY <1>10, <2>3 DEF TypeOK, Rotate, Rotated, Tokens
<1>11. ASSUME NEW x \in Keys, RotateFails(x) \/ Settle(x) \/ ForgetRecent(x)
       PROVE  TypeOK'
  <2>1. Settle(x) => /\ handler' \in [Handlers -> Handler]
                     /\ recent' \in [Keys -> Pairs \cup {None}]
    BY SettledTyping DEF Settle, TypeOK
  <2>2. handler' \in [Handlers -> Handler] /\ recent' \in [Keys -> Pairs \cup {None}]
    BY <1>11, <2>1 DEF TypeOK, RotateFails, ForgetRecent
  <2> QED
    BY <1>11, <2>2 DEF TypeOK, RotateFails, Settle, ForgetRecent, stores, Issued
<1>12. ASSUME NEW t \in live, DropToken(t)
       PROVE  TypeOK'
  BY <1>12 DEF TypeOK, DropToken, Issued
<1>13. ASSUME NEW k \in Codes, Expire(k)
       PROVE  TypeOK'
  BY <1>13 DEF TypeOK, Expire, Issued
<1>14. ASSUME NEW c \in Clients, RemoveClient(c)
       PROVE  TypeOK'
  <2>1. live' \subseteq live /\ recent' \in [Keys -> Pairs \cup {None}]
    BY <1>14, DeleteTyping DEF RemoveClient
  <2> QED
    BY <1>14, <2>1 DEF TypeOK, RemoveClient, Issued
<1>15. ASSUME NEW u \in Users, NEW c \in Clients, RevokeConnection(u, c)
       PROVE  TypeOK'
  <2>1. live' \subseteq live /\ recent' \in [Keys -> Pairs \cup {None}]
    BY <1>15, DeleteTyping DEF RevokeConnection
  <2>2. handler' \in [Handlers -> Handler]
    BY <1>15, HoldingTyping DEF RevokeConnection
  <2>3. cuts' \in [Connections -> 0..MaxChanges]
    BY <1>15 DEF RevokeConnection, TypeOK, Connections
  <2> QED
    BY <1>15, <2>1, <2>2, <2>3 DEF TypeOK, RevokeConnection, Issued
<1>16. ASSUME NEW u \in Users, RevokeAccess(u) \/ ChangeStatus(u)
       PROVE  TypeOK'
  <2>1. account' \in [Users -> [active : BOOLEAN, ver : Nat]]
    <3>1. PICK a \in [active : BOOLEAN, ver : Nat] : a = account[u]
      BY DEF TypeOK
    <3>2. /\ [a EXCEPT !.ver = @ + 1] \in [active : BOOLEAN, ver : Nat]
          /\ [active |-> ~a.active, ver |-> a.ver + 1] \in [active : BOOLEAN, ver : Nat]
      BY <3>1
    <3>3. CASE RevokeAccess(u)
      <4>1. account' = [account EXCEPT ![u] = [a EXCEPT !.ver = @ + 1]]
        BY <3>1, <3>3 DEF RevokeAccess
      <4> QED
        BY <3>2, <4>1 DEF TypeOK
    <3>4. CASE ChangeStatus(u)
      <4>1. account' = [account EXCEPT ![u] = [active |-> ~a.active, ver |-> a.ver + 1]]
        BY <3>1, <3>4 DEF ChangeStatus
      <4> QED
        BY <3>2, <4>1 DEF TypeOK
    <3> QED
      BY <1>16, <3>3, <3>4
  <2>2. epoch' \in [Users -> 0..MaxChanges]
    BY <1>16 DEF TypeOK, RevokeAccess, ChangeStatus
  <2> QED
    BY <1>16, <2>1, <2>2 DEF TypeOK, RevokeAccess, ChangeStatus, Issued
<1>17. CASE Restart
  BY <1>17 DEF TypeOK, Restart, stores, Issued, Handler
<1>18. CASE UNCHANGED vars
  BY <1>18 DEF TypeOK, vars, stores, Issued
<1> QED
  BY <1>1, <1>2, <1>3, <1>4, <1>5, <1>6, <1>7, <1>8, <1>9, <1>10, <1>11, <1>12, <1>13, <1>14,
     <1>15, <1>16, <1>17, <1>18
     DEF Next

\* The state is well formed in every behaviour: every token stored belongs to
\* an issued pair, and every request, code and pair carries a whole grant.
THEOREM Typing == Spec => []TypeOK
<1>1. TypeOK /\ [Next]_vars => TypeOK'
  BY TypingStep
<1> QED
  BY InitTyping, <1>1, PTL DEF Spec

-----------------------------------------------------------------------------
(* Most steps add nothing that could give access: they leave what is stored  *)
(* and what requests hold, or take some of it away.                          *)
AddsNothing ==
  /\ \A k \in Codes : codes'[k] # None => codes'[k] = codes[k]
  /\ \A k \in Codes : pending'[k] # None => pending'[k] = pending[k]
  /\ UNCHANGED <<pairs, cuts>> /\ live' \subseteq live
  /\ \A h \in Handlers : handler'[h].step \in Holds =>
       /\ handler'[h].grant = handler[h].grant
       /\ handler[h].step \in Holds
       /\ handler'[h].step \in Taken => handler[h].step \in Taken
       /\ handler'[h].step \in {"valid", "issue"} => handler[h].step \in {"valid", "issue"}

Adds ==
  \/ \E k \in Codes, c \in Clients : Authorize(k, c)
  \/ \E h \in Handlers, k \in Codes, u \in Users : Consent(h, k, u)
  \/ \E h \in Handlers : ConsumePending(h) \/ CreateCode(h)
  \/ \E h \in Handlers, k \in Codes : ExchangeCode(h, k)
  \/ \E h \in Handlers, p \in Pairs : IssueTokens(h, p)
  \/ \E x \in Keys, q \in Pairs : Rotate(x, q)
  \/ \E u \in Users, c \in Clients : RevokeConnection(u, c)

LEMMA Goes ==
  ASSUME TypeOK, NEW h \in Handlers, NEW s, Continue(h, s)
  PROVE  handler'[h] = s /\ \A i \in Handlers \ {h} : handler'[i] = handler[i]
BY DEF TypeOK, Continue

LEMMA Ends ==
  ASSUME TypeOK, NEW h \in Handlers, Return(h)
  PROVE  /\ handler'[h].step = "idle" /\ handler'[h].step \notin Holds
         /\ \A i \in Handlers \ {h} : handler'[i] = handler[i]
BY DEF TypeOK, Return, Continue, Idle, Holds

\* A request that ends, or goes on at a step without a grant.
LEMMA EndsAddsNothing ==
  ASSUME TypeOK, NEW h \in Handlers, handler'[h].step \notin Holds,
         \A i \in Handlers \ {h} : handler'[i] = handler[i]
  PROVE  \A i \in Handlers : handler'[i].step \in Holds => handler'[i] = handler[i]
OBVIOUS

LEMMA AddsOrNot ==
  ASSUME TypeOK, [Next]_vars
  PROVE  AddsNothing \/ Adds
<1> SUFFICES ASSUME ~Adds
             PROVE  AddsNothing
  OBVIOUS
<1>1. ASSUME NEW h \in Handlers, Deny(h)
      PROVE  AddsNothing
  <2>1. handler[h].grant.code \in Codes
    BY <1>1, HandlerHas DEF Deny, Holds, Grant
  <2> QED
    BY <1>1, <2>1, Ends DEF Deny, AddsNothing, TypeOK
<1>2. ASSUME NEW h \in Handlers, CheckUser(h)
      PROVE  AddsNothing
  <2>1. CASE Return(h)
    BY <1>2, <2>1, Ends DEF CheckUser, AddsNothing, stores
  <2>2. CASE Continue(h, [handler[h] EXCEPT !.step = "issue"])
    <3>1. [handler[h] EXCEPT !.step = "issue"] = [step |-> "issue", grant |-> handler[h].grant]
      BY <1>2, NextStep DEF CheckUser, Holds
    <3>2. /\ handler'[h] = [step |-> "issue", grant |-> handler[h].grant]
          /\ \A i \in Handlers \ {h} : handler'[i] = handler[i]
      BY <2>2, <3>1, Goes
    <3>3. handler'[h].grant = handler[h].grant /\ handler[h].step = "valid"
      BY <1>2, <3>2 DEF CheckUser
    <3> QED
      BY <1>2, <3>2, <3>3 DEF CheckUser, AddsNothing, stores, Holds, Taken
  <2> QED
    BY <1>2, <2>1, <2>2 DEF CheckUser
<1>3. ASSUME NEW h \in Handlers, CheckRecent(h)
      PROVE  AddsNothing
  <2>1. handler[h] = [step |-> handler[h].step, pair |-> handler[h].pair]
    BY <1>3, HandlerHas DEF CheckRecent
  <2>2. [handler[h] EXCEPT !.step = "answer"].step = "answer"
    BY <2>1
  <2>3. handler'[h].step \notin Holds /\ \A i \in Handlers \ {h} : handler'[i] = handler[i]
    BY <1>3, <2>2, Goes, Ends DEF CheckRecent, Holds
  <2> QED
    BY <1>3, <2>3, EndsAddsNothing DEF CheckRecent, AddsNothing, stores
<1>4. ASSUME NEW h \in Handlers, Answer(h)
      PROVE  AddsNothing
  BY <1>4, Ends DEF Answer, AddsNothing, stores
<1>5. ASSUME NEW h \in Handlers, NEW p \in Pairs, NEW v \in Variants, Refresh(h, p, v)
      PROVE  AddsNothing
  <2>1. handler'[h].step \notin Holds /\ \A i \in Handlers \ {h} : handler'[i] = handler[i]
    BY <1>5, Goes DEF Refresh, Holds
  <2> QED
    BY <1>5, <2>1, EndsAddsNothing DEF Refresh, AddsNothing, stores
<1>6. ASSUME NEW x \in Keys, RotateFails(x) \/ ForgetRecent(x)
      PROVE  AddsNothing
  BY <1>6 DEF RotateFails, ForgetRecent, AddsNothing, stores
<1>7. ASSUME NEW x \in Keys, Settle(x)
      PROVE  AddsNothing
  <2>1. \A h \in Handlers : \/ handler'[h] = handler[h]
                            \/ handler'[h].step \notin Holds
    BY <1>7 DEF Settle, Settled, Idle, Holds
  <2> QED
    BY <1>7, <2>1 DEF Settle, AddsNothing, stores
<1>8. ASSUME NEW t \in live, DropToken(t)
      PROVE  AddsNothing
  BY <1>8 DEF DropToken, AddsNothing
<1>9. ASSUME NEW k \in Codes, Expire(k)
      PROVE  AddsNothing
  BY <1>9 DEF Expire, AddsNothing, TypeOK
<1>10. ASSUME NEW c \in Clients, RemoveClient(c)
       PROVE  AddsNothing
  BY <1>10, DeleteTyping DEF RemoveClient, AddsNothing, TypeOK
<1>11. ASSUME NEW u \in Users, RevokeAccess(u) \/ ChangeStatus(u)
       PROVE  AddsNothing
  BY <1>11 DEF RevokeAccess, ChangeStatus, AddsNothing
<1>12. CASE Restart
  BY <1>12 DEF Restart, AddsNothing, stores, Idle, Holds
<1>13. CASE UNCHANGED vars
  BY <1>13 DEF vars, stores, AddsNothing
<1> QED
  BY <1>1, <1>2, <1>3, <1>4, <1>5, <1>6, <1>7, <1>8, <1>9, <1>10, <1>11, <1>12, <1>13
     DEF Next, Adds

-----------------------------------------------------------------------------
(* Revocation and status changes: the version of an account counts them.     *)
LEMMA VersionsCount ==
  ASSUME TypeOK, [Next]_vars, \A u \in Users : account[u].ver = epoch[u] + 1
  PROVE  \A u \in Users : account'[u].ver = epoch'[u] + 1
<1>1. ASSUME NEW u \in Users, RevokeAccess(u) \/ ChangeStatus(u)
      PROVE  \A v \in Users : account'[v].ver = epoch'[v] + 1
  <2> SUFFICES ASSUME NEW v \in Users
               PROVE  account'[v].ver = epoch'[v] + 1
    OBVIOUS
  <2>1. account[u] \in [active : BOOLEAN, ver : Nat] /\ epoch[u] \in Nat
    BY BoundAssumption DEF TypeOK
  <2>2. account'[u].ver = account[u].ver + 1 /\ epoch'[u] = epoch[u] + 1
    BY <1>1, <2>1 DEF TypeOK, RevokeAccess, ChangeStatus
  <2>3. v # u => account'[v] = account[v] /\ epoch'[v] = epoch[v]
    BY <1>1 DEF TypeOK, RevokeAccess, ChangeStatus
  <2> QED
    BY <2>1, <2>2, <2>3
<1>2. CASE ~\E u \in Users : RevokeAccess(u) \/ ChangeStatus(u)
  <2>1. UNCHANGED <<account, epoch>>
    BY <1>2 DEF Next, vars, stores, Authorize, Consent, ConsumePending, Deny, CreateCode,
       ExchangeCode, CheckUser, IssueTokens, Refresh, CheckRecent, Rotate, RotateFails, Settle,
       Answer, ForgetRecent, DropToken, Expire, RemoveClient, RevokeConnection, Restart
  <2> QED
    BY <2>1
<1> QED
  BY <1>1, <1>2

LEMMA EpochsGrow ==
  ASSUME TypeOK, [Next]_vars
  PROVE  \A u \in Users : epoch[u] \in Nat /\ epoch'[u] \in Nat /\ epoch[u] <= epoch'[u]
<1>1. ASSUME NEW u \in Users, RevokeAccess(u) \/ ChangeStatus(u)
      PROVE  \A v \in Users : epoch[v] <= epoch'[v]
  BY <1>1, BoundAssumption DEF TypeOK, RevokeAccess, ChangeStatus
<1>2. CASE ~\E u \in Users : RevokeAccess(u) \/ ChangeStatus(u)
  <2>1. UNCHANGED epoch
    BY <1>2 DEF Next, vars, stores, Authorize, Consent, ConsumePending, Deny, CreateCode,
       ExchangeCode, CheckUser, IssueTokens, Refresh, CheckRecent, Rotate, RotateFails, Settle,
       Answer, ForgetRecent, DropToken, Expire, RemoveClient, RevokeConnection, Restart
  <2> QED
    BY <2>1, BoundAssumption DEF TypeOK
<1>3. \A u \in Users : epoch[u] \in Nat /\ epoch'[u] \in Nat
  BY TypingStep, BoundAssumption DEF TypeOK
<1> QED
  BY <1>1, <1>2, <1>3

\* What revoking a connection does to the requests.
HeldAs(h, g, b, u, c) ==
  /\ g = handler[h].grant /\ handler'[h].grant = [g EXCEPT !.held = b]
  /\ b = IF handler[h].step \in {"valid", "issue"} /\ InConnection(g, u, c)
         THEN TRUE ELSE g.held

LEMMA HeldBy ==
  ASSUME TypeOK, NEW u \in Users, NEW c \in Clients, handler' = Holding(u, c),
         NEW h \in Handlers
  PROVE  /\ handler'[h].step = handler[h].step
         /\ handler[h].step \in Holds =>
              \E g \in Grant, b \in BOOLEAN : HeldAs(h, g, b, u, c)
<1>1. CASE handler[h].step \in {"valid", "issue"} /\ InConnection(handler[h].grant, u, c)
  <2>1. PICK g \in Grant : handler[h] = [step |-> handler[h].step, grant |-> g]
    BY <1>1, HandlerHas DEF Holds
  <2>2. PICK s \in Holds : handler[h] = [step |-> s, grant |-> g]
    BY <1>1, <2>1 DEF Holds
  <2>3. handler'[h] = [step |-> s, grant |-> [g EXCEPT !.held = TRUE]]
    BY <1>1, <2>2, HeldGrant DEF Holding
  <2>4. /\ handler[h].grant = g /\ handler[h].step = s
        /\ handler'[h].grant = [g EXCEPT !.held = TRUE] /\ handler'[h].step = s
    BY <2>2, <2>3
  <2>5. HeldAs(h, g, TRUE, u, c)
    BY <1>1, <2>4 DEF HeldAs
  <2> QED
    BY <2>4, <2>5
<1>2. CASE ~(handler[h].step \in {"valid", "issue"} /\ InConnection(handler[h].grant, u, c))
  <2>1. handler'[h] = handler[h]
    BY <1>2 DEF Holding
  <2>2. handler[h].step \in Holds => \E g \in Grant : g = handler[h].grant
    BY HandlerHas
  <2>3. \A g \in Grant : g = [g EXCEPT !.held = g.held] /\ g.held \in BOOLEAN
    BY DEF Grant
  <2>4. \A g \in Grant : g = handler[h].grant => HeldAs(h, g, g.held, u, c)
    BY <1>2, <2>1, <2>3 DEF HeldAs
  <2> QED
    BY <2>1, <2>2, <2>3, <2>4
<1> QED
  BY <1>1, <1>2

\* A grant is handed on as it was, but for the history of its connection.
SameConsent(f, g) ==
  /\ f.user = g.user /\ f.client = g.client /\ f.code = g.code
  /\ f.ver = g.ver /\ f.consented = g.consented

LEMMA HandedOn ==
  ASSUME TypeOK, [Next]_vars, NEW g \in Grant, Kept(g)'
  PROVE  \/ \E f \in Grant : Kept(f) /\ SameConsent(f, g)
         \/ /\ g.ver = account[g.user].ver /\ g.consented = epoch[g.user]
            /\ UNCHANGED <<account, epoch>>
<1> DEFINE Known == \E f \in Grant : Kept(f) /\ SameConsent(f, g)
<1>1. Kept(g) => Known
  BY DEF SameConsent
<1>2. CASE AddsNothing
  BY <1>1, <1>2 DEF AddsNothing, Kept, Issued
<1>3. ASSUME NEW k \in Codes, NEW c \in Clients, Authorize(k, c)
      PROVE  Known
  BY <1>1, <1>3 DEF Authorize, Kept, Issued
<1>4. ASSUME NEW h \in Handlers, NEW k \in Codes, NEW u \in Users, Consent(h, k, u)
      PROVE  \/ Known
             \/ /\ g.ver = account[g.user].ver /\ g.consented = epoch[g.user]
                /\ UNCHANGED <<account, epoch>>
  <2>1. /\ handler'[h].grant.ver = account[u].ver /\ handler'[h].grant.user = u
        /\ handler'[h].grant.consented = epoch[u]
        /\ \A i \in Handlers \ {h} : handler'[i] = handler[i]
    BY <1>4, Goes DEF Consent
  <2>2. UNCHANGED <<codes, pairs, account, epoch>>
    BY <1>4 DEF Consent, stores
  <2>3. Kept(g) \/ g = handler'[h].grant
    BY <2>1, <2>2 DEF Kept, Issued
  <2> QED
    BY <1>1, <2>1, <2>2, <2>3
<1>5. ASSUME NEW h \in Handlers, ConsumePending(h)
      PROVE  Known
  <2>1. CASE Return(h)
    BY <1>1, <1>5, <2>1, Ends DEF ConsumePending, Kept, Issued
  <2>2. CASE Continue(h, [handler[h] EXCEPT !.step = "store"])
    <3>1. [handler[h] EXCEPT !.step = "store"] = [step |-> "store", grant |-> handler[h].grant]
      BY <1>5, NextStep DEF ConsumePending, Holds
    <3>2. /\ handler'[h] = [step |-> "store", grant |-> handler[h].grant]
          /\ \A i \in Handlers \ {h} : handler'[i] = handler[i]
      BY <2>2, <3>1, Goes
    <3>3. handler'[h].grant = handler[h].grant /\ handler[h].step = "consume"
      BY <1>5, <3>2 DEF ConsumePending
    <3> QED
      BY <1>1, <1>5, <3>2, <3>3 DEF ConsumePending, Kept, Holds, Issued
  <2> QED
    BY <1>5, <2>1, <2>2 DEF ConsumePending
<1>6. ASSUME NEW h \in Handlers, CreateCode(h)
      PROVE  Known
  <2>1. PICK f \in Grant : f = handler[h].grant
    BY <1>6, HandlerHas DEF CreateCode, Holds
  <2>2. PICK n : n = cuts[Connection(f)]
    OBVIOUS
  <2>3. PICK r : r = [f EXCEPT !.cut = n]
    OBVIOUS
  <2>4. codes' = [codes EXCEPT ![f.code] = r] /\ UNCHANGED pairs
    BY <1>6, <2>1, <2>2, <2>3 DEF CreateCode
  <2>5. \A k \in Codes : codes'[k] = codes[k] \/ codes'[k] = r
    BY <2>4 DEF TypeOK
  <2>6. Kept(f) /\ SameConsent(f, r)
    BY <1>6, <2>1, <2>3 DEF CreateCode, Kept, Holds, SameConsent, Grant
  <2>7. Kept(g) \/ g = r
    BY <1>6, <2>4, <2>5, Ends DEF CreateCode, Kept, Issued
  <2> QED
    BY <1>1, <2>6, <2>7
<1>7. ASSUME NEW h \in Handlers, NEW k \in Codes, ExchangeCode(h, k)
      PROVE  Known
  <2>1. /\ handler'[h].grant = codes[k] /\ codes[k] # None
        /\ \A i \in Handlers \ {h} : handler'[i] = handler[i]
    BY <1>7, Goes DEF ExchangeCode
  <2>2. (\A i \in Codes : codes'[i] # None => codes'[i] = codes[i]) /\ UNCHANGED pairs
    BY <1>7 DEF ExchangeCode, TypeOK
  <2> QED
    BY <1>1, <2>1, <2>2 DEF Kept, Issued
<1>8. ASSUME NEW h \in Handlers, NEW q \in Pairs, IssueTokens(h, q)
      PROVE  Known
  <2>1. handler[h].grant \in Grant /\ handler[h].step \in Holds
    BY <1>8, HandlerHas DEF IssueTokens, Holds
  <2>2. /\ Issued' = Issued \cup {q} /\ pairs'[q].grant = handler[h].grant
        /\ \A p \in Issued : pairs'[p] = pairs[p]
    BY <1>8, <2>1, NewPair DEF IssueTokens, Pair
  <2> QED
    BY <1>1, <1>8, <2>1, <2>2, Ends DEF IssueTokens, Kept
<1>9. ASSUME NEW x \in Keys, NEW q \in Pairs, Rotate(x, q)
      PROVE  Known
  <2>1. x[1] \in Issued
    BY <1>9, LiveIsIssued DEF Rotate
  <2>2. [grant |-> pairs[x[1]].grant, from |-> x[1]] \in Pair
    BY <2>1, PairHas DEF Pair, Issued
  <2>3. /\ Issued' = Issued \cup {q} /\ pairs'[q].grant = pairs[x[1]].grant
        /\ \A p \in Issued : pairs'[p] = pairs[p]
    BY <1>9, <2>2, NewPair DEF Rotate, Rotated
  <2> QED
    BY <1>1, <1>9, <2>1, <2>3 DEF Rotate, Rotated, Kept
<1>10. ASSUME NEW u \in Users, NEW c \in Clients, RevokeConnection(u, c)
       PROVE  Known
  <2>1. CASE \E h \in Handlers : handler'[h].step \in Holds /\ g = handler'[h].grant
    <3>1. PICK h \in Handlers : handler'[h].step \in Holds /\ g = handler'[h].grant
      BY <2>1
    <3>2. handler[h].step \in Holds /\ handler' = Holding(u, c)
      BY <1>10, <3>1, HeldBy DEF RevokeConnection
    <3>3. PICK f \in Grant, b \in BOOLEAN : HeldAs(h, f, b, u, c)
      BY <3>2, HeldBy
    <3>4. Kept(f) /\ SameConsent(f, g)
      BY <3>1, <3>2, <3>3 DEF HeldAs, Kept, SameConsent, Grant
    <3> QED
      BY <3>4
  <2>2. CASE ~\E h \in Handlers : handler'[h].step \in Holds /\ g = handler'[h].grant
    BY <1>1, <1>10, <2>2 DEF RevokeConnection, Kept, Issued
  <2> QED
    BY <2>1, <2>2
<1> QED
  BY <1>2, <1>3, <1>4, <1>5, <1>6, <1>7, <1>8, <1>9, <1>10, AddsOrNot DEF Adds

LEMMA VersionStep ==
  ASSUME TypeOK, VersionInv, [Next]_vars
  PROVE  VersionInv'
<1>1. \A u \in Users : account'[u].ver = epoch'[u] + 1
  BY VersionsCount DEF VersionInv
<1>2. \A u \in Users : epoch[u] \in Nat /\ epoch'[u] \in Nat /\ epoch[u] <= epoch'[u]
  BY EpochsGrow
<1>3. ASSUME NEW g \in Grant, Kept(g)'
      PROVE  g.ver = g.consented + 1 /\ g.consented <= epoch'[g.user]
  <2>1. g.user \in Users /\ g.consented \in Nat
    BY DEF Grant
  <2>2. CASE \E f \in Grant : Kept(f) /\ SameConsent(f, g)
    <3>1. PICK f \in Grant : Kept(f) /\ SameConsent(f, g)
      BY <2>2
    <3>2. f.ver = f.consented + 1 /\ f.consented <= epoch[f.user]
      BY <3>1 DEF VersionInv, Dated
    <3> QED
      BY <1>2, <2>1, <3>1, <3>2 DEF SameConsent
  <2>3. CASE /\ g.ver = account[g.user].ver /\ g.consented = epoch[g.user]
             /\ UNCHANGED <<account, epoch>>
    BY <1>2, <2>1, <2>3 DEF VersionInv
  <2> QED
    BY <1>3, <2>2, <2>3, HandedOn
<1> QED
  BY <1>1, <1>3 DEF VersionInv, Dated

\* Revoking all access, or changing the status of an account, ends every access
\* consented to before, through every code, exchange, rotation and retry.
THEOREM RevokedAccessEnds == Spec => []RevocationEndsAccess
<1>1. Init => TypeOK /\ VersionInv
  BY InitTyping DEF Init, VersionInv, Kept, Idle, Holds, Issued
<1>2. (TypeOK /\ VersionInv) /\ [Next]_vars => (TypeOK /\ VersionInv)'
  BY TypingStep, VersionStep
<1>3. TypeOK /\ VersionInv => RevocationEndsAccess
  <2> SUFFICES ASSUME TypeOK, VersionInv, NEW p \in Issued, Usable(p)
               PROVE  pairs[p].grant.consented = epoch[pairs[p].grant.user]
    BY DEF RevocationEndsAccess
  <2>1. PICK g \in Grant : g = pairs[p].grant
    BY PairHas
  <2>2. g.ver = g.consented + 1 /\ account[g.user].ver = epoch[g.user] + 1
    BY <2>1 DEF VersionInv, Dated, Kept, Grant
  <2>3. account[g.user].ver = g.ver
    BY <2>1 DEF Usable, Valid
  <2>4. g.consented \in Nat /\ epoch[g.user] \in Nat
    BY <2>1, BoundAssumption DEF TypeOK, Grant
  <2> QED
    BY <2>1, <2>2, <2>3, <2>4
<1> QED
  BY <1>1, <1>2, <1>3, PTL DEF Spec

-----------------------------------------------------------------------------
(* Revoking a connection.                                                    *)
LEMMA OtherConnections ==
  ASSUME TypeOK, NEW u \in Users, NEW c \in Clients, RevokeConnection(u, c),
         NEW g \in Grant, ~InConnection(g, u, c), Uncut(g)
  PROVE  Uncut(g)'
<1>1. Connection(g) # <<u, c>> /\ Connection(g) \in Connections
  BY DEF Connection, InConnection, Connections, Grant
<1>2. cuts'[Connection(g)] = cuts[Connection(g)]
  BY <1>1 DEF RevokeConnection, TypeOK
<1> QED
  BY <1>2 DEF Uncut, Connection

LEMMA CutStep ==
  ASSUME TypeOK, CutInv, [Next]_vars
  PROVE  CutInv'
<1>1. \A t \in live : t[2] \in Issued /\ pairs[t[2]].grant \in Grant
  BY LiveIsIssued, PairHas
<1>2. ASSUME AddsNothing
      PROVE  CutInv'
  BY <1>2 DEF AddsNothing, CutInv, Uncut, Connection, Holds
<1>3. ASSUME NEW k \in Codes, NEW c \in Clients, Authorize(k, c)
      PROVE  CutInv'
  BY <1>3 DEF Authorize, CutInv, Uncut, Connection
<1>4. ASSUME NEW h \in Handlers, NEW k \in Codes, NEW u \in Users, Consent(h, k, u)
      PROVE  CutInv'
  <2>1. /\ handler'[h].step = "consume"
        /\ \A i \in Handlers \ {h} : handler'[i] = handler[i]
    BY <1>4, Goes DEF Consent
  <2> QED
    BY <1>4, <2>1 DEF Consent, stores, CutInv, Uncut, Connection
<1>5. ASSUME NEW h \in Handlers, ConsumePending(h)
      PROVE  CutInv'
  <2>1. CASE Return(h)
    BY <1>5, <2>1, Ends DEF ConsumePending, CutInv, Uncut, Connection
  <2>2. CASE Continue(h, [handler[h] EXCEPT !.step = "store"])
    <3>1. [handler[h] EXCEPT !.step = "store"] = [step |-> "store", grant |-> handler[h].grant]
      BY <1>5, NextStep DEF ConsumePending, Holds
    <3>2. /\ handler'[h].step = "store"
          /\ \A i \in Handlers \ {h} : handler'[i] = handler[i]
      BY <2>2, <3>1, Goes
    <3> QED
      BY <1>5, <3>2 DEF ConsumePending, CutInv, Uncut, Connection
  <2> QED
    BY <1>5, <2>1, <2>2 DEF ConsumePending
<1>6. ASSUME NEW h \in Handlers, CreateCode(h)
      PROVE  CutInv'
  <2>1. PICK g \in Grant : g = handler[h].grant
    BY <1>6, HandlerHas DEF CreateCode, Holds
  <2>2. PICK f \in [Codes -> Grant \cup {None}] : f = codes
    BY DEF TypeOK
  <2>3. PICK n : n = cuts[Connection(g)]
    OBVIOUS
  <2>4. PICK r : r = [g EXCEPT !.cut = n]
    OBVIOUS
  <2>5. r.cut = n /\ Connection(r) = Connection(g)
    BY <2>4 DEF Connection, Grant
  <2>6. codes' = [f EXCEPT ![g.code] = r] /\ UNCHANGED <<pairs, live, cuts>>
    BY <1>6, <2>1, <2>2, <2>3, <2>4 DEF CreateCode
  <2>7. \A k \in Codes : codes'[k] # None => codes'[k] = codes[k] \/ codes'[k] = r
    BY <2>2, <2>6
  <2>8. \A k \in Codes : codes'[k] # None => \/ Uncut(codes[k]) /\ codes'[k] = codes[k]
                                             \/ codes'[k] = r
    BY <2>7 DEF CutInv
  <2>9. \A k \in Codes : codes'[k] # None => Uncut(codes[k])'
    BY <2>3, <2>5, <2>6, <2>8 DEF Uncut, Connection
  <2>10. /\ handler'[h].step = "idle"
         /\ \A i \in Handlers \ {h} : handler'[i] = handler[i]
    BY <1>6, Ends DEF CreateCode
  <2> QED
    BY <2>6, <2>9, <2>10 DEF CutInv, Uncut, Connection
<1>7. ASSUME NEW h \in Handlers, NEW k \in Codes, ExchangeCode(h, k)
      PROVE  CutInv'
  <2>1. /\ handler'[h].grant = codes[k] /\ Uncut(codes[k])
        /\ \A i \in Handlers \ {h} : handler'[i] = handler[i]
    BY <1>7, Goes DEF ExchangeCode, CutInv
  <2>2. \A i \in Codes : codes'[i] # None => codes'[i] = codes[i]
    BY <1>7 DEF ExchangeCode, TypeOK
  <2> QED
    BY <1>7, <2>1, <2>2 DEF ExchangeCode, CutInv, Uncut, Connection
<1>8. ASSUME NEW h \in Handlers, NEW q \in Pairs, IssueTokens(h, q)
      PROVE  CutInv'
  <2>1. handler[h].grant \in Grant /\ Uncut(handler[h].grant)
    BY <1>8, HandlerHas DEF IssueTokens, Holds, CutInv
  <2>2. /\ pairs'[q].grant = handler[h].grant
        /\ \A p \in Issued : pairs'[p] = pairs[p]
    BY <1>8, <2>1, NewPair DEF IssueTokens, Pair
  <2>3. \A t \in live' : t \in live \/ t[2] = q
    BY <1>8 DEF IssueTokens
  <2>4. \A t \in live' : Uncut(pairs'[t[2]].grant)
    BY <1>1, <2>1, <2>2, <2>3 DEF CutInv
  <2>5. UNCHANGED <<codes, cuts>>
    BY <1>8 DEF IssueTokens
  <2>6. \A t \in live' : Uncut(pairs[t[2]].grant)'
    BY <2>4, <2>5 DEF Uncut, Connection
  <2>7. /\ handler'[h].step = "idle"
        /\ \A i \in Handlers \ {h} : handler'[i] = handler[i]
    BY <1>8, Ends DEF IssueTokens
  <2> QED
    BY <2>5, <2>6, <2>7 DEF CutInv, Uncut, Connection
<1>9. ASSUME NEW x \in Keys, NEW q \in Pairs, Rotate(x, q)
      PROVE  CutInv'
  <2>1. x[1] \in Issued /\ Uncut(pairs[x[1]].grant)
    BY <1>9, LiveIsIssued DEF Rotate, CutInv
  <2>2. [grant |-> pairs[x[1]].grant, from |-> x[1]] \in Pair
    BY <2>1, PairHas DEF Pair, Issued
  <2>3. /\ pairs'[q].grant = pairs[x[1]].grant
        /\ \A p \in Issued : pairs'[p] = pairs[p]
    BY <1>9, <2>2, NewPair DEF Rotate, Rotated
  <2>4. \A t \in live' : t \in live \/ t[2] = q
    BY <1>9 DEF Rotate
  <2>5. UNCHANGED <<codes, handler, cuts>>
    BY <1>9 DEF Rotate
  <2>6. \A t \in live' : Uncut(pairs'[t[2]].grant)
    BY <1>1, <2>1, <2>3, <2>4 DEF CutInv
  <2>7. \A t \in live' : Uncut(pairs[t[2]].grant)'
    BY <2>5, <2>6 DEF Uncut, Connection
  <2> QED
    BY <2>5, <2>7 DEF CutInv, Uncut, Connection
<1>10. ASSUME NEW u \in Users, NEW c \in Clients, RevokeConnection(u, c)
       PROVE  CutInv'
  <2>1. ASSUME NEW k \in Codes, codes'[k] # None
        PROVE  Uncut(codes[k])'
    <3>1. codes'[k] = codes[k] /\ ~InConnection(codes[k], u, c) /\ codes[k] # None
      BY <1>10, <2>1 DEF RevokeConnection
    <3>2. PICK g \in Grant : g = codes[k]
      BY <3>1 DEF TypeOK
    <3>3. Uncut(g)'
      BY <1>10, <3>1, <3>2, OtherConnections DEF CutInv
    <3> QED
      BY <3>1, <3>2, <3>3 DEF Uncut, Connection
  <2>2. ASSUME NEW t \in live'
        PROVE  Uncut(pairs[t[2]].grant)'
    <3>1. t \in live /\ t \notin Tokens({p \in Issued : InConnection(pairs[p].grant, u, c)})
      BY <1>10, <2>2 DEF RevokeConnection, Delete
    <3>2. t[2] \in Issued /\ ~InConnection(pairs[t[2]].grant, u, c)
      BY <3>1, LiveIsIssued DEF Tokens
    <3>3. PICK g \in Grant : g = pairs[t[2]].grant
      BY <1>1, <3>1
    <3>4. Uncut(g)'
      BY <1>10, <3>1, <3>2, <3>3, OtherConnections DEF CutInv
    <3> QED
      BY <1>10, <3>3, <3>4 DEF Uncut, Connection, RevokeConnection
  <2>3. ASSUME NEW h \in Handlers, handler'[h].step \in {"valid", "issue"}
        PROVE  Uncut(handler[h].grant)'
    <3>1. handler[h].step \in {"valid", "issue"} /\ handler' = Holding(u, c)
      BY <1>10, <2>3, HeldBy DEF RevokeConnection
    <3>2. PICK g \in Grant, b \in BOOLEAN : HeldAs(h, g, b, u, c)
      BY <3>1, HeldBy DEF Holds
    <3>3. PICK r \in Grant : r = handler'[h].grant
      BY <3>2 DEF HeldAs, Grant
    <3>4. CASE InConnection(g, u, c)
      <4>1. r.held
        BY <3>1, <3>2, <3>3, <3>4 DEF HeldAs, Grant
      <4> QED
        BY <3>3, <4>1 DEF Uncut
    <3>5. CASE ~InConnection(g, u, c)
      <4>1. Uncut(g)
        BY <3>1, <3>2 DEF CutInv, HeldAs
      <4>2. Uncut(g)'
        BY <1>10, <3>5, <4>1, OtherConnections
      <4>3. r = g
        BY <3>1, <3>2, <3>3, <3>5 DEF HeldAs, Grant
      <4> QED
        BY <3>3, <4>2, <4>3 DEF Uncut, Connection
    <3> QED
      BY <3>4, <3>5
  <2> QED
    BY <2>1, <2>2, <2>3 DEF CutInv
<1> QED
  BY <1>2, <1>3, <1>4, <1>5, <1>6, <1>7, <1>8, <1>9, <1>10, AddsOrNot DEF Adds

\* A connection that was revoked stays cut: what gives access to it comes from
\* a code stored later, or was in the hands of a token request at that moment.
THEOREM RevokedConnectionEnds == Spec => []RevokedConnectionStaysCut
<1>1. Init => TypeOK /\ CutInv
  BY InitTyping DEF Init, CutInv, Idle
<1>2. (TypeOK /\ CutInv) /\ [Next]_vars => (TypeOK /\ CutInv)'
  BY TypingStep, CutStep
<1>3. TypeOK /\ CutInv => RevokedConnectionStaysCut
  <2> SUFFICES ASSUME TypeOK, CutInv, NEW p \in Issued, HasAccess(p)
               PROVE  Uncut(pairs[p].grant)
    BY DEF RevokedConnectionStaysCut, Uncut
  <2>1. PICK t \in live : t = <<"access", p>>
    BY DEF HasAccess
  <2>2. t[2] = p
    BY <2>1
  <2> QED
    BY <2>2 DEF CutInv
<1> QED
  BY <1>1, <1>2, <1>3, PTL DEF Spec

-----------------------------------------------------------------------------
(* One consent, one place.                                                   *)
LEMMA PlaceStep ==
  ASSUME TypeOK, PlaceInv, [Next]_vars
  PROVE  PlaceInv'
<1> USE DEF PlaceInv, CodesKnowThemselves, InOnePlace, InOneRequest, ConsentGivesOnce
<1>1. ASSUME AddsNothing
      PROVE  PlaceInv'
  BY <1>1 DEF AddsNothing, Holds, Taken, Issued
<1>2. ASSUME NEW k \in Codes, NEW c \in Clients, Authorize(k, c)
      PROVE  PlaceInv'
  <2>1. \A h \in Handlers : handler[h].step \in Taken => handler[h].grant.code # k
    BY <1>2 DEF Authorize, Fresh, Taken
  <2> QED
    BY <1>2, <2>1 DEF Authorize, Fresh, TypeOK, Issued
<1>3. ASSUME NEW h \in Handlers, NEW k \in Codes, NEW u \in Users, Consent(h, k, u)
      PROVE  PlaceInv'
  <2>1. /\ handler'[h].step = "consume"
        /\ \A i \in Handlers \ {h} : handler'[i] = handler[i]
    BY <1>3, Goes DEF Consent
  <2> QED
    BY <1>3, <2>1 DEF Consent, stores, Taken, Issued
<1>4. ASSUME NEW h \in Handlers, ConsumePending(h)
      PROVE  PlaceInv'
  <2>1. CASE Return(h)
    <3>1. \A k \in Codes : pending'[k] # None => pending'[k] = pending[k]
      BY <1>4, HandlerHas DEF ConsumePending, TypeOK, Holds, Grant
    <3> QED
      BY <1>4, <2>1, <3>1, Ends DEF ConsumePending, Taken, Issued
  <2>2. CASE pending[handler[h].grant.code] # None
    <3>1. PICK k \in Codes : k = handler[h].grant.code
      BY <1>4, HandlerHas DEF ConsumePending, Holds, Grant
    <3>2. pending' = [pending EXCEPT ![k] = None]
      BY <1>4, <2>2, <3>1 DEF ConsumePending
    <3>3. [handler[h] EXCEPT !.step = "store"] = [step |-> "store", grant |-> handler[h].grant]
      BY <1>4, NextStep DEF ConsumePending, Holds
    <3>4. /\ handler'[h].grant.code = k
          /\ \A i \in Handlers \ {h} : handler'[i] = handler[i]
      BY <1>4, <2>2, <3>1, <3>3, Goes DEF ConsumePending
    <3>5. /\ pending'[k] = None /\ pending[k] # None
          /\ \A j \in Codes \ {k} : pending'[j] = pending[j]
      BY <2>2, <3>1, <3>2 DEF TypeOK
    <3>6. UNCHANGED <<codes, pairs>>
      BY <1>4 DEF ConsumePending
    <3> QED
      BY <3>4, <3>5, <3>6 DEF Issued
  <2> QED
    BY <1>4, <2>1, <2>2 DEF ConsumePending
<1>5. ASSUME NEW h \in Handlers, CreateCode(h)
      PROVE  PlaceInv'
  <2>1. PICK g \in Grant : g = handler[h].grant
    BY <1>5, HandlerHas DEF CreateCode, Holds
  <2>2. PICK r \in Grant \cup {[g EXCEPT !.cut = cuts[Connection(g)]]} :
          r = [g EXCEPT !.cut = cuts[Connection(g)]]
    OBVIOUS
  <2>3. r.code = g.code /\ g.code \in Codes
    BY <2>1, <2>2 DEF Grant
  <2>4. codes' = [codes EXCEPT ![g.code] = r] /\ UNCHANGED <<pending, pairs>>
    BY <1>5, <2>1, <2>2 DEF CreateCode
  <2>5. codes'[g.code] = r /\ \A k \in Codes \ {g.code} : codes'[k] = codes[k]
    BY <2>3, <2>4 DEF TypeOK
  <2>6. handler[h].step \in Taken /\ handler'[h].step \notin Taken
    BY <1>5, Ends DEF CreateCode, Taken
  <2>7. \A i \in Handlers \ {h} : handler'[i] = handler[i]
    BY <1>5, Ends DEF CreateCode
  <2> QED
    BY <2>1, <2>3, <2>4, <2>5, <2>6, <2>7 DEF Issued
<1>6. ASSUME NEW h \in Handlers, NEW k \in Codes, ExchangeCode(h, k)
      PROVE  PlaceInv'
  <2>1. /\ handler'[h].grant.code = k
        /\ \A i \in Handlers \ {h} : handler'[i] = handler[i]
    BY <1>6, Goes DEF ExchangeCode
  <2>2. /\ codes'[k] = None /\ codes[k] # None
        /\ \A j \in Codes \ {k} : codes'[j] = codes[j]
    BY <1>6 DEF ExchangeCode, TypeOK
  <2> QED
    BY <1>6, <2>1, <2>2 DEF ExchangeCode, Issued
<1>7. ASSUME NEW h \in Handlers, NEW q \in Pairs, IssueTokens(h, q)
      PROVE  PlaceInv'
  <2>1. PICK g \in Grant : g = handler[h].grant
    BY <1>7, HandlerHas DEF IssueTokens, Holds
  <2>2. /\ Issued' = Issued \cup {q} /\ q \notin Issued
        /\ pairs'[q].grant = g
        /\ \A p \in Issued : pairs'[p] = pairs[p]
    BY <1>7, <2>1, NewPair DEF IssueTokens, Pair
  <2>3. /\ handler[h].step \in Taken /\ handler'[h].step \notin Taken
        /\ \A i \in Handlers \ {h} : handler'[i] = handler[i]
    BY <1>7, Ends DEF IssueTokens, Taken
  <2>4. UNCHANGED <<codes, pending>>
    BY <1>7 DEF IssueTokens
  <2> QED
    BY <2>1, <2>2, <2>3, <2>4
<1>8. ASSUME NEW x \in Keys, NEW q \in Pairs, Rotate(x, q)
      PROVE  PlaceInv'
  <2>1. x[1] \in Issued
    BY <1>8, LiveIsIssued DEF Rotate
  <2>2. [grant |-> pairs[x[1]].grant, from |-> x[1]] \in Pair
    BY <2>1, PairHas DEF Pair, Issued
  <2>3. /\ Issued' = Issued \cup {q} /\ q \notin Issued
        /\ pairs'[q].grant = pairs[x[1]].grant /\ pairs'[q].from # None
        /\ \A p \in Issued : pairs'[p] = pairs[p]
    <3>1. pairs' = [pairs EXCEPT ![q] = [grant |-> pairs[x[1]].grant, from |-> x[1]]]
      BY <1>8 DEF Rotate, Rotated
    <3>2. x[1] # None
      BY <2>1, NoneAssumption DEF Issued
    <3>3. pairs[q] = None
      BY <1>8 DEF Rotate
    <3> QED
      BY <2>2, <3>1, <3>2, <3>3, NewPair
  <2>4. UNCHANGED <<codes, pending, handler>>
    BY <1>8 DEF Rotate, Rotated
  <2> QED
    BY <2>1, <2>3, <2>4
<1>9. ASSUME NEW u \in Users, NEW c \in Clients, RevokeConnection(u, c)
      PROVE  PlaceInv'
  <2>1. ASSUME NEW h \in Handlers, handler'[h].step \in Taken
        PROVE  /\ handler[h].step \in Taken
               /\ handler'[h].grant.code = handler[h].grant.code
    <3>1. handler[h].step \in Taken /\ handler' = Holding(u, c)
      BY <1>9, <2>1, HeldBy DEF RevokeConnection
    <3>2. PICK g \in Grant, b \in BOOLEAN : HeldAs(h, g, b, u, c)
      BY <3>1, HeldBy DEF Holds, Taken
    <3> QED
      BY <3>1, <3>2 DEF HeldAs, Grant
  <2>2. \A k \in Codes : codes'[k] # None => codes'[k] = codes[k]
    BY <1>9 DEF RevokeConnection
  <2>3. UNCHANGED <<pending, pairs>>
    BY <1>9 DEF RevokeConnection
  <2> QED
    BY <2>1, <2>2, <2>3 DEF Issued
<1> QED
  BY <1>1, <1>2, <1>3, <1>4, <1>5, <1>6, <1>7, <1>8, <1>9, AddsOrNot DEF Adds

\* One consent gives tokens once, however often its form or its code is sent.
THEOREM ConsentIsUsedOnce == Spec => []ConsentGivesOnce
<1>1. Init => TypeOK /\ PlaceInv
  BY InitTyping DEF Init, PlaceInv, CodesKnowThemselves, InOnePlace, InOneRequest,
     ConsentGivesOnce, Idle, Taken, Issued
<1>2. (TypeOK /\ PlaceInv) /\ [Next]_vars => (TypeOK /\ PlaceInv)'
  BY TypingStep, PlaceStep
<1>3. PlaceInv => ConsentGivesOnce
  BY DEF PlaceInv
<1> QED
  BY <1>1, <1>2, <1>3, PTL DEF Spec

-----------------------------------------------------------------------------
(* A pair has one successor.                                                 *)
LEMMA TokensDiffer ==
  ASSUME NEW p, NEW q
  PROVE  /\ <<"refresh", p>> # <<"access", q>>
         /\ <<"refresh", p>> = <<"refresh", q>> => p = q
<1>1. \A x, y, v, w : <<x, y>> = <<v, w>> => x = v /\ y = w
  OBVIOUS
<1>2. "refresh" # "access"
  OBVIOUS
<1> QED
  BY <1>1, <1>2

LEMMA ChainStep ==
  ASSUME TypeOK, PlaceInv, ChainInv, [Next]_vars
  PROVE  ChainInv'
<1> USE DEF ChainInv, Succession, RotationIsAChain
<1>1. ASSUME UNCHANGED pairs, live' \subseteq live
      PROVE  ChainInv'
  BY <1>1 DEF Issued
<1>2. ASSUME NEW h \in Handlers, NEW q \in Pairs, IssueTokens(h, q)
      PROVE  ChainInv'
  <2>1. PICK g \in Grant : g = handler[h].grant
    BY <1>2, HandlerHas DEF IssueTokens, Holds
  <2>2. /\ Issued' = Issued \cup {q} /\ q \notin Issued
        /\ pairs'[q].grant = g /\ pairs'[q].from = None
        /\ \A p \in Issued : pairs'[p] = pairs[p]
    BY <1>2, <2>1, NewPair DEF IssueTokens, Pair
  <2>3. \A p \in Issued : pairs[p].grant.code # g.code
    BY <1>2, <2>1 DEF IssueTokens, Taken, PlaceInv, InOneRequest
  <2>4. \A p \in Pairs : <<"refresh", p>> \in live' => <<"refresh", p>> \in live \/ p = q
    BY <1>2, TokensDiffer DEF IssueTokens
  <2> QED
    <3>1. \A p \in Issued : <<"refresh", p>> \in live' => <<"refresh", p>> \in live
      BY <2>2, <2>4 DEF Issued
    <3>2. Succession'
      BY <2>2, <3>1
    <3>3. RotationIsAChain'
      BY <2>2, <2>3, <3>1
    <3> QED
      BY <3>2, <3>3
<1>3. ASSUME NEW x \in Keys, NEW q \in Pairs, Rotate(x, q)
      PROVE  ChainInv'
  <2>1. PICK o \in Issued : o = x[1] /\ <<"refresh", o>> \in live
    BY <1>3, LiveIsIssued DEF Rotate
  <2>2. [grant |-> pairs[o].grant, from |-> o] \in Pair
    BY <2>1, PairHas DEF Pair, Issued
  <2>3. /\ Issued' = Issued \cup {q} /\ q \notin Issued
        /\ pairs'[q].grant = pairs[o].grant /\ pairs'[q].from = o
        /\ \A p \in Issued : pairs'[p] = pairs[p]
    BY <1>3, <2>1, <2>2, NewPair DEF Rotate, Rotated
  <2>4. \A p \in Pairs : <<"refresh", p>> \in live' =>
          p # o /\ (<<"refresh", p>> \in live \/ p = q)
    <3>1. live' = (live \ {<<"refresh", o>>}) \cup {<<"access", q>>, <<"refresh", q>>}
      BY <1>3, <2>1 DEF Rotate
    <3>2. o # q
      BY <2>3
    <3> QED
      BY <3>1, <3>2, TokensDiffer
  <2>5. o # q /\ o # None
    BY <2>1, <2>3, NoneAssumption DEF Issued
  <2>6. Succession'
    BY <2>1, <2>3, <2>4, <2>5 DEF Issued
  <2>7. RotationIsAChain'
    BY <2>1, <2>3, <2>4, <2>5 DEF Issued
  <2> QED
    BY <2>6, <2>7
<1>4. \/ UNCHANGED pairs /\ live' \subseteq live
      \/ \E h \in Handlers, q \in Pairs : IssueTokens(h, q)
      \/ \E x \in Keys, q \in Pairs : Rotate(x, q)
  BY AddsOrNot DEF AddsNothing, Adds, Authorize, Consent, ConsumePending, CreateCode,
     ExchangeCode, RevokeConnection, Delete, stores
<1> QED
  BY <1>1, <1>2, <1>3, <1>4

\* Rotation is a chain: one successor at most, and one pair at most that can
\* still be refreshed, of all that descend from a consent.
THEOREM RotationChains == Spec => []RotationIsAChain
<1>1. Init => TypeOK /\ PlaceInv /\ ChainInv
  BY InitTyping DEF Init, PlaceInv, CodesKnowThemselves, InOnePlace, InOneRequest,
     ConsentGivesOnce, ChainInv, Succession, RotationIsAChain, Idle, Taken, Issued
<1>2. (TypeOK /\ PlaceInv /\ ChainInv) /\ [Next]_vars => (TypeOK /\ PlaceInv /\ ChainInv)'
  BY TypingStep, PlaceStep, ChainStep
<1>3. ChainInv => RotationIsAChain
  BY DEF ChainInv
<1> QED
  BY <1>1, <1>2, <1>3, PTL DEF Spec
-----------------------------------------------------------------------------
(* The refinement.  A consent counts while its code is stored or a request   *)
(* that consumed it holds it.                                                *)
Open(g) ==
  \/ \E k \in Codes : codes[k] # None /\ g = codes[k]
  \/ \E h \in Handlers : handler[h].step \in Taken /\ g = handler[h].grant

LEMMA OpenIsGrant ==
  ASSUME TypeOK, NEW g, Open(g)
  PROVE  g \in Grant /\ Kept(g)
BY HandlerHas DEF Open, Kept, TypeOK, Taken, Holds

LEMMA ConsentsAre ==
  ASSUME TypeOK
  PROVE  \A r : r \in Consents <=> \E g \in Grant : Open(g) /\ InForce(g) /\ r = RightOf(g)
<1>1. ASSUME NEW r, r \in Consents
      PROVE  \E g \in Grant : Open(g) /\ InForce(g) /\ r = RightOf(g)
  BY <1>1, OpenIsGrant DEF Consents, Open, Taken
<1>2. ASSUME NEW r, NEW g \in Grant, Open(g), InForce(g), r = RightOf(g)
      PROVE  r \in Consents
  BY <1>2 DEF Consents, Open, Taken
<1> QED
  BY <1>1, <1>2

LEMMA RightsAre ==
  ASSUME TypeOK
  PROVE  \A x : x \in Rights <=>
           \E t \in live : InForce(pairs[t[2]].grant) /\ x = <<t, RightOf(pairs[t[2]].grant)>>
BY DEF Rights

LEMMA MappedAre ==
  TypeOK => /\ \A r : r \in Consents <=>
                 \E g \in Grant : Open(g) /\ InForce(g) /\ r = RightOf(g)
            /\ \A x : x \in Rights <=>
                 \E t \in live : \E g : /\ g = pairs[t[2]].grant /\ InForce(g)
                                     /\ x = <<t, RightOf(g)>>
BY ConsentsAre, RightsAre

\* The same of the state that a step leads to.
LEMMA NextAre ==
  ASSUME TypeOK'
  PROVE  /\ \A r : r \in Consents' <=>
              \E g \in Grant : Open(g)' /\ InForce(g)' /\ r = RightOf(g)
         /\ \A x : x \in Rights' <=>
              \E t \in live' : \E g : /\ g = pairs'[t[2]].grant /\ InForce(g)'
                                   /\ x = <<t, RightOf(g)>>
<1>1. (TypeOK => /\ \A r : r \in Consents <=>
                      \E g \in Grant : Open(g) /\ InForce(g) /\ r = RightOf(g)
                 /\ \A x : x \in Rights <=>
                      \E t \in live : \E g : /\ g = pairs[t[2]].grant /\ InForce(g)
                                          /\ x = <<t, RightOf(g)>>)'
  BY MappedAre, PTL
<1> QED
  BY <1>1

LEMMA SpentIs == \A k : k \in Spent <=> \E p \in Issued : k = pairs[p].grant.code
BY DEF Spent

\* The grants of a code's consent are one.
LEMMA OpenIsOne ==
  ASSUME TypeOK, PlaceInv, NEW f, NEW g, Open(f), Open(g), f.code = g.code
  PROVE  f = g
BY DEF Open, PlaceInv, CodesKnowThemselves, InOnePlace, InOneRequest

LEMMA OpenIsUnused ==
  ASSUME TypeOK, PlaceInv, NEW g, Open(g)
  PROVE  g.code \notin Spent /\ g.code \in Codes /\ pending[g.code] = None
<1>1. g.code \in Codes
  BY OpenIsGrant DEF Grant
<1> QED
  BY <1>1, SpentIs DEF Open, PlaceInv, CodesKnowThemselves, InOnePlace, InOneRequest

\* What is in force depends on the account and the clients alone.
LEMMA ForceFades ==
  ASSUME account' = account, clients' \subseteq clients, NEW g
  PROVE  InForce(g)' => InForce(g)
BY DEF InForce, Valid

LEMMA ForceStays ==
  ASSUME account' = account, clients' = clients, NEW g
  PROVE  InForce(g)' <=> InForce(g)
BY DEF InForce, Valid

LEMMA SameForce ==
  ASSUME NEW f, NEW g, SameConsent(f, g)
  PROVE  (InForce(f) <=> InForce(g)) /\ RightOf(f) = RightOf(g)
BY DEF SameConsent, InForce, Valid, RightOf

\* A step that adds no consent and no token in force lets rights lapse.
LEMMA Subsides ==
  ASSUME TypeOK, TypeOK', UNCHANGED <<account, cuts>>, clients' \subseteq clients,
         \A p \in Issued : p \in Issued' /\ pairs'[p] = pairs[p],
         \A t \in live' : t \in live \/ ~InForce(pairs'[t[2]].grant),
         \A g \in Grant : Open(g)' /\ InForce(g) =>
           \E f \in Grant : Open(f) /\ SameConsent(f, g)
  PROVE  Promise!Lapse
<1>1. Consents' \subseteq Consents
  <2> SUFFICES ASSUME NEW r \in Consents'
               PROVE  r \in Consents
    OBVIOUS
  <2>1. PICK g \in Grant : Open(g)' /\ InForce(g)' /\ r = RightOf(g)
    BY NextAre
  <2>2. InForce(g)
    BY <2>1, ForceFades
  <2>3. PICK f \in Grant : Open(f) /\ SameConsent(f, g)
    BY <2>1, <2>2
  <2> QED
    BY <2>1, <2>2, <2>3, SameForce, ConsentsAre
<1>2. Rights' \subseteq Rights
  <2> SUFFICES ASSUME NEW x \in Rights'
               PROVE  x \in Rights
    OBVIOUS
  <2>1. PICK t \in live' : \E g : /\ g = pairs'[t[2]].grant /\ InForce(g)'
                                 /\ x = <<t, RightOf(g)>>
    BY NextAre
  <2>2. PICK g : g = pairs'[t[2]].grant /\ InForce(g)' /\ x = <<t, RightOf(g)>>
    BY <2>1
  <2>3. InForce(g)
    BY <2>2, ForceFades
  <2>4. t \in live /\ g = pairs[t[2]].grant
    BY <2>2, <2>3, LiveIsIssued
  <2> QED
    BY <2>2, <2>3, <2>4, RightsAre
<1>3. Spent \subseteq Spent'
  <2> SUFFICES ASSUME NEW k \in Spent
               PROVE  k \in Spent'
    OBVIOUS
  <2>1. PICK p \in Issued : k = pairs[p].grant.code
    BY SpentIs
  <2> QED
    BY <2>1 DEF Spent
<1> QED
  BY <1>1, <1>2, <1>3 DEF Promise!Lapse

LEMMA MostSubside ==
  ASSUME TypeOK, TypeOK', UNCHANGED account, clients' \subseteq clients, AddsNothing
  PROVE  Promise!Lapse
<1>1. \A g \in Grant : Open(g)' => Open(g) /\ SameConsent(g, g)
  BY DEF AddsNothing, Open, Holds, Taken, SameConsent
<1>2. \A p \in Issued : p \in Issued' /\ pairs'[p] = pairs[p]
  BY DEF AddsNothing, Issued
<1> QED
  BY <1>1, <1>2, Subsides DEF AddsNothing

\* A consent is given when its transaction is consumed.
LEMMA ConsumePromise ==
  ASSUME TypeOK, TypeOK', PlaceInv, NEW h \in Handlers, ConsumePending(h)
  PROVE  Promise!Next
<1>1. PICK g \in Grant : g = handler[h].grant
  BY HandlerHas DEF ConsumePending, Holds
<1>2. UNCHANGED <<account, clients, codes, pairs, live, cuts>>
  BY DEF ConsumePending
<1>3. CASE pending[g.code] = None
  <2>1. \A f \in Grant : Open(f)' => Open(f) /\ SameConsent(f, f)
    BY <1>1, <1>2, <1>3, Ends DEF ConsumePending, Open, Holds, Taken, SameConsent
  <2>2. Promise!Lapse
    BY <1>2, <2>1, Subsides DEF Issued
  <2> QED
    BY <2>2 DEF Promise!Next
<1>4. CASE pending[g.code] # None
  <2>1. [handler[h] EXCEPT !.step = "store"] = [step |-> "store", grant |-> g]
    BY <1>1, NextStep DEF ConsumePending, Holds
  <2>2. /\ handler'[h] = [step |-> "store", grant |-> g]
        /\ \A i \in Handlers \ {h} : handler'[i] = handler[i]
    BY <1>1, <1>4, <2>1, Goes DEF ConsumePending
  <2>3. handler'[h].step = "store" /\ handler'[h].grant = g /\ handler[h].step = "consume"
    BY <2>2 DEF ConsumePending
  <2>4. \A f : Open(f)' <=> Open(f) \/ f = g
    BY <1>2, <2>2, <2>3 DEF Open, Taken
  <2>5. CASE ~InForce(g)
    <3>1. \A f \in Grant : Open(f)' /\ InForce(f) => Open(f) /\ SameConsent(f, f)
      BY <2>4, <2>5 DEF SameConsent
    <3>2. Promise!Lapse
      BY <1>2, <3>1, Subsides DEF Issued
    <3> QED
      BY <3>2 DEF Promise!Next
  <2>6. CASE InForce(g)
    <3>1. account[g.user].active /\ RightOf(g) \in Promise!Right
      BY <2>6 DEF InForce, Valid, RightOf, Promise!Right, Grant
    <3>2. g.code \notin Spent
      <4>1. g.code \in Codes
        BY DEF Grant
      <4> QED
        BY <1>4, <4>1, SpentIs DEF PlaceInv, InOnePlace
    <3>3. \A s \in Consents : s.code # g.code
      <4> SUFFICES ASSUME NEW s \in Consents
                   PROVE  s.code # g.code
        OBVIOUS
      <4>1. PICK f \in Grant : Open(f) /\ s = RightOf(f)
        BY ConsentsAre
      <4> QED
        BY <1>4, <4>1, OpenIsUnused DEF RightOf
    <3>4. Consents' = Consents \cup {RightOf(g)}
      <4>1. \A r : r \in Consents' <=>
                \E f \in Grant : (Open(f) \/ f = g) /\ InForce(f) /\ r = RightOf(f)
        BY <1>2, <2>4, NextAre, ForceStays
      <4> QED
        BY <2>6, <4>1, ConsentsAre
    <3>5. Spent' = Spent /\ Rights' = Rights
      BY <1>2 DEF Spent, Rights, Issued, InForce, Valid, RightOf
    <3>6. RightOf(g).user = g.user /\ RightOf(g).code = g.code
      BY DEF RightOf
    <3>7. Promise!Consent(RightOf(g))
      BY <1>2, <3>1, <3>2, <3>3, <3>4, <3>5, <3>6 DEF Promise!Consent
    <3> QED
      BY <3>1, <3>7 DEF Promise!Next
  <2> QED
    BY <2>5, <2>6
<1> QED
  BY <1>3, <1>4

\* From the request to the store, and back into the hands of a request: the
\* same consent.
LEMMA CreateLapses ==
  ASSUME TypeOK, TypeOK', NEW h \in Handlers, CreateCode(h)
  PROVE  Promise!Lapse
<1>1. PICK f \in Grant : f = handler[h].grant
  BY HandlerHas DEF CreateCode, Holds
<1>2. PICK n : n = cuts[Connection(f)]
  OBVIOUS
<1>3. PICK r : r = [f EXCEPT !.cut = n]
  OBVIOUS
<1>4. codes' = [codes EXCEPT ![f.code] = r]
  BY <1>1, <1>2, <1>3 DEF CreateCode
<1>5. \A k \in Codes : codes'[k] = codes[k] \/ codes'[k] = r
  BY <1>4 DEF TypeOK
<1>6. Open(f) /\ SameConsent(f, r)
  BY <1>1, <1>3 DEF CreateCode, Open, Taken, SameConsent, Grant
<1>7. \A g \in Grant : Open(g)' => (Open(g) /\ SameConsent(g, g)) \/ g = r
  BY <1>5, Ends DEF CreateCode, Open, Holds, Taken, SameConsent
<1>8. UNCHANGED <<account, clients, pairs, live, cuts>>
  BY DEF CreateCode
<1> QED
  BY <1>6, <1>7, <1>8, Subsides DEF Issued

LEMMA ExchangeLapses ==
  ASSUME TypeOK, TypeOK', NEW h \in Handlers, NEW k \in Codes, ExchangeCode(h, k)
  PROVE  Promise!Lapse
<1>1. /\ handler'[h].grant = codes[k] /\ codes[k] # None
      /\ \A i \in Handlers \ {h} : handler'[i] = handler[i]
  BY Goes DEF ExchangeCode
<1>2. \A i \in Codes : codes'[i] # None => codes'[i] = codes[i]
  BY DEF ExchangeCode, TypeOK
<1>3. \A g \in Grant : Open(g)' => Open(g) /\ SameConsent(g, g)
  BY <1>1, <1>2 DEF Open, SameConsent
<1>4. UNCHANGED <<account, clients, pairs, live, cuts>>
  BY DEF ExchangeCode
<1> QED
  BY <1>3, <1>4, Subsides DEF Issued

\* Tokens are issued for a consent in force, or nothing comes of them.
LEMMA IssuePromise ==
  ASSUME TypeOK, TypeOK', PlaceInv, NEW h \in Handlers, NEW p \in Pairs, IssueTokens(h, p)
  PROVE  Promise!Next
<1>1. PICK g \in Grant : g = handler[h].grant
  BY HandlerHas DEF IssueTokens, Holds
<1>2. /\ pairs' = [pairs EXCEPT ![p] = [grant |-> g, from |-> None]]
      /\ live' = live \cup {<<"access", p>>, <<"refresh", p>>}
      /\ UNCHANGED <<account, clients, codes, cuts>>
      /\ handler[h].step = "issue" /\ pairs[p] = None
  BY <1>1 DEF IssueTokens
<1>3. /\ Issued' = Issued \cup {p} /\ p \notin Issued /\ pairs'[p].grant = g
      /\ \A q \in Issued : pairs'[q] = pairs[q]
  <2>1. [grant |-> g, from |-> None] \in Pair
    BY DEF Pair
  <2> QED
    BY <1>2, <2>1, NewPair
<1>4. Open(g)
  BY <1>1, <1>2 DEF Open, Taken
<1>5. \A f \in Grant : Open(f)' <=> Open(f) /\ f # g
  <2>1. \A f \in Grant : Open(f)' => Open(f)
    BY <1>2, Ends DEF IssueTokens, Open, Holds, Taken
  <2>2. ~Open(g)'
    <3>1. g.code \in Codes /\ \A k \in Codes : codes[k] # None => codes[k] # g
      BY <1>1, <1>2 DEF PlaceInv, CodesKnowThemselves, InOnePlace, Taken, Grant
    <3>2. \A i \in Handlers \ {h} : handler[i].step \in Taken => handler[i].grant # g
      BY <1>1, <1>2 DEF PlaceInv, InOneRequest, Taken
    <3> QED
      BY <1>2, <3>1, <3>2, Ends DEF IssueTokens, Open, Holds, Taken
  <2>3. \A f \in Grant : Open(f) /\ f # g => Open(f)'
    BY <1>1, <1>2, Ends DEF IssueTokens, Open
  <2> QED
    BY <2>1, <2>2, <2>3
<1>6. CASE ~InForce(g)
  <2>1. \A t \in live' : t \in live \/ ~InForce(pairs'[t[2]].grant)
    BY <1>2, <1>3, <1>6
  <2>2. \A f \in Grant : Open(f)' => Open(f) /\ SameConsent(f, f)
    BY <1>5 DEF SameConsent
  <2>3. Promise!Lapse
    BY <1>2, <1>3, <2>1, <2>2, Subsides
  <2> QED
    BY <2>3 DEF Promise!Next
<1>7. CASE InForce(g)
  <2> DEFINE r == RightOf(g)
  <2>1. r \in Promise!Right /\ r.code = g.code
    BY DEF RightOf, Promise!Right, Grant
  <2>2. r \in Consents /\ r.code \notin Spent
    BY <1>4, <1>7, <2>1, ConsentsAre, OpenIsUnused
  <2>3. Promise!Unused(p)
    <3> SUFFICES ASSUME NEW x \in Rights
                 PROVE  x[1][2] # p
      BY DEF Promise!Unused
    <3>1. PICK t \in live : x = <<t, RightOf(pairs[t[2]].grant)>>
      BY RightsAre
    <3> QED
      BY <1>3, <3>1, LiveIsIssued
  <2>4. Consents' = Consents \ {r}
    <3>1. \A s : s \in Consents' <=>
            \E f \in Grant : Open(f) /\ f # g /\ InForce(f) /\ s = RightOf(f)
      BY <1>2, <1>5, NextAre, ForceStays
    <3>2. \A f \in Grant : Open(f) /\ RightOf(f) = r => f = g
      BY <1>4, OpenIsOne DEF RightOf
    <3> QED
      BY <3>1, <3>2, ConsentsAre
  <2>5. Spent' = Spent \cup {r.code}
    BY <1>3, <2>1 DEF Spent
  <2>6. Rights' = Rights \cup Promise!Gives(p, r)
    <3>1. ASSUME NEW x
          PROVE  x \in Rights' <=> \/ \E t \in live : InForce(pairs[t[2]].grant)
                                                     /\ x = <<t, RightOf(pairs[t[2]].grant)>>
                                   \/ \E t \in {<<"access", p>>, <<"refresh", p>>} : x = <<t, r>>
      <4>1. \A t \in live : pairs'[t[2]] = pairs[t[2]]
        BY <1>3, LiveIsIssued
      <4>2. \A t \in {<<"access", p>>, <<"refresh", p>>} : pairs'[t[2]].grant = g
        BY <1>3
      <4>3. x \in Rights' <=> \E t \in live' : /\ InForce(pairs'[t[2]].grant)
                                               /\ x = <<t, RightOf(pairs'[t[2]].grant)>>
        BY <1>2, NextAre, ForceStays
      <4>4. live' = live \cup {<<"access", p>>, <<"refresh", p>>}
        BY <1>2
      <4> QED
        BY <1>7, <4>1, <4>2, <4>3, <4>4
    <3> QED
      BY <3>1, RightsAre DEF Promise!Gives, Promise!Access, Promise!Refresh
  <2>7. Promise!Use(r, p)
    BY <1>2, <2>2, <2>3, <2>4, <2>5, <2>6 DEF Promise!Use
  <2> QED
    BY <2>1, <2>7 DEF Promise!Next
<1> QED
  BY <1>6, <1>7

\* A rotation renews what is in force, and hands nothing on of what is not.
LEMMA RotatePromise ==
  ASSUME TypeOK, TypeOK', NEW x \in Keys, NEW q \in Pairs, Rotate(x, q)
  PROVE  Promise!Next
<1>1. PICK o \in Issued : o = x[1] /\ <<"refresh", o>> \in live
  BY LiveIsIssued DEF Rotate
<1>2. PICK g \in Grant : g = pairs[o].grant
  BY PairHas
<1>3. /\ pairs' = [pairs EXCEPT ![q] = [grant |-> g, from |-> o]]
      /\ live' = (live \ {<<"refresh", o>>}) \cup {<<"access", q>>, <<"refresh", q>>}
      /\ UNCHANGED <<account, clients, codes, handler, cuts>>
  BY <1>1, <1>2 DEF Rotate, Rotated
<1>4. [grant |-> g, from |-> o] \in Pair
  BY DEF Pair, Issued
<1>5. /\ Issued' = Issued \cup {q} /\ q \notin Issued /\ pairs'[q].grant = g
      /\ \A p \in Issued : pairs'[p] = pairs[p]
  BY <1>3, <1>4, NewPair DEF Rotate
<1>6. \A f : Open(f)' <=> Open(f)
  BY <1>3 DEF Open
<1>7. CASE ~InForce(g)
  <2>1. \A t \in live' : t \in live \/ ~InForce(pairs'[t[2]].grant)
    BY <1>3, <1>5, <1>7
  <2>2. \A f \in Grant : Open(f)' => Open(f) /\ SameConsent(f, f)
    BY <1>6 DEF SameConsent
  <2>3. Promise!Lapse
    BY <1>3, <1>5, <2>1, <2>2, Subsides
  <2> QED
    BY <2>3 DEF Promise!Next
<1>8. CASE InForce(g)
  <2> DEFINE r == RightOf(g)
  <2>1. r \in Promise!Right
    BY DEF RightOf, Promise!Right, Grant
  <2>2. <<<<"refresh", o>>, r>> \in Rights
    <3>1. PICK t \in live : t = <<"refresh", o>>
      BY <1>1
    <3> QED
      BY <1>2, <1>8, <3>1, RightsAre
  <2>3. Promise!Unused(q)
    <3> SUFFICES ASSUME NEW y \in Rights
                 PROVE  y[1][2] # q
      BY DEF Promise!Unused
    <3>1. PICK t \in live : y = <<t, RightOf(pairs[t[2]].grant)>>
      BY RightsAre
    <3> QED
      BY <1>5, <3>1, LiveIsIssued
  <2>4. Consents' = Consents
    <3>1. \A s : s \in Consents' <=> s \in Consents
      BY <1>3, <1>6, NextAre, ConsentsAre, ForceStays
    <3> QED
      BY <3>1 DEF Consents
  <2>5. Spent' = Spent
    <3>1. \A k : k \in Spent' <=> k \in Spent
      BY <1>2, <1>5 DEF Spent
    <3> QED
      BY <3>1 DEF Spent
  <2>6. Rights' = (Rights \ {<<<<"refresh", o>>, r>>}) \cup Promise!Gives(q, r)
    <3>1. ASSUME NEW y
          PROVE  y \in Rights' <=>
                   \/ \E t \in live : /\ t # <<"refresh", o>> /\ InForce(pairs[t[2]].grant)
                                      /\ y = <<t, RightOf(pairs[t[2]].grant)>>
                   \/ \E t \in {<<"access", q>>, <<"refresh", q>>} : y = <<t, r>>
      <4>1. \A t \in live : pairs'[t[2]] = pairs[t[2]]
        BY <1>5, LiveIsIssued
      <4>2. \A t \in {<<"access", q>>, <<"refresh", q>>} : pairs'[t[2]].grant = g
        BY <1>5
      <4>3. y \in Rights' <=> \E t \in live' : /\ InForce(pairs'[t[2]].grant)
                                               /\ y = <<t, RightOf(pairs'[t[2]].grant)>>
        BY <1>3, NextAre, ForceStays
      <4>4. live' = (live \ {<<"refresh", o>>}) \cup {<<"access", q>>, <<"refresh", q>>}
        BY <1>3
      <4> QED
        BY <1>8, <4>1, <4>2, <4>3, <4>4
    <3>2. PICK t0 : t0 = <<"refresh", o>>
      OBVIOUS
    <3>3. t0[2] = o /\ t0 \in live
      BY <1>1, <3>2
    <3>4. \A y : y \in Rights \ {<<t0, r>>} <=>
             \E t \in live : /\ t # t0 /\ InForce(pairs[t[2]].grant)
                             /\ y = <<t, RightOf(pairs[t[2]].grant)>>
      BY <1>2, <3>3, RightsAre
    <3>5. \A y : y \in Promise!Gives(q, r) <=>
             \E t \in {<<"access", q>>, <<"refresh", q>>} : y = <<t, r>>
      BY DEF Promise!Gives, Promise!Access, Promise!Refresh
    <3>6. \A y : y \in Rights' <=> y \in (Rights \ {<<t0, r>>}) \cup Promise!Gives(q, r)
      BY <3>1, <3>2, <3>4, <3>5
    <3> QED
      BY <3>2, <3>6 DEF Rights
  <2>7. Promise!Renew(r, o, q)
    BY <1>3, <2>2, <2>3, <2>4, <2>5, <2>6 DEF Promise!Renew, Promise!Refresh
  <2>8. o \in Pairs
    BY DEF Issued
  <2> QED
    BY <2>1, <2>7, <2>8 DEF Promise!Next
<1> QED
  BY <1>7, <1>8

\* Revoking a connection takes its tokens and codes; requests keep theirs.
LEMMA CutPromise ==
  ASSUME TypeOK, TypeOK', NEW u \in Users, NEW c \in Clients, RevokeConnection(u, c)
  PROVE  Promise!Cut(u, c)
<1> DEFINE others(r) == r.user # u \/ r.client # c
<1>1. /\ UNCHANGED <<account, clients, pairs>> /\ handler' = Holding(u, c)
      /\ cuts' = [cuts EXCEPT ![<<u, c>>] = @ + 1]
  BY DEF RevokeConnection
<1>2. \A g : InConnection(g, u, c) <=> ~others(RightOf(g))
  BY DEF InConnection, RightOf
<1>3. ASSUME NEW g \in Grant, Open(g), others(RightOf(g))
      PROVE  Open(g)'
  <2>1. ~InConnection(g, u, c)
    BY <1>2, <1>3
  <2>2. \A k \in Codes : codes[k] # None /\ g = codes[k] => codes'[k] = codes[k]
    BY <2>1 DEF RevokeConnection
  <2>3. \A h \in Handlers : g = handler[h].grant => handler'[h] = handler[h]
    BY <1>1, <2>1 DEF Holding
  <2> QED
    BY <1>3, <2>2, <2>3 DEF Open
<1>4. ASSUME NEW g \in Grant, Open(g)'
      PROVE  \E f \in Grant : Open(f) /\ SameConsent(f, g)
  <2>1. CASE \E k \in Codes : codes'[k] # None /\ g = codes'[k]
    <3>1. PICK k \in Codes : codes'[k] # None /\ g = codes'[k]
      BY <2>1
    <3>2. g = codes[k] /\ codes[k] # None
      BY <3>1 DEF RevokeConnection
    <3> QED
      BY <3>2 DEF Open, SameConsent
  <2>2. CASE \E h \in Handlers : handler'[h].step \in Taken /\ g = handler'[h].grant
    <3>1. PICK h \in Handlers : handler'[h].step \in Taken /\ g = handler'[h].grant
      BY <2>2
    <3>2. handler[h].step \in Taken
      BY <1>1, <3>1, HeldBy
    <3>3. PICK f \in Grant, b \in BOOLEAN : HeldAs(h, f, b, u, c)
      BY <1>1, <3>2, HeldBy DEF Holds, Taken
    <3>4. Open(f) /\ SameConsent(f, g)
      BY <3>1, <3>2, <3>3 DEF HeldAs, Open, SameConsent, Grant
    <3> QED
      BY <3>4
  <2> QED
    BY <1>4, <2>1, <2>2 DEF Open
<1>5. {r \in Consents : others(r)} \subseteq Consents'
  <2> SUFFICES ASSUME NEW r \in Consents, others(r)
               PROVE  r \in Consents'
    OBVIOUS
  <2>1. PICK g \in Grant : Open(g) /\ InForce(g) /\ r = RightOf(g)
    BY ConsentsAre
  <2>2. Open(g)' /\ InForce(g)'
    BY <1>1, <1>3, <2>1, ForceStays
  <2> QED
    BY <2>1, <2>2, NextAre
<1>6. Consents' \subseteq Consents
  <2> SUFFICES ASSUME NEW r \in Consents'
               PROVE  r \in Consents
    OBVIOUS
  <2>1. PICK g \in Grant : Open(g)' /\ InForce(g) /\ r = RightOf(g)
    BY <1>1, NextAre, ForceStays
  <2>2. PICK f \in Grant : Open(f) /\ SameConsent(f, g)
    BY <1>4, <2>1
  <2> QED
    BY <2>1, <2>2, SameForce, ConsentsAre
<1>7. Rights' = {x \in Rights : others(x[2])}
  <2>1. \A t : t \in live' <=> t \in live /\ ~InConnection(pairs[t[2]].grant, u, c)
    <3>1. live' = live \ Tokens({p \in Issued : InConnection(pairs[p].grant, u, c)})
      BY DEF RevokeConnection, Delete
    <3>2. \A t \in live : t \in Tokens({p \in Issued : InConnection(pairs[p].grant, u, c)})
                            <=> InConnection(pairs[t[2]].grant, u, c)
      BY LiveIsIssued DEF Tokens
    <3> QED
      BY <3>1, <3>2
  <2>2. \A x : x \in Rights' <=>
          \E t \in live : /\ ~InConnection(pairs[t[2]].grant, u, c) /\ InForce(pairs[t[2]].grant)
                          /\ x = <<t, RightOf(pairs[t[2]].grant)>>
    BY <1>1, <2>1, NextAre, ForceStays
  <2>3. \A x : x \in Rights' <=> x \in Rights /\ others(x[2])
    BY <1>2, <2>2, RightsAre
  <2> QED
    BY <2>3 DEF Rights
<1>8. Spent' = Spent
  BY <1>1 DEF Spent, Issued
<1> QED
  BY <1>1, <1>5, <1>6, <1>7, <1>8 DEF Promise!Cut

\* A change of the account takes all that its user consented to.
LEMMA RevokePromise ==
  ASSUME TypeOK, TypeOK', VersionInv, NEW u \in Users, RevokeAccess(u) \/ ChangeStatus(u)
  PROVE  Promise!Revoke(u)
<1>1. UNCHANGED <<clients, codes, pairs, live, handler, cuts>>
  BY DEF RevokeAccess, ChangeStatus
<1>2. PICK a \in [active : BOOLEAN, ver : Nat] : a = account[u]
  BY DEF TypeOK
<1>3. PICK b \in [active : BOOLEAN, ver : Nat] :
        b.ver = a.ver + 1 /\ account' = [account EXCEPT ![u] = b]
  <2>1. CASE RevokeAccess(u)
    <3>1. account' = [account EXCEPT ![u] = [a EXCEPT !.ver = @ + 1]]
      BY <1>2, <2>1 DEF RevokeAccess
    <3>2. PICK b : b = [a EXCEPT !.ver = @ + 1]
      OBVIOUS
    <3>3. b \in [active : BOOLEAN, ver : Nat] /\ b.ver = a.ver + 1
      BY <3>2
    <3> QED
      BY <3>1, <3>2, <3>3
  <2>2. CASE ChangeStatus(u)
    <3>1. account' = [account EXCEPT ![u] = [active |-> ~a.active, ver |-> a.ver + 1]]
      BY <1>2, <2>2 DEF ChangeStatus
    <3>2. PICK b : b = [active |-> ~a.active, ver |-> a.ver + 1]
      OBVIOUS
    <3>3. b \in [active : BOOLEAN, ver : Nat] /\ b.ver = a.ver + 1
      BY <3>2
    <3> QED
      BY <3>1, <3>2, <3>3
  <2> QED
    BY <2>1, <2>2
<1>4. /\ account'[u] = b /\ account'[u] # account[u]
      /\ \A v \in Users \ {u} : account'[v] = account[v]
  BY <1>2, <1>3 DEF TypeOK
<1>5. account' = [account EXCEPT ![u] = account'[u]]
  BY <1>3, <1>4
<1>6. ASSUME NEW g \in Grant, Kept(g)
      PROVE  InForce(g)' <=> InForce(g) /\ g.user # u
  <2>1. g.user \in Users /\ g.ver \in Nat /\ g.consented \in Nat
    BY DEF Grant
  <2>2. CASE g.user = u
    <3>1. g.ver = g.consented + 1 /\ g.consented <= epoch[u] /\ a.ver = epoch[u] + 1
      BY <1>2, <1>6, <2>2 DEF VersionInv, Dated
    <3>2. epoch[u] \in Nat
      BY BoundAssumption DEF TypeOK
    <3>3. g.ver # b.ver
      BY <1>3, <2>1, <3>1, <3>2
    <3> QED
      BY <1>4, <2>2, <3>3 DEF InForce, Valid
  <2>3. CASE g.user # u
    <3>1. account'[g.user] = account[g.user]
      BY <1>4, <2>1, <2>3
    <3> QED
      BY <1>1, <2>3, <3>1 DEF InForce, Valid
  <2> QED
    BY <2>2, <2>3
<1>7. Consents' = {r \in Consents : r.user # u}
  <2>1. \A g : Open(g)' <=> Open(g)
    BY <1>1 DEF Open
  <2>2. \A g : RightOf(g).user = g.user
    BY DEF RightOf
  <2>3. \A r : r \in Consents' <=>
          \E g \in Grant : Open(g) /\ InForce(g) /\ g.user # u /\ r = RightOf(g)
    BY <1>6, <2>1, NextAre, OpenIsGrant
  <2>4. \A r : r \in Consents' <=> r \in Consents /\ r.user # u
    BY <2>2, <2>3, ConsentsAre
  <2> QED
    BY <2>4 DEF Consents
<1>8. Rights' = {x \in Rights : x[2].user # u}
  <2>1. \A t \in live : pairs[t[2]].grant \in Grant /\ Kept(pairs[t[2]].grant)
    BY LiveIsIssued, PairHas DEF Kept
  <2>2. \A g : RightOf(g).user = g.user
    BY DEF RightOf
  <2>3. \A x : x \in Rights' <=>
          \E t \in live : /\ InForce(pairs[t[2]].grant) /\ pairs[t[2]].grant.user # u
                          /\ x = <<t, RightOf(pairs[t[2]].grant)>>
    BY <1>1, <1>6, <2>1, NextAre
  <2>4. \A x : x \in Rights' <=> x \in Rights /\ x[2].user # u
    BY <2>2, <2>3, RightsAre
  <2> QED
    BY <2>4 DEF Rights
<1>9. Spent' = Spent
  BY <1>1 DEF Spent, Issued
<1> QED
  BY <1>1, <1>4, <1>5, <1>7, <1>8, <1>9 DEF Promise!Revoke

LEMMA PromiseStep ==
  ASSUME TypeOK, TypeOK', PlaceInv, VersionInv, [Next]_vars
  PROVE  Promise!Next
<1>1. ASSUME NEW k \in Codes, NEW c \in Clients, Authorize(k, c)
      PROVE  Promise!Next
  <2>1. UNCHANGED <<account, clients, codes, pairs, live, handler, cuts>>
    BY <1>1 DEF Authorize
  <2>2. \A g \in Grant : Open(g)' => Open(g) /\ SameConsent(g, g)
    BY <2>1 DEF Open, SameConsent
  <2>3. Promise!Lapse
    BY <2>1, <2>2, Subsides DEF Issued
  <2> QED
    BY <2>3 DEF Promise!Next
<1>2. ASSUME NEW h \in Handlers, NEW k \in Codes, NEW u \in Users, Consent(h, k, u)
      PROVE  Promise!Next
  <2>1. UNCHANGED <<account, clients, codes, pairs, live, cuts>>
    BY <1>2 DEF Consent, stores
  <2>2. /\ handler'[h].step = "consume"
        /\ \A i \in Handlers \ {h} : handler'[i] = handler[i]
    BY <1>2, Goes DEF Consent
  <2>3. \A g \in Grant : Open(g)' => Open(g) /\ SameConsent(g, g)
    BY <2>1, <2>2 DEF Open, Taken, SameConsent
  <2>4. Promise!Lapse
    BY <2>1, <2>3, Subsides DEF Issued
  <2> QED
    BY <2>4 DEF Promise!Next
<1>3. ASSUME NEW h \in Handlers, CreateCode(h) \/ \E k \in Codes : ExchangeCode(h, k)
      PROVE  Promise!Next
  BY <1>3, CreateLapses, ExchangeLapses DEF Promise!Next
<1>4. ASSUME NEW u \in Users, RevokeAccess(u) \/ ChangeStatus(u)
      PROVE  Promise!Next
  BY <1>4, RevokePromise DEF Promise!Next
<1>5. ASSUME NEW u \in Users, NEW c \in Clients, RevokeConnection(u, c)
      PROVE  Promise!Next
  BY <1>5, CutPromise DEF Promise!Next
<1>6. CASE AddsNothing /\ ~\E u \in Users : RevokeAccess(u) \/ ChangeStatus(u)
  <2>1. account' = account /\ clients' \subseteq clients
    BY <1>6 DEF Next, vars, stores, Authorize, Consent, ConsumePending, Deny, CreateCode,
       ExchangeCode, CheckUser, IssueTokens, Refresh, CheckRecent, Rotate, RotateFails, Settle,
       Answer, ForgetRecent, DropToken, Expire, RemoveClient, RevokeConnection, Restart
  <2>2. Promise!Lapse
    BY <1>6, <2>1, MostSubside
  <2> QED
    BY <2>2 DEF Promise!Next
<1> QED
  BY <1>1, <1>2, <1>3, <1>4, <1>5, <1>6, ConsumePromise, IssuePromise, RotatePromise, AddsOrNot
     DEF Adds

LEMMA PromiseInit == Init => Promise!Init
<1> SUFFICES ASSUME Init
             PROVE  Promise!Init
  OBVIOUS
<1>1. Issued = {} /\ \A k \in Codes : codes[k] = None
  BY DEF Init, Issued
<1>2. \A h \in Handlers : handler[h].step = "idle"
  BY DEF Init, Idle
<1>3. Consents = {} /\ Spent = {} /\ Rights = {}
  BY <1>1, <1>2 DEF Init, Consents, Spent, Rights
<1>4. (\A u \in Users : account[u].active) /\ cuts = [x \in Users \X Clients |-> 0]
  BY DEF Init, Connections
<1> QED
  BY <1>3, <1>4 DEF Promise!Init

\* The endpoints implement the promise: rights begin with a consent, are used
\* and renewed once, and a change of the account or a revoked connection ends
\* them at one stroke wherever they are, through every request under way.
THEOREM PromiseIsKept == Spec => GrantsAreKept
<1>1. Init => TypeOK /\ PlaceInv /\ VersionInv
  BY InitTyping DEF Init, PlaceInv, CodesKnowThemselves, InOnePlace, InOneRequest,
     ConsentGivesOnce, VersionInv, Kept, Idle, Holds, Taken, Issued
<1>2. (TypeOK /\ PlaceInv /\ VersionInv) /\ [Next]_vars => (TypeOK /\ PlaceInv /\ VersionInv)'
  BY TypingStep, PlaceStep, VersionStep
<1>3. (TypeOK /\ PlaceInv /\ VersionInv) /\ TypeOK' /\ [Next]_vars
        => [Promise!Next]_(Promise!grantsVars)
  BY PromiseStep
<1>4. Spec => Promise!Init /\ [][Promise!Next]_(Promise!grantsVars)
  BY <1>1, <1>2, <1>3, PromiseInit, PTL DEF Spec
<1> QED
  BY <1>4 DEF GrantsAreKept, Promise!Spec

-----------------------------------------------------------------------------
(* What the promise itself comes to.                                         *)
HeirInv ==
  /\ Promise!OneHeir
  /\ \A r, s \in Consents : r.code = s.code => r = s
  /\ \A x \in Rights : x[2].code \in Spent

LEMMA HeirStep ==
  ASSUME HeirInv, [Promise!Next]_(Promise!grantsVars)
  PROVE  HeirInv'
<1> USE DEF HeirInv, Promise!OneHeir
<1>1. CASE Promise!Lapse
  BY <1>1 DEF Promise!Lapse
<1>2. ASSUME NEW r \in Promise!Right, Promise!Consent(r)
      PROVE  HeirInv'
  BY <1>2 DEF Promise!Consent
<1>3. ASSUME NEW r \in Promise!Right, NEW p \in Pairs, Promise!Use(r, p)
      PROVE  HeirInv'
  BY <1>3 DEF Promise!Use, Promise!Gives, Promise!Access, Promise!Refresh
<1>4. ASSUME NEW r \in Promise!Right, NEW p \in Pairs, NEW q \in Pairs, Promise!Renew(r, p, q)
      PROVE  HeirInv'
  BY <1>4 DEF Promise!Renew, Promise!Gives, Promise!Access, Promise!Refresh
<1>5. ASSUME NEW u \in Users, Promise!Revoke(u) \/ \E c \in Clients : Promise!Cut(u, c)
      PROVE  HeirInv'
  BY <1>5 DEF Promise!Revoke, Promise!Cut
<1>6. CASE UNCHANGED Promise!grantsVars
  BY <1>6 DEF Promise!grantsVars
<1> QED
  BY <1>1, <1>2, <1>3, <1>4, <1>5, <1>6 DEF Promise!Next

\* Of what was consented to at once at most one token can be renewed, and what
\* is used up stays so: the promise says it, and so the endpoints keep it.
THEOREM HeirsAreOne == Spec => []Promise!OneHeir
<1>1. Promise!Init => HeirInv
  BY DEF Promise!Init, HeirInv, Promise!OneHeir
<1>2. HeirInv /\ [Promise!Next]_(Promise!grantsVars) => HeirInv'
  BY HeirStep
<1>3. HeirInv => Promise!OneHeir
  BY DEF HeirInv
<1>4. Spec => Promise!Init /\ [][Promise!Next]_(Promise!grantsVars)
  BY PromiseIsKept DEF GrantsAreKept, Promise!Spec
<1> QED
  BY <1>1, <1>2, <1>3, <1>4, PTL
=============================================================================
