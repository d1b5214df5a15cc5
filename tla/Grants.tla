--------------------------------- MODULE Grants ---------------------------------
(***************************************************************************)
(* What authorization promises to the person who consents.  A consent is a *)
(* right of one client; it is used once, for a pair of tokens; the token   *)
(* that renews is handed on and never shared.  A change of the account     *)
(* that ends its access takes everything at one stroke, wherever it is,    *)
(* and a revoked connection loses all its tokens: nothing comes back but   *)
(* through a new consent (or, of a connection, one not used yet).          *)
(***************************************************************************)
EXTENDS Naturals

CONSTANTS Users, Clients, Codes, Pairs

VARIABLES
  account,   \* of each user: may it sign in, and its version
  cuts,      \* how often each connection was revoked
  consents,  \* the rights consented to and not used
  spent,     \* the consents that were used
  tokens     \* what is accepted or can be refreshed: tokens, each with its right

grantsVars == <<account, cuts, consents, spent, tokens>>

Right == [user : Users, client : Clients, code : Codes]
Access(p) == <<"access", p>>
Refresh(p) == <<"refresh", p>>
Gives(p, r) == {<<Access(p), r>>, <<Refresh(p), r>>}
Unused(p) == \A x \in tokens : x[1][2] # p

Init ==
  /\ \A u \in Users : account[u].active
  /\ cuts = [x \in Users \X Clients |-> 0]
  /\ consents = {} /\ spent = {} /\ tokens = {}

\* Rights lapse: tokens expire or are deleted, a request fails, a client is removed.
Lapse ==
  /\ consents' \subseteq consents /\ spent \subseteq spent' /\ tokens' \subseteq tokens
  /\ UNCHANGED <<account, cuts>>

Consent(r) ==
  /\ account[r.user].active
  /\ r.code \notin spent /\ \A s \in consents : s.code # r.code
  /\ consents' = consents \cup {r}
  /\ UNCHANGED <<account, cuts, spent, tokens>>

Use(r, p) ==
  /\ r \in consents /\ r.code \notin spent /\ Unused(p)
  /\ consents' = consents \ {r}
  /\ spent' = spent \cup {r.code}
  /\ tokens' = tokens \cup Gives(p, r)
  /\ UNCHANGED <<account, cuts>>

Renew(r, p, q) ==
  /\ <<Refresh(p), r>> \in tokens /\ Unused(q)
  /\ tokens' = (tokens \ {<<Refresh(p), r>>}) \cup Gives(q, r)
  /\ UNCHANGED <<account, cuts, consents, spent>>

\* "Revoke all", or a change of the account's status.
Revoke(u) ==
  /\ account'[u] # account[u] /\ account' = [account EXCEPT ![u] = account'[u]]
  /\ consents' = {r \in consents : r.user # u}
  /\ tokens' = {x \in tokens : x[2].user # u}
  /\ UNCHANGED <<cuts, spent>>

\* The connection of one user and client is revoked.
Cut(u, c) ==
  LET others(r) == r.user # u \/ r.client # c
  IN  /\ cuts' = [cuts EXCEPT ![<<u, c>>] = @ + 1]
      /\ {r \in consents : others(r)} \subseteq consents' /\ consents' \subseteq consents
      /\ tokens' = {x \in tokens : others(x[2])}
      /\ UNCHANGED <<account, spent>>

Next ==
  \/ Lapse
  \/ \E r \in Right : \/ Consent(r)
                      \/ \E p \in Pairs : Use(r, p) \/ \E q \in Pairs : Renew(r, p, q)
  \/ \E u \in Users : Revoke(u) \/ \E c \in Clients : Cut(u, c)

Spec == Init /\ [][Next]_grantsVars

\* At most one token renews what was consented to, and what is used up stays so.
OneHeir ==
  /\ \A x, y \in tokens :
       x[1][1] = "refresh" /\ y[1][1] = "refresh" /\ x[2].code = y[2].code => x = y
  /\ \A r \in consents : \A x \in tokens : r.code # x[2].code
=================================================================================
