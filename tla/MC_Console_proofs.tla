------------------------ MODULE MC_Console_proofs ------------------------
(***************************************************************************)
(* Proofs about the accounts behind the console and the pages it shows.    *)
(* Accounts: type correctness, that no session outlives a change of its    *)
(* account, and that somebody who can sign in always remains               *)
(* administrator.  Logs: a page that stopped asking has shown all of the   *)
(* log, and never shows a process as running again.  Live pages: they      *)
(* implement LiveView, and the store of snapshots is bounded.  All of it   *)
(* for any number of accounts, sessions, pages and concurrent requests,    *)
(* and any bounds.                                                         *)
(***************************************************************************)
EXTENDS MC_Console, SequenceTheorems, TLAPS

-----------------------------------------------------------------------------
(* Accounts.                                                                 *)

Memos == Nat \cup BOOLEAN \cup Changes \cup Tokens \cup {None}
Ops == {"signin", "logout", "registration", "end", "revoke", "update", "promote", "complete"}
Request == [step : Steps, op : Ops \cup {None}, token : Tokens \cup {None},
            actor : Accounts \cup {None}, target : Accounts \cup {None}, memo : Memos]

\* What a request remembers at each step, and that an account it is about to
\* enter, change or promote exists: accounts are never deleted.
Exists(a) == a \in Accounts /\ users[a] # None

RequestInv ==
  /\ request \in [Handlers -> Request]
  /\ \A h \in Handlers :
       LET r == request[h] IN
       /\ r.step = "account" => r.target \in Accounts \ Legacy
       /\ r.step \in {"drop", "enter"} => Exists(r.target) /\ r.memo \in Nat
       /\ r.step = "target" => r.op = "update"
       /\ r.step \in {"target", "update"} =>
            /\ r.actor \in Accounts
            /\ r.op = "logout" => r.token \in Tokens
            /\ r.op = "end" => r.memo \in Tokens
            /\ r.op \in {"revoke", "update"} => r.target \in Accounts
            /\ r.op = "update" => r.memo \in Changes
       /\ r.step = "update" /\ r.op = "update" => Exists(r.target)
       /\ r.step \in {"check", "promote"} => Exists(r.target)

AccountsInv == TypeOK /\ RequestInv

\* A step of one handler, the others as they were.
Moves(h, r) == r \in Request /\ request' = [request EXCEPT ![h] = r]

LEMMA RestingType == Resting \in Request
BY DEF Resting, Request, Steps, Memos

\* What the accounts of others and of later requests rest on: nobody is deleted.
LEMMA RequestKept ==
  ASSUME RequestInv, NEW h \in Handlers, NEW r \in Request,
         request' = [request EXCEPT ![h] = r],
         \A a \in Accounts : users[a] # None => users'[a] # None,
         /\ r.step = "account" => r.target \in Accounts \ Legacy
         /\ r.step \in {"drop", "enter"} => Exists(r.target)' /\ r.memo \in Nat
         /\ r.step = "target" => r.op = "update"
         /\ r.step \in {"target", "update"} =>
              /\ r.actor \in Accounts
              /\ r.op = "logout" => r.token \in Tokens
              /\ r.op = "end" => r.memo \in Tokens
              /\ r.op \in {"revoke", "update"} => r.target \in Accounts
              /\ r.op = "update" => r.memo \in Changes
         /\ r.step = "update" /\ r.op = "update" => Exists(r.target)'
         /\ r.step \in {"check", "promote"} => Exists(r.target)'
  PROVE  RequestInv'
<1>1. request' \in [Handlers -> Request]
  BY DEF RequestInv
<1>2. request'[h] = r /\ \A g \in Handlers \ {h} : request'[g] = request[g]
  BY DEF RequestInv
<1>3. \A a : Exists(a) => Exists(a)'
  BY DEF Exists
<1> QED
  BY <1>1, <1>2, <1>3 DEF RequestInv

LEMMA DoneKeeps ==
  ASSUME RequestInv, NEW h \in Handlers, Done(h),
         \A a \in Accounts : users[a] # None => users'[a] # None
  PROVE  RequestInv'
BY RestingType, RequestKept DEF Done, Resting

\* A change of an account is one of a record at a new version.
LEMMA ChangeLeads ==
  ASSUME TypeOK, NEW a \in Accounts, users[a] # None, NEW c, c.role \in Roles,
         c.status \in Statuses, Change(a, c)
  PROVE  /\ users' \in [Accounts -> User \cup {None}]
         /\ sessions' \in [Tokens -> Session \cup {None}]
         /\ changes' \in 0..MaxChanges
         /\ \A b \in Accounts \ {a} : users'[b] = users[b]
         /\ users'[a] # None /\ users'[a].role = c.role /\ users'[a].status = c.status
         /\ sessions' = Drop(a)
<1>1. users[a] \in User
  BY DEF TypeOK
<1> DEFINE u == [role |-> c.role, status |-> c.status, version |-> users[a].version + 1]
<1>2. u \in User
  BY <1>1 DEF User
<1>3. users' = [users EXCEPT ![a] = u]
  BY DEF Change
<1>4. u.role = c.role /\ u.status = c.status
  OBVIOUS
<1> HIDE DEF u
<1>5. sessions' \in [Tokens -> Session \cup {None}]
  BY DEF TypeOK, Change, Drop
<1>6. changes' \in 0..MaxChanges
  BY AccountsAssumption DEF TypeOK, Change
<1> QED
  BY <1>2, <1>3, <1>4, <1>5, <1>6, NoneIsNoRecord DEF TypeOK, Change

\* The account a session stands for.
LEMMA CurrentType ==
  ASSUME TypeOK, NEW t \in Tokens, Current(t) # None
  PROVE  Current(t) \in Accounts /\ users[Current(t)] # None
BY DEF TypeOK, Current, Session

LEMMA AccountsInit == Init => AccountsInv
<1> SUFFICES ASSUME Init
             PROVE  AccountsInv
  OBVIOUS
<1>1. users \in [Accounts -> User \cup {None}]
  BY DEF Init, User, Roles, Statuses
<1>2. sessions \in [Tokens -> Session \cup {None}]
  BY AccountsAssumption DEF Init, Session
<1>3. changes \in 0..MaxChanges /\ promotions \in Nat
  BY AccountsAssumption DEF Init
<1>4. request \in [Handlers -> Request] /\ \A h \in Handlers : request[h] = Resting
  BY RestingType DEF Init
<1>5. RequestInv
  BY <1>4 DEF RequestInv, Resting
<1>6. TypeOK
  BY <1>1, <1>2, <1>3, <1>4 DEF Init, TypeOK, Resting, Steps
<1> QED
  BY <1>5, <1>6 DEF AccountsInv

\* Requests stay well formed, whatever is done to the accounts they are about.
LEMMA RequestTyping ==
  ASSUME RequestInv'
  PROVE  \A h \in Handlers : /\ request'[h].step \in Steps
                             /\ request'[h].token \in Tokens \cup {None}
                             /\ request'[h].actor \in Accounts \cup {None}
                             /\ request'[h].target \in Accounts \cup {None}
BY DEF RequestInv, Request

LEMMA StartKeeps ==
  ASSUME AccountsInv, NEW h \in Handlers, NEW op \in Ops, NEW step \in Steps,
         NEW t \in Tokens \cup {None}, NEW a \in Accounts \cup {None},
         NEW b \in Accounts \cup {None}, NEW m \in Memos, Start(h, op, step, t, a, b, m),
         /\ step = "account" => b \in Accounts \ Legacy
         /\ step \notin {"drop", "enter"}
         /\ step = "target" => op = "update"
         /\ step \in {"target", "update"} =>
              /\ a \in Accounts
              /\ op = "logout" => t \in Tokens
              /\ op = "end" => m \in Tokens
              /\ op \in {"revoke", "update"} => b \in Accounts
              /\ op = "update" => m \in Changes
         /\ step = "update" => op # "update"
         /\ step \in {"check", "promote"} => Exists(b)
  PROVE  AccountsInv'
<1> DEFINE r == [step |-> step, op |-> op, token |-> t, actor |-> a, target |-> b, memo |-> m]
<1>1. r \in Request
  BY DEF Request
<1>2. UNCHANGED <<users, sessions, changes, promotions, open, completed, onboarding>>
  BY DEF Start, stores, rest
<1>3. request' = [request EXCEPT ![h] = r]
  BY DEF Start
<1>4. /\ r.step = step /\ r.op = op /\ r.token = t /\ r.actor = a /\ r.target = b
      /\ r.memo = m
  OBVIOUS
<1> HIDE DEF r
<1>5. Exists(b) => Exists(b)'
  BY <1>2 DEF Exists
<1>6. RequestInv'
  BY <1>1, <1>2, <1>3, <1>4, <1>5, RequestKept DEF AccountsInv
<1> QED
  BY <1>2, <1>6, RequestTyping DEF AccountsInv, TypeOK

LEMMA AccountsStep ==
  ASSUME AccountsInv, [Next]_accountVars
  PROVE  AccountsInv'
<1> USE DEF AccountsInv
<1>1. ASSUME NEW h \in Handlers, SignIn(h)
      PROVE  AccountsInv'
  <2>1. PICK a \in Accounts \ Legacy, t \in Tokens \cup {None} :
          Start(h, "signin", "account", t, None, a, open)
    BY <1>1 DEF SignIn
  <2>2. open \in Memos
    BY DEF TypeOK, Memos
  <2> QED
    BY <2>1, <2>2, StartKeeps DEF Ops, Steps
<1>2. ASSUME NEW h \in Handlers, Account(h)
      PROVE  AccountsInv'
  <2>1. PICK a \in Accounts \ Legacy : a = request[h].target
    BY <1>2 DEF Account, At, RequestInv
  <2>2. UNCHANGED <<sessions, changes, promotions, open, completed, onboarding>>
    BY <1>2 DEF Account, rest
  <2>3. users' \in [Accounts -> User \cup {None}]
    <3>1. [role |-> "user", status |-> "pending", version |-> 1] \in User
      BY DEF User, Roles, Statuses
    <3> QED
      BY <1>2, <2>1, <3>1 DEF Account, TypeOK
  <2>4. \A b \in Accounts : users[b] # None => users'[b] = users[b]
    BY <1>2, <2>1 DEF Account, TypeOK
  <2>5. RequestInv'
    <3>1. CASE Done(h)
      BY <2>4, <3>1, DoneKeeps
    <3>2. CASE users[a] # None /\ Keep(h, "drop", users[a].version)
      <4> DEFINE r == [request[h] EXCEPT !.step = "drop", !.memo = users[a].version]
      <4>1. users[a].version \in Nat
        BY <3>2 DEF TypeOK, User
      <4>2. r \in Request /\ r.step = "drop" /\ r.memo \in Nat /\ r.target = a
        BY <2>1, <4>1 DEF RequestInv, Request, Steps, Memos
      <4>3. request' = [request EXCEPT ![h] = r]
        BY <3>2 DEF Keep, RequestInv
      <4> HIDE DEF r
      <4>4. Exists(a)'
        BY <2>4, <3>2 DEF Exists
      <4> QED
        BY <2>4, <4>2, <4>3, <4>4, RequestKept
    <3> QED
      BY <1>2, <2>1, <3>1, <3>2 DEF Account
  <2> QED
    BY <2>2, <2>3, <2>5, RequestTyping DEF TypeOK
<1>3. ASSUME NEW h \in Handlers, DropOld(h)
      PROVE  AccountsInv'
  <2>1. UNCHANGED <<users, changes, promotions, open, completed, onboarding>>
    BY <1>3 DEF DropOld, rest
  <2>2. sessions' \in [Tokens -> Session \cup {None}]
    BY <1>3 DEF DropOld, TypeOK
  <2>3. PICK r \in Request : r = [request[h] EXCEPT !.step = "enter", !.token = None]
    BY DEF RequestInv, Request, Steps
  <2>4. r.step = "enter" /\ r.memo = request[h].memo /\ r.target = request[h].target
    BY <2>3 DEF RequestInv, Request
  <2>5. request' = [request EXCEPT ![h] = r]
    BY <1>3, <2>3 DEF DropOld, RequestInv
  <2>6. Exists(r.target)' /\ r.memo \in Nat
    BY <1>3, <2>1, <2>4 DEF DropOld, RequestInv, At, Exists
  <2>7. RequestInv'
    BY <2>1, <2>4, <2>5, <2>6, RequestKept
  <2> QED
    BY <2>1, <2>2, <2>7, RequestTyping DEF TypeOK
<1>4. ASSUME NEW h \in Handlers, Enter(h)
      PROVE  AccountsInv'
  <2>1. UNCHANGED <<users, changes, promotions, open, completed, onboarding>>
    BY <1>4 DEF Enter, rest
  <2>2. sessions' \in [Tokens -> Session \cup {None}]
    <3>1. [user |-> request[h].target, version |-> request[h].memo] \in Session
      BY <1>4 DEF Enter, At, RequestInv, Exists, Session
    <3> QED
      BY <1>4, <3>1 DEF Enter, TypeOK
  <2>3. RequestInv'
    BY <1>4, <2>1, DoneKeeps DEF Enter
  <2> QED
    BY <2>1, <2>2, <2>3, RequestTyping DEF TypeOK
<1>5. ASSUME NEW h \in Handlers, Browse(h)
      PROVE  AccountsInv'
  <2>1. PICK t \in Tokens :
          LET a == Current(t) IN
          /\ a # None
          /\ \/ Start(h, "logout", "update", t, a, None, None)
             \/ Start(h, "registration", "update", None, a, None, None)
             \/ \E s \in Tokens : Start(h, "end", "update", None, a, None, s)
             \/ \E b \in Accounts :
                  \/ Start(h, "revoke", "update", None, a, b, None)
                  \/ \E c \in Changes : Start(h, "update", "target", None, a, b, c)
    BY <1>5 DEF Browse
  <2>2. PICK a \in Accounts : a = Current(t)
    BY <2>1, CurrentType
  <2>3. CASE Start(h, "logout", "update", t, a, None, None)
    BY <2>3, StartKeeps DEF Ops, Steps, Memos
  <2>4. CASE Start(h, "registration", "update", None, a, None, None)
    BY <2>4, StartKeeps DEF Ops, Steps, Memos
  <2>5. ASSUME NEW s \in Tokens, Start(h, "end", "update", None, a, None, s)
        PROVE  AccountsInv'
    BY <2>5, StartKeeps DEF Ops, Steps, Memos
  <2>6. ASSUME NEW b \in Accounts, Start(h, "revoke", "update", None, a, b, None)
        PROVE  AccountsInv'
    BY <2>6, StartKeeps DEF Ops, Steps, Memos
  <2>7. ASSUME NEW b \in Accounts, NEW c \in Changes,
               Start(h, "update", "target", None, a, b, c)
        PROVE  AccountsInv'
    BY <2>7, StartKeeps DEF Ops, Steps, Memos
  <2> QED
    BY <2>1, <2>2, <2>3, <2>4, <2>5, <2>6, <2>7
<1>6. ASSUME NEW h \in Handlers, NEW s \in {"update", "promote"},
             At(h, "target") \/ At(h, "check"), Goto(h, s), UNCHANGED stores,
             s = "update" => At(h, "target") /\ Exists(request[h].target),
             s = "promote" => At(h, "check")
      PROVE  AccountsInv'
  <2>1. UNCHANGED <<users, sessions, changes, promotions, open, completed, onboarding>>
    BY <1>6 DEF stores, rest
  <2>2. PICK r \in Request :
          /\ request' = [request EXCEPT ![h] = r]
          /\ r.step = s /\ r.op = request[h].op
          /\ r.token = request[h].token /\ r.actor = request[h].actor
          /\ r.target = request[h].target /\ r.memo = request[h].memo
    <3> DEFINE q == [request[h] EXCEPT !.step = s]
    <3>1. /\ q \in Request /\ q.step = s /\ q.op = request[h].op
          /\ q.token = request[h].token /\ q.actor = request[h].actor
          /\ q.target = request[h].target /\ q.memo = request[h].memo
      BY DEF RequestInv, Request, Steps
    <3>2. request' = [request EXCEPT ![h] = q]
      BY <1>6 DEF Goto
    <3> HIDE DEF q
    <3> QED
      BY <3>1, <3>2
  <2>3. Exists(r.target)'
    BY <1>6, <2>1, <2>2 DEF RequestInv, At, Exists
  <2>4. RequestInv'
    BY <1>6, <2>1, <2>2, <2>3, RequestKept DEF RequestInv, At
  <2> QED
    BY <2>1, <2>4, RequestTyping DEF TypeOK
<1>7. ASSUME NEW h \in Handlers, Done(h), UNCHANGED users,
             sessions' \in [Tokens -> Session \cup {None}],
             changes' \in 0..MaxChanges, promotions' \in Nat, open' \in BOOLEAN,
             completed' \in BOOLEAN, onboarding' \in BOOLEAN
      PROVE  AccountsInv'
  <2>1. RequestInv'
    BY <1>7, DoneKeeps
  <2> QED
    BY <1>7, <2>1, RequestTyping DEF TypeOK
<1>8. ASSUME NEW h \in Handlers, Target(h) \/ Check(h)
      PROVE  AccountsInv'
  <2>1. CASE Done(h)
    BY <1>7, <1>8, <2>1 DEF Target, Check, stores, rest, TypeOK
  <2>2. CASE At(h, "target") /\ Exists(request[h].target) /\ Goto(h, "update")
    BY <1>6, <1>8, <2>2 DEF Target, Check
  <2>3. CASE At(h, "check") /\ Goto(h, "promote")
    BY <1>6, <1>8, <2>3 DEF Target, Check
  <2>4. At(h, "target") => request[h].target \in Accounts
    BY DEF RequestInv, At
  <2> QED
    BY <1>8, <2>1, <2>2, <2>3, <2>4 DEF Target, Check, Exists
<1>9. ASSUME NEW h \in Handlers, Logout(h) \/ EndSession(h)
      PROVE  AccountsInv'
  <2>1. sessions' \in [Tokens -> Session \cup {None}]
    BY <1>9 DEF Logout, EndSession, TypeOK
  <2> QED
    BY <1>7, <1>9, <2>1 DEF Logout, EndSession, rest, TypeOK
<1>10. ASSUME NEW h \in Handlers, Registration(h)
       PROVE  AccountsInv'
  BY <1>7, <1>10 DEF Registration, TypeOK
<1>11. ASSUME NEW h \in Handlers, NEW a \in Accounts, NEW c, users[a] # None,
              c.role \in Roles, c.status \in Statuses, Change(a, c), Done(h),
              promotions' \in Nat, UNCHANGED rest
       PROVE  AccountsInv'
  <2>1. /\ users' \in [Accounts -> User \cup {None}]
        /\ sessions' \in [Tokens -> Session \cup {None}]
        /\ changes' \in 0..MaxChanges
        /\ \A b \in Accounts : users[b] # None => users'[b] # None
    BY <1>11, ChangeLeads
  <2>2. RequestInv'
    BY <1>11, <2>1, DoneKeeps
  <2> QED
    BY <1>11, <2>1, <2>2, RequestTyping DEF TypeOK, rest
<1>12. ASSUME NEW h \in Handlers, Update(h)
       PROVE  AccountsInv'
  <2>1. PICK a \in Accounts, c \in Changes : /\ a = request[h].target /\ c = request[h].memo
                                             /\ users[a] # None
    BY <1>12 DEF Update, At, RequestInv, Exists
  <2>2. c.role \in Roles /\ c.status \in Statuses
    BY AccountsAssumption DEF Roles, Statuses
  <2>3. CASE UNCHANGED <<users, sessions, changes>>
    BY <1>7, <1>12, <2>3 DEF Update, TypeOK, rest
  <2>4. CASE Change(a, c)
    BY <1>11, <1>12, <2>1, <2>2, <2>4 DEF Update, TypeOK
  <2> QED
    BY <1>12, <2>1, <2>3, <2>4 DEF Update
<1>13. ASSUME NEW h \in Handlers, RevokeAccess(h)
       PROVE  AccountsInv'
  <2>1. PICK a \in Accounts : a = request[h].target
    BY <1>13 DEF RevokeAccess, At, RequestInv
  <2>2. CASE UNCHANGED <<users, sessions, changes>>
    BY <1>7, <1>13, <2>2 DEF RevokeAccess, TypeOK, rest
  <2>3. CASE users[a] # None /\ Change(a, users[a])
    <3>1. users[a].role \in Roles /\ users[a].status \in Statuses
      BY <2>3 DEF TypeOK, User
    <3> QED
      BY <1>11, <1>13, <2>3, <3>1 DEF RevokeAccess, TypeOK
  <2> QED
    BY <1>13, <2>1, <2>2, <2>3 DEF RevokeAccess
<1>14. ASSUME NEW h \in Handlers, Install(h)
       PROVE  AccountsInv'
  <2>1. CASE Start(h, "complete", "complete", None, None, None, None)
    BY <2>1, StartKeeps DEF Ops, Steps, Memos
  <2>2. ASSUME NEW a \in Accounts \ Legacy, users[a] # None,
               Start(h, "promote", "check", None, None, a, None)
        PROVE  AccountsInv'
    BY <2>2, StartKeeps DEF Ops, Steps, Memos, Exists
  <2> QED
    BY <1>14, <2>1, <2>2 DEF Install
<1>15. ASSUME NEW h \in Handlers, Promote(h)
       PROVE  AccountsInv'
  <2> DEFINE c == [role |-> "admin", status |-> "active"]
  <2>1. PICK a \in Accounts : a = request[h].target /\ users[a] # None
    BY <1>15 DEF Promote, At, RequestInv, Exists
  <2>2. c.role \in Roles /\ c.status \in Statuses
    BY DEF Roles, Statuses
  <2>3. CASE UNCHANGED <<users, sessions, changes, promotions>>
    BY <1>7, <1>15, <2>3 DEF Promote, TypeOK, rest
  <2>4. CASE Change(a, c) /\ promotions' = promotions + 1
    <3>1. promotions' \in Nat
      BY <2>4 DEF TypeOK
    <3> HIDE DEF c
    <3> QED
      BY <1>11, <1>15, <2>1, <2>2, <2>4, <3>1 DEF Promote
  <2> QED
    BY <1>15, <2>1, <2>3, <2>4 DEF Promote
<1>16. ASSUME NEW h \in Handlers, Complete(h)
       PROVE  AccountsInv'
  <2>1. CASE Done(h)
    BY <1>7, <1>16, <2>1 DEF Complete, TypeOK
  <2>2. CASE Goto(h, "clear")
    <3>1. UNCHANGED <<users, sessions, changes, promotions, open, onboarding>>
          /\ completed' = TRUE
      BY <1>16 DEF Complete
    <3> DEFINE r == [request[h] EXCEPT !.step = "clear"]
    <3>2. r \in Request /\ r.step = "clear"
      BY DEF RequestInv, Request, Steps
    <3>3. request' = [request EXCEPT ![h] = r]
      BY <2>2 DEF Goto
    <3> HIDE DEF r
    <3>4. RequestInv'
      BY <3>1, <3>2, <3>3, RequestKept
    <3> QED
      BY <3>1, <3>4, RequestTyping DEF TypeOK
  <2> QED
    BY <1>16, <2>1, <2>2 DEF Complete
<1>17. ASSUME NEW h \in Handlers, Clear(h)
       PROVE  AccountsInv'
  BY <1>7, <1>17 DEF Clear, TypeOK
<1>18. ASSUME NEW t \in Tokens, Expire(t)
       PROVE  AccountsInv'
  <2>1. /\ UNCHANGED <<users, request, changes, promotions, open, completed, onboarding>>
        /\ sessions' \in [Tokens -> Session \cup {None}]
    BY <1>18 DEF Expire, rest, TypeOK
  <2> QED
    BY <2>1 DEF TypeOK, RequestInv, Exists
<1>19. CASE UNCHANGED accountVars
  BY <1>19 DEF accountVars, TypeOK, RequestInv, Exists
<1> QED
  BY <1>1, <1>2, <1>3, <1>4, <1>5, <1>8, <1>9, <1>10, <1>12, <1>13, <1>14, <1>15, <1>16,
     <1>17, <1>18, <1>19 DEF Next

\* users.json and the requests stay of their kinds, whatever overlaps; in particular an
\* account that is about to be entered, changed or promoted still exists.
THEOREM AccountsTyping == Spec => []TypeOK
<1>1. AccountsInv => TypeOK
  BY DEF AccountsInv
<1> QED
  BY <1>1, AccountsInit, AccountsStep, PTL DEF Spec

\* Sessions lose nothing by a step that only removes sessions, or that leaves the
\* accounts of the sessions it keeps as they were.
LEMMA SessionsKept ==
  ASSUME TypeOK, SessionsAreCurrent,
         \A t \in Tokens : sessions'[t] # None =>
           /\ sessions'[t] = sessions[t]
           /\ users'[sessions[t].user] = users[sessions[t].user]
  PROVE  SessionsAreCurrent'
<1>1. \A t \in Tokens : sessions[t] # None => sessions[t].user \in Accounts
  BY DEF TypeOK, Session
<1> QED
  BY <1>1 DEF SessionsAreCurrent, Current

\* Exactly the sessions at the present version of an active account are current.
LEMMA CurrentMeans ==
  ASSUME TypeOK, NEW t \in Tokens, sessions[t] # None
  PROVE  Current(t) = sessions[t].user <=>
           /\ users[sessions[t].user] # None
           /\ users[sessions[t].user].status = "active"
           /\ users[sessions[t].user].version = sessions[t].version
BY AccountsAssumption DEF TypeOK, Session, Current

LEMMA SessionsStep ==
  ASSUME AccountsInv, SessionsAreCurrent, [Next]_accountVars
  PROVE  SessionsAreCurrent'
<1> USE DEF AccountsInv
<1>1. CASE UNCHANGED <<users, sessions>>
  BY <1>1 DEF SessionsAreCurrent, Current
<1>2. ASSUME NEW h \in Handlers, Account(h)
      PROVE  SessionsAreCurrent'
  <2>1. request[h].target \in Accounts
    BY <1>2 DEF Account, At, RequestInv
  <2>2. \A a \in Accounts : users[a] # None => users'[a] = users[a]
    BY <1>2, <2>1 DEF Account, TypeOK
  <2>3. \A t \in Tokens : sessions[t] # None => /\ sessions[t].user \in Accounts
                                                /\ users[sessions[t].user] # None
    BY CurrentMeans DEF SessionsAreCurrent, TypeOK, Session
  <2> QED
    BY <1>2, <2>2, <2>3, SessionsKept DEF Account
<1>3. ASSUME UNCHANGED users, \A t \in Tokens : sessions'[t] \in {None, sessions[t]}
      PROVE  SessionsAreCurrent'
  BY <1>3, SessionsKept
<1>4. ASSUME NEW h \in Handlers, DropOld(h)
      PROVE  SessionsAreCurrent'
  BY <1>3, <1>4 DEF DropOld, TypeOK
<1>5. ASSUME NEW h \in Handlers, Enter(h)
      PROVE  SessionsAreCurrent'
  <2>1. PICK a \in Accounts : a = request[h].target /\ users[a] # None
    BY <1>5 DEF Enter, At, RequestInv, Exists
  <2>2. CASE UNCHANGED sessions
    BY <1>1, <1>5, <2>2 DEF Enter
  <2>3. ASSUME NEW t \in Tokens, NEW v, users[a].status = "active", users[a].version = v,
               sessions' = [sessions EXCEPT ![t] = [user |-> a, version |-> v]]
        PROVE  SessionsAreCurrent'
    <3>1. UNCHANGED users
      BY <1>5 DEF Enter
    <3>2. /\ sessions'[t].user = a /\ sessions'[t].version = v
          /\ sessions'[t] # None
      <4>1. v \in Nat
        BY <2>1, <2>3 DEF TypeOK, User
      <4> QED
        BY <2>3, <4>1, NoneIsNoRecord DEF TypeOK, Session
    <3>3. \A s \in Tokens \ {t} : sessions'[s] = sessions[s]
      BY <2>3 DEF TypeOK
    <3>4. Current(t)' = sessions'[t].user
      BY <2>1, <2>3, <3>1, <3>2 DEF Current
    <3>5. \A s \in Tokens \ {t} : sessions'[s] # None => Current(s)' = sessions'[s].user
      BY <3>1, <3>3 DEF SessionsAreCurrent, Current
    <3> QED
      BY <3>4, <3>5 DEF SessionsAreCurrent
  <2> QED
    BY <1>5, <2>1, <2>2, <2>3 DEF Enter
<1>6. ASSUME NEW h \in Handlers, Logout(h) \/ EndSession(h)
      PROVE  SessionsAreCurrent'
  BY <1>3, <1>6 DEF Logout, EndSession, TypeOK
<1>7. ASSUME NEW t \in Tokens, Expire(t)
      PROVE  SessionsAreCurrent'
  BY <1>3, <1>7 DEF Expire, TypeOK
<1>8. ASSUME NEW a \in Accounts, NEW c, users[a] # None, c.role \in Roles,
             c.status \in Statuses, Change(a, c)
      PROVE  SessionsAreCurrent'
  <2>1. sessions' = Drop(a) /\ \A b \in Accounts \ {a} : users'[b] = users[b]
    BY <1>8, ChangeLeads
  <2>2. \A t \in Tokens : sessions'[t] # None =>
          sessions'[t] = sessions[t] /\ sessions[t].user \in Accounts \ {a}
    BY <2>1 DEF Drop, TypeOK, Session
  <2> QED
    BY <2>1, <2>2, SessionsKept
<1>9. ASSUME NEW h \in Handlers, Update(h)
      PROVE  SessionsAreCurrent'
  <2>1. PICK a \in Accounts, c \in Changes : /\ a = request[h].target /\ c = request[h].memo
                                             /\ users[a] # None
    BY <1>9 DEF Update, At, RequestInv, Exists
  <2>2. c.role \in Roles /\ c.status \in Statuses
    BY AccountsAssumption DEF Roles, Statuses
  <2> QED
    BY <1>1, <1>8, <1>9, <2>1, <2>2 DEF Update
<1>10. ASSUME NEW h \in Handlers, RevokeAccess(h)
       PROVE  SessionsAreCurrent'
  <2>1. PICK a \in Accounts : a = request[h].target
    BY <1>10 DEF RevokeAccess, At, RequestInv
  <2>2. users[a] # None => users[a].role \in Roles /\ users[a].status \in Statuses
    BY DEF TypeOK, User
  <2> QED
    BY <1>1, <1>8, <1>10, <2>1, <2>2 DEF RevokeAccess
<1>11. ASSUME NEW h \in Handlers, Promote(h)
       PROVE  SessionsAreCurrent'
  <2> DEFINE c == [role |-> "admin", status |-> "active"]
  <2>1. PICK a \in Accounts : a = request[h].target /\ users[a] # None
    BY <1>11 DEF Promote, At, RequestInv, Exists
  <2>2. c.role \in Roles /\ c.status \in Statuses
    BY DEF Roles, Statuses
  <2>3. UNCHANGED <<users, sessions>> \/ Change(a, c)
    BY <1>11, <2>1 DEF Promote
  <2> HIDE DEF c
  <2> QED
    BY <1>1, <1>8, <2>1, <2>2, <2>3
<1> QED
  BY <1>1, <1>2, <1>4, <1>5, <1>6, <1>7, <1>9, <1>10, <1>11
     DEF Next, accountVars, SignIn, Browse, Start, stores, Target, Registration, Install,
         Check, Complete, Clear

\* No session outlives a change of its account: the sign-in that read the account before
\* the change is refused by createSession, and the change drops the sessions there are.
THEOREM SessionsEndWithAccess == Spec => []SessionsAreCurrent
<1>1. Init => SessionsAreCurrent
  <2> SUFFICES ASSUME Init, NEW t \in Tokens, sessions[t] # None
               PROVE  Current(t) = sessions[t].user
    BY DEF SessionsAreCurrent
  <2>1. sessions[t].user \in Legacy /\ sessions[t].version = 1
    BY DEF Init
  <2>2. users[sessions[t].user] = [role |-> "admin", status |-> "active", version |-> 1]
    BY <2>1, AccountsAssumption DEF Init
  <2>3. TypeOK
    BY AccountsInit DEF AccountsInv
  <2>4. users[sessions[t].user] # None
    BY <2>2, NoneIsNoRecord DEF User, Roles, Statuses
  <2> QED
    BY <2>1, <2>2, <2>3, <2>4, CurrentMeans
<1>2. AccountsInv /\ SessionsAreCurrent /\ [Next]_accountVars
        => AccountsInv' /\ SessionsAreCurrent'
  BY AccountsStep, SessionsStep
<1> QED
  BY <1>1, <1>2, AccountsInit, PTL DEF Spec

-----------------------------------------------------------------------------
\* The accounts somebody can sign in with as an administrator, after a step that
\* leaves every record, or the role and the status of every record, as it was.
LEMMA AdminsKept ==
  ASSUME TypeOK, \A a \in Accounts : users[a] # None =>
           /\ users'[a] # None
           /\ users'[a].role = users[a].role /\ users'[a].status = users[a].status
  PROVE  SignInAdmins \subseteq SignInAdmins'
BY DEF SignInAdmins, Is

LEMMA AdminStep ==
  ASSUME AccountsInv, [Next]_accountVars
  PROVE  [SignInAdmins # {} => SignInAdmins' # {} /\ promotions' = promotions]_<<users, promotions>>
<1> USE DEF AccountsInv
<1> SUFFICES ASSUME SignInAdmins # {}, ~UNCHANGED <<users, promotions>>
             PROVE  SignInAdmins' # {} /\ promotions' = promotions
  OBVIOUS
<1>1. ASSUME NEW h \in Handlers, Account(h)
      PROVE  SignInAdmins' # {} /\ promotions' = promotions
  <2>1. request[h].target \in Accounts
    BY <1>1 DEF Account, At, RequestInv
  <2>2. \A a \in Accounts : users[a] # None => users'[a] = users[a]
    BY <1>1, <2>1 DEF Account, TypeOK
  <2> QED
    BY <1>1, <2>2, AdminsKept DEF Account
<1>2. ASSUME NEW h \in Handlers, Update(h)
      PROVE  SignInAdmins' # {} /\ promotions' = promotions
  <2>1. PICK a \in Accounts, c \in Changes : /\ a = request[h].target /\ c = request[h].memo
                                             /\ users[a] # None
    BY <1>2 DEF Update, At, RequestInv, Exists
  <2>2. /\ c.role \in Roles /\ c.status \in Statuses
        /\ c = [role |-> c.role, status |-> c.status]
    BY AccountsAssumption DEF Roles, Statuses
  <2>3. CASE UNCHANGED users
    BY <1>2, <2>3 DEF Update
  <2>4. CASE Change(a, c) /\ (SignInAdmins = {a} => c = [role |-> "admin", status |-> "active"])
    <3>1. /\ \A b \in Accounts \ {a} : users'[b] = users[b]
          /\ users'[a] # None /\ users'[a].role = c.role /\ users'[a].status = c.status
      BY <2>1, <2>2, <2>4, ChangeLeads
    <3>2. CASE SignInAdmins = {a}
      <4>1. c.role = "admin" /\ c.status = "active"
        BY <2>4, <3>2
      <4>2. a \in SignInAdmins'
        BY <3>1, <3>2, <4>1 DEF SignInAdmins, Is
      <4> QED
        BY <1>2, <4>2 DEF Update
    <3>3. CASE SignInAdmins # {a}
      <4>1. PICK b \in SignInAdmins : b # a
        BY <3>3
      <4>2. b \in SignInAdmins'
        BY <3>1, <4>1 DEF SignInAdmins, Is
      <4> QED
        BY <1>2, <4>2 DEF Update
    <3> QED
      BY <3>2, <3>3
  <2> QED
    BY <1>2, <2>1, <2>3, <2>4 DEF Update
<1>3. ASSUME NEW h \in Handlers, RevokeAccess(h)
      PROVE  SignInAdmins' # {} /\ promotions' = promotions
  <2>1. PICK a \in Accounts : a = request[h].target
    BY <1>3 DEF RevokeAccess, At, RequestInv
  <2>2. CASE UNCHANGED users
    BY <1>3, <2>2 DEF RevokeAccess
  <2>3. CASE users[a] # None /\ Change(a, users[a])
    <3>1. users[a].role \in Roles /\ users[a].status \in Statuses
      BY <2>3 DEF TypeOK, User
    <3>2. /\ \A b \in Accounts \ {a} : users'[b] = users[b]
          /\ users'[a] # None /\ users'[a].role = users[a].role
          /\ users'[a].status = users[a].status
      BY <2>3, <3>1, ChangeLeads
    <3> QED
      BY <1>3, <3>2, AdminsKept DEF RevokeAccess
  <2> QED
    BY <1>3, <2>1, <2>2, <2>3 DEF RevokeAccess
<1>4. ASSUME NEW h \in Handlers, Promote(h)
      PROVE  SignInAdmins' # {} /\ promotions' = promotions
  BY <1>4 DEF Promote, Promotable
<1> QED
  BY <1>1, <1>2, <1>3, <1>4
     DEF Next, accountVars, SignIn, Browse, Start, stores, Target, Registration, Install,
         Check, Complete, Clear, DropOld, Enter, Logout, EndSession, Expire

\* Whatever administrators do to each other at the same time, somebody who can sign in
\* remains administrator, and the onboarding makes no other one.
THEOREM AdminIsNeverLost == Spec => AdminRemains
<1>1. AccountsInv /\ [Next]_accountVars
        => [SignInAdmins # {} => SignInAdmins' # {} /\ promotions' = promotions
             ]_<<users, promotions>>
  BY AdminStep
<1> QED
  BY <1>1, AccountsInit, AccountsStep, PTL DEF Spec, AdminRemains

-----------------------------------------------------------------------------
(* The log of a process and its page.                                        *)

Bytes(from, to) == [i \in 1..(to - from) |-> from + i]

\* How far a cursor has come, without the part of a character it keeps.
Whole(c) == c.offset - c.pending

\* A cursor is not past the end of the file; what it keeps is half a character.
Sound(c) ==
  /\ c \in [offset : 0..process.written, pending : 0..1]
  /\ c.pending = 1 => c.offset % 2 = 1

Over == process.record = "over"

\* The page shows what is before its cursor.
CardInv ==
  /\ Sound(card.cursor)
  /\ card.shown = Bytes(0, Whole(card.cursor))
  /\ card.stopped => Over /\ Whole(card.cursor) = process.written

\* A request under way continues from the cursor of the page.  One that was told
\* that the process is over reads a file that does not grow any more.
RequestedInv ==
  LET r == logRequest IN
  /\ r.step # "idle" => r.cursor = card.cursor
  /\ r.step \in {"listed", "found", "read"} =>
       r.listed \in Log!Statuses /\ (r.listed = "over" => Over)
  /\ r.step \in {"found", "read"} =>
       r.record \in Log!Statuses /\ (r.listed = "over" => r.record = "over")
  /\ r.step = "read" =>
       /\ r.to \in r.cursor.offset..process.written /\ r.truncated \in BOOLEAN
       /\ ~r.truncated /\ r.listed = "over" => r.to = process.written
  /\ r.step = "answered" =>
       /\ Sound(r.answer.cursor) /\ Whole(r.cursor) <= Whole(r.answer.cursor)
       /\ r.answer.output = Bytes(Whole(r.cursor), Whole(r.answer.cursor))
       /\ r.answer.status \in Log!Statuses /\ r.answer.more \in BOOLEAN
       /\ r.answer.status = "over" => Over
       /\ r.answer.status = "over" /\ ~r.answer.more =>
            Whole(r.answer.cursor) = process.written

\* What the log said of the end is true, and every later answer says it again.
SaidInv ==
  card.said = "over" =>
    /\ card.badge = "over" /\ card.loaded /\ Over
    /\ logRequest.step \in {"listed", "found", "read"} => logRequest.listed = "over"
    /\ logRequest.step = "answered" => logRequest.answer.status = "over"

LogInv == Log!TypeOK /\ CardInv /\ RequestedInv /\ SaidInv

LEMMA BytesJoin ==
  ASSUME NEW m \in Nat, NEW n \in Nat, m <= n
  PROVE  Bytes(0, m) \o Bytes(m, n) = Bytes(0, n)
<1> DEFINE a == Bytes(0, m)
           b == Bytes(m, n)
<1>1. a \in Seq(Nat) /\ Len(a) = m /\ \A i \in 1..m : a[i] = i
  BY DEF Bytes
<1>2. b \in Seq(Nat) /\ Len(b) = n - m /\ \A i \in 1..(n - m) : b[i] = m + i
  BY DEF Bytes
<1> HIDE DEF a, b
<1>3. /\ a \o b \in Seq(Nat) /\ Len(a \o b) = n
      /\ \A i \in 1..n : (a \o b)[i] = i
  BY <1>1, <1>2, ConcatProperties
<1>4. Bytes(0, n) \in Seq(Nat) /\ Len(Bytes(0, n)) = n /\ \A i \in 1..n : Bytes(0, n)[i] = i
  BY DEF Bytes
<1> QED
  BY <1>3, <1>4, SeqEqual DEF a, b

LEMMA BytesType ==
  ASSUME NEW n \in 0..MaxBytes, MaxBytes \in Nat
  PROVE  Bytes(0, n) \in Seq(1..MaxBytes)
BY DEF Bytes

\* A file that grows leaves cursors sound.
LEMMA SoundKept ==
  ASSUME Log!TypeOK, Log!TypeOK', process'.written >= process.written, NEW c, Sound(c)
  PROVE  Sound(c)' 
BY DEF Sound, Log!TypeOK

LEMMA LogInit == Log!Init => LogInv
<1> SUFFICES ASSUME Log!Init
             PROVE  LogInv
  OBVIOUS
<1> USE ConsoleAssumption DEF Log!LogAssumption
<1>1. Log!TypeOK
  BY DEF Log!Init, Log!TypeOK, Log!Idle, Log!Start, Log!Statuses
<1>2. CardInv
  BY DEF Log!Init, Log!Start, CardInv, Sound, Whole, Bytes
<1>3. RequestedInv /\ SaidInv
  BY DEF Log!Init, Log!Idle, RequestedInv, SaidInv
<1> QED
  BY <1>1, <1>2, <1>3 DEF LogInv

\* The process writes or ends; the page and its request only read.
LEMMA ProcessKeeps ==
  ASSUME LogInv, UNCHANGED <<logRequest, detail, card>>,
         process' \in [written : 0..MaxBytes, alive : BOOLEAN, held : BOOLEAN,
                       record : Log!Statuses],
         process'.written >= process.written,
         Over => process'.record = "over" /\ process'.written = process.written
  PROVE  LogInv'
<1> USE DEF LogInv
<1>1. Log!TypeOK'
  BY DEF Log!TypeOK
<1>2. \A c : Sound(c) => Sound(c)'
  BY <1>1, SoundKept
<1>3. Over => Over'
  BY DEF Over
<1>4. CardInv'
  BY <1>2, <1>3 DEF CardInv, Over, Whole
<1>5. RequestedInv'
  <2>1. process.written \in Nat /\ process'.written \in Nat
    BY DEF Log!TypeOK
  <2>2. logRequest.step = "read" =>
          logRequest.to \in logRequest.cursor.offset..process'.written
    BY <2>1 DEF RequestedInv, CardInv, Sound
  <2> QED
    BY <1>2, <1>3, <2>2 DEF RequestedInv, Over, Whole
<1>6. SaidInv'
  BY <1>3 DEF SaidInv
<1> QED
  BY <1>1, <1>4, <1>5, <1>6

\* What an answer contains, in terms of the cursors before and after it.
LEMMA AnswerLeads ==
  ASSUME LogInv, logRequest.step = "read"
  PROVE  LET a == Log!AnswerOf IN
         /\ Sound(a.cursor) /\ Whole(logRequest.cursor) <= Whole(a.cursor)
         /\ a.output = Bytes(Whole(logRequest.cursor), Whole(a.cursor))
         /\ a.status = logRequest.listed /\ a.more = logRequest.truncated
         /\ a.status = "over" /\ ~a.more => Whole(a.cursor) = process.written
<1> DEFINE r == logRequest
           held == IF ~r.truncated /\ Log!Ended THEN 0 ELSE Log!Unfinished
           first == r.cursor.offset - r.cursor.pending
           a == Log!AnswerOf
<1>1. /\ r.cursor.offset \in Nat /\ r.cursor.pending \in 0..1
      /\ r.to \in r.cursor.offset..process.written /\ process.written \in Nat
      /\ r.cursor.pending = 1 => r.cursor.offset % 2 = 1
  BY DEF LogInv, RequestedInv, CardInv, Sound, Log!TypeOK
<1>2. held \in 0..1 /\ (held = 1 => r.to % 2 = 1)
  BY <1>1 DEF Log!Unfinished
<1>3. first \in Nat /\ first <= r.to - held
  <2>1. held = 1 => r.to # r.cursor.offset \/ r.cursor.pending = 1
    BY <1>1 DEF Log!Unfinished
  <2>2. first \in Nat
    BY <1>1
  <2> QED
    BY <1>1, <1>2, <2>1, <2>2
<1>4. /\ a.output = [i \in 1..(r.to - held) - first |-> first + i]
      /\ a.cursor = [offset |-> r.to, pending |-> held]
      /\ a.more = r.truncated /\ a.status = r.listed
  BY DEF Log!AnswerOf
<1>5. r.listed = "over" /\ ~r.truncated => held = 0 /\ r.to = process.written
  BY DEF LogInv, RequestedInv, Log!Ended
<1> HIDE DEF held, a
<1>6. Whole(a.cursor) = r.to - held /\ Whole(r.cursor) = first
  BY <1>4 DEF Whole
<1>7. Sound(a.cursor)
  BY <1>1, <1>2, <1>4 DEF Sound
<1>8. a.output = Bytes(Whole(r.cursor), Whole(a.cursor))
  BY <1>4, <1>6 DEF Bytes
<1> QED
  BY <1>1, <1>3, <1>4, <1>5, <1>6, <1>7, <1>8 DEF a

LEMMA LogInvStep ==
  ASSUME LogInv, [Log!Next]_(Log!logVars)
  PROVE  LogInv'
<1> USE ConsoleAssumption DEF LogInv, Log!LogAssumption
<1>1. ASSUME Log!Write \/ Log!Exit \/ Log!Finish \/ Log!Restart \/ Log!Lose
      PROVE  LogInv'
  <2>1. process \in [written : 0..MaxBytes, alive : BOOLEAN, held : BOOLEAN,
                     record : Log!Statuses]
    BY DEF Log!TypeOK
  <2>2. UNCHANGED <<logRequest, detail, card>>
    BY <1>1 DEF Log!Write, Log!Exit, Log!Finish, Log!Restart, Log!Lose
  <2>3. /\ process' \in [written : 0..MaxBytes, alive : BOOLEAN, held : BOOLEAN,
                         record : Log!Statuses]
        /\ process'.written >= process.written
        /\ Over => process'.record = "over" /\ process'.written = process.written
    <3>1. CASE Log!Write
      <4>1. process.record = "running" /\ process.written + 1 \in 0..MaxBytes
        BY <2>1, <3>1 DEF Log!Write
      <4>2. process' = [written |-> process.written + 1, alive |-> process.alive,
                        held |-> process.held, record |-> process.record]
        BY <2>1, <3>1 DEF Log!Write
      <4> QED
        BY <2>1, <4>1, <4>2 DEF Over
    <3>2. CASE Log!Exit
      <4>1. process' = [written |-> process.written, alive |-> FALSE,
                        held |-> process.held, record |-> process.record]
        BY <2>1, <3>2 DEF Log!Exit
      <4> QED
        BY <2>1, <4>1 DEF Over
    <3>3. CASE Log!Finish \/ Log!Lose
      <4>1. \E held \in BOOLEAN :
              process' = [written |-> process.written, alive |-> process.alive,
                          held |-> held, record |-> "over"]
        BY <2>1, <3>3 DEF Log!Finish, Log!Lose
      <4> QED
        BY <2>1, <4>1 DEF Over, Log!Statuses
    <3>4. CASE Log!Restart
      <4>1. process' = [written |-> process.written, alive |-> process.alive,
                        held |-> FALSE, record |-> process.record]
        BY <2>1, <3>4 DEF Log!Restart
      <4> QED
        BY <2>1, <4>1 DEF Over
    <3> QED
      BY <1>1, <3>1, <3>2, <3>3, <3>4
  <2> QED
    BY <2>2, <2>3, ProcessKeeps

\* From here on the process stays as it is.
<1>2. ASSUME UNCHANGED process
      PROVE  (\A c : Sound(c)' <=> Sound(c)) /\ (Over' <=> Over)
  BY <1>2 DEF Sound, Over
<1>3. ASSUME UNCHANGED <<process, detail, card>>, RequestedInv', SaidInv',
             logRequest'.step \in {"idle", "asked", "listed", "found", "read", "answered"}
      PROVE  LogInv'
  BY <1>2, <1>3 DEF Log!TypeOK, CardInv
<1>4. ASSUME Log!Ask
      PROVE  LogInv'
  <2>1. /\ UNCHANGED <<process, detail, card>>
        /\ logRequest'.step = "asked" /\ logRequest'.cursor = card.cursor
    BY <1>4 DEF Log!Ask
  <2> QED
    BY <1>2, <1>3, <2>1 DEF RequestedInv, SaidInv
<1>5. ASSUME Log!List
      PROVE  LogInv'
  <2>1. /\ UNCHANGED <<process, detail, card>>
        /\ logRequest.step = "asked"
        /\ logRequest'.step = "listed" /\ logRequest'.cursor = logRequest.cursor
        /\ logRequest'.listed = process.record /\ process.record \in Log!Statuses
    BY <1>5 DEF Log!List, Log!TypeOK
  <2>2. RequestedInv' /\ SaidInv'
    BY <1>2, <2>1 DEF RequestedInv, SaidInv, Over
  <2> QED
    BY <1>3, <2>1, <2>2
<1>6. ASSUME Log!Lookup
      PROVE  LogInv'
  <2>1. /\ UNCHANGED <<process, detail, card>>
        /\ logRequest.step = "listed"
        /\ logRequest'.step = "found" /\ logRequest'.cursor = logRequest.cursor
        /\ logRequest'.listed = logRequest.listed
        /\ logRequest'.record = process.record /\ process.record \in Log!Statuses
    BY <1>6 DEF Log!Lookup, Log!TypeOK
  <2>2. RequestedInv' /\ SaidInv'
    BY <1>2, <2>1 DEF RequestedInv, SaidInv, Over
  <2> QED
    BY <1>3, <2>1, <2>2
<1>7. ASSUME Log!Read
      PROVE  LogInv'
  <2>1. /\ UNCHANGED <<process, detail, card>>
        /\ logRequest.step = "found"
        /\ logRequest'.step = "read" /\ logRequest'.cursor = logRequest.cursor
        /\ logRequest'.listed = logRequest.listed /\ logRequest'.record = logRequest.record
        /\ logRequest'.to = IF logRequest.cursor.offset + PageBytes < process.written
                            THEN logRequest.cursor.offset + PageBytes ELSE process.written
        /\ logRequest'.truncated
             = (logRequest.cursor.offset + PageBytes < process.written)
    BY <1>7 DEF Log!Read
  <2>2. logRequest.cursor.offset \in 0..process.written /\ process.written \in Nat
    BY <2>1 DEF RequestedInv, CardInv, Sound, Log!TypeOK
  <2>3. /\ logRequest'.to \in logRequest'.cursor.offset..process.written
        /\ logRequest'.truncated \in BOOLEAN
        /\ ~logRequest'.truncated => logRequest'.to = process.written
    <3>1. CASE logRequest.cursor.offset + PageBytes < process.written
      <4>1. logRequest'.truncated = TRUE
        BY <2>1, <3>1
      <4>2. logRequest'.to \in logRequest'.cursor.offset..process.written
        BY <2>1, <2>2, <3>1
      <4> QED
        BY <4>1, <4>2
    <3>2. CASE ~(logRequest.cursor.offset + PageBytes < process.written)
      <4>1. ~logRequest'.truncated
        BY <2>1, <3>2, Zenon
      <4>2. logRequest'.to = process.written
        BY <2>1, <3>2
      <4> QED
        BY <2>1, <2>2, <4>1, <4>2
    <3> QED
      BY <3>1, <3>2
  <2>4. RequestedInv' /\ SaidInv'
    BY <1>2, <2>1, <2>3 DEF RequestedInv, SaidInv
  <2> QED
    BY <1>3, <2>1, <2>4
<1>8. ASSUME Log!Answer
      PROVE  LogInv'
  <2> PICK a : a = Log!AnswerOf
    OBVIOUS
  <2>1. /\ UNCHANGED <<process, detail, card>>
        /\ logRequest.step = "read"
        /\ logRequest'.step = "answered" /\ logRequest'.cursor = logRequest.cursor
        /\ logRequest'.answer = a
    BY <1>8 DEF Log!Answer
  <2>2. /\ Sound(a.cursor) /\ Whole(logRequest.cursor) <= Whole(a.cursor)
        /\ a.output = Bytes(Whole(logRequest.cursor), Whole(a.cursor))
        /\ a.status = logRequest.listed /\ a.more = logRequest.truncated
        /\ a.status = "over" /\ ~a.more => Whole(a.cursor) = process.written
    BY <2>1, AnswerLeads
  <2>3. RequestedInv'
    BY <1>2, <2>1, <2>2 DEF RequestedInv, Whole
  <2>4. SaidInv'
    BY <1>2, <2>1, <2>2 DEF SaidInv
  <2> QED
    BY <1>3, <2>1, <2>3, <2>4
<1>9. ASSUME Log!Show
      PROVE  LogInv'
  <2> PICK a : a = logRequest.answer
    OBVIOUS
  <2>1. /\ UNCHANGED <<process, detail>> /\ logRequest.step = "answered"
        /\ logRequest'.step = "idle" /\ logRequest.cursor = card.cursor
    BY <1>9 DEF Log!Show, Log!Idle, RequestedInv
  <2>2. CASE UNCHANGED card
    BY <1>2, <1>3, <2>1, <2>2 DEF RequestedInv, SaidInv
  <2>3. CASE card' = [loaded |-> TRUE, shown |-> card.shown \o a.output, cursor |-> a.cursor,
                      status |-> IF card.loaded THEN a.status ELSE Log!AtLoad(a.status),
                      badge |-> a.status, said |-> IF card.loaded THEN a.status ELSE None,
                      stopped |-> a.status # "running" /\ ~a.more]
    <3>1. /\ Sound(a.cursor) /\ Whole(card.cursor) <= Whole(a.cursor)
          /\ a.output = Bytes(Whole(card.cursor), Whole(a.cursor))
          /\ a.status \in Log!Statuses /\ a.more \in BOOLEAN
          /\ a.status = "over" => Over
          /\ a.status = "over" /\ ~a.more => Whole(a.cursor) = process.written
      BY <2>1 DEF RequestedInv
    <3>2. /\ Whole(card.cursor) \in Nat /\ Whole(a.cursor) \in 0..MaxBytes
          /\ process.written \in 0..MaxBytes
      <4>1. process.written \in 0..MaxBytes
        BY DEF Log!TypeOK
      <4>2. \A c : Sound(c) => Whole(c) \in 0..process.written
        BY <4>1 DEF Sound, Whole
      <4> QED
        BY <3>1, <4>1, <4>2 DEF CardInv
    <3>3. card'.shown = Bytes(0, Whole(a.cursor))
      <4>1. card'.shown = Bytes(0, Whole(card.cursor)) \o Bytes(Whole(card.cursor), Whole(a.cursor))
        <5>1. card'.shown = card.shown \o a.output
          BY <2>3
        <5>2. card.shown = Bytes(0, Whole(card.cursor))
          BY DEF CardInv
        <5>3. a.output = Bytes(Whole(card.cursor), Whole(a.cursor))
          BY <3>1
        <5> QED
          BY <5>1, <5>2, <5>3, Zenon
      <4>2. Whole(a.cursor) \in Nat /\ Whole(card.cursor) \in Nat
            /\ Whole(card.cursor) <= Whole(a.cursor)
        BY <3>1, <3>2
      <4> QED
        <5> HIDE DEF LogInv
        <5> QED
          BY <4>1, <4>2, BytesJoin, ZenonT(30)
    <3>4. card'.shown \in Seq(1..MaxBytes)
      BY <3>2, <3>3, BytesType
    <3>5. a.cursor \in [offset : 0..MaxBytes, pending : 0..1]
      BY <3>1, <3>2 DEF Sound
    <3>6. Log!TypeOK'
      <4>1. card' \in [loaded : BOOLEAN, shown : Seq(1..MaxBytes),
                       cursor : [offset : 0..MaxBytes, pending : 0..1],
                       status : Log!Statuses \cup {None}, badge : Log!Statuses \cup {None},
                       said : Log!Statuses \cup {None}, stopped : BOOLEAN]
        BY <2>3, <3>1, <3>4, <3>5 DEF Log!AtLoad, Log!Statuses
      <4> QED
        BY <2>1, <4>1 DEF Log!TypeOK
    <3>7. CardInv'
      <4>1. card'.cursor = a.cursor /\ (card'.stopped => a.status = "over" /\ ~a.more)
        BY <2>3, <3>1 DEF Log!Statuses
      <4> QED
        BY <1>2, <2>1, <3>1, <3>3, <4>1 DEF CardInv, Whole
    <3>8. RequestedInv'
      BY <2>1 DEF RequestedInv
    <3>9. SaidInv'
      <4>1. card'.loaded /\ card'.badge = a.status /\ (card'.said = "over" => a.status = "over")
        BY <2>3
      <4> QED
        BY <1>2, <2>1, <3>1, <4>1 DEF SaidInv
    <3> QED
      BY <3>6, <3>7, <3>8, <3>9
  <2> QED
    BY <1>9, <2>2, <2>3 DEF Log!Show
<1>10. ASSUME Log!ShowWithoutLog
       PROVE  LogInv'
  <2>1. /\ UNCHANGED <<process, detail>> /\ logRequest.step = "listed"
        /\ logRequest'.step = "idle" /\ ~card.loaded /\ logRequest.listed \in Log!Statuses
    BY <1>10 DEF Log!ShowWithoutLog, Log!Idle, RequestedInv
  <2>2. card' = [card EXCEPT !.loaded = TRUE, !.status = Log!AtLoad(logRequest.listed),
                             !.badge = logRequest.listed]
    BY <1>10 DEF Log!ShowWithoutLog
  <2>3. /\ card'.cursor = card.cursor /\ card'.shown = card.shown
        /\ card'.stopped = card.stopped /\ card'.said = card.said
    BY <2>2 DEF Log!TypeOK
  <2>4. Log!TypeOK'
    BY <2>1, <2>2 DEF Log!TypeOK, Log!AtLoad
  <2>5. CardInv'
    BY <1>2, <2>1, <2>3 DEF CardInv
  <2>6. RequestedInv' /\ SaidInv'
    BY <2>1, <2>3 DEF RequestedInv, SaidInv
  <2> QED
    BY <2>4, <2>5, <2>6
<1>11. ASSUME Log!GiveUp
       PROVE  LogInv'
  <2>1. UNCHANGED <<process, detail, card>> /\ logRequest'.step = "idle"
    BY <1>11 DEF Log!GiveUp, Log!Idle
  <2> QED
    BY <1>2, <1>3, <2>1 DEF RequestedInv, SaidInv
<1>12. ASSUME Log!AskDetail \/ Log!DropDetail
       PROVE  LogInv'
  <2>1. UNCHANGED <<process, logRequest, card>> /\ detail' \in Log!Statuses \cup {None}
    BY <1>12 DEF Log!AskDetail, Log!DropDetail, Log!TypeOK
  <2> QED
    BY <1>2, <2>1 DEF Log!TypeOK, CardInv, RequestedInv, SaidInv
<1>13. ASSUME Log!Merge
       PROVE  LogInv'
  <2>1. /\ UNCHANGED <<process, logRequest>> /\ detail' = None
        /\ card' = [card EXCEPT !.badge = IF card.said # None THEN card.said ELSE detail]
    BY <1>13 DEF Log!Merge
  <2>2. /\ card'.cursor = card.cursor /\ card'.shown = card.shown
        /\ card'.stopped = card.stopped /\ card'.said = card.said
        /\ card'.loaded = card.loaded
        /\ card.said = "over" => card'.badge = "over"
    BY <2>1 DEF Log!TypeOK
  <2>3. Log!TypeOK'
    BY <2>1 DEF Log!TypeOK
  <2>4. CardInv'
    BY <1>2, <2>1, <2>2 DEF CardInv
  <2>5. RequestedInv' /\ SaidInv'
    BY <1>2, <2>1, <2>2 DEF RequestedInv, SaidInv
  <2> QED
    BY <2>3, <2>4, <2>5
<1>14. CASE UNCHANGED Log!logVars
  BY <1>2, <1>14 DEF Log!logVars, Log!TypeOK, CardInv, RequestedInv, SaidInv
<1> QED
  BY <1>1, <1>4, <1>5, <1>6, <1>7, <1>8, <1>9, <1>10, <1>11, <1>12, <1>13, <1>14 DEF Log!Next

\* A page that stopped asking has shown every byte of the log, once and in order: the
\* status of its last answer was read before the file, and what was left of a character
\* was given out with it.
THEOREM LogIsShown == Log!Spec => []TailIsShown
<1>1. LogInv => TailIsShown
  <2> SUFFICES ASSUME LogInv, card.stopped
               PROVE  card.shown = [i \in 1..process.written |-> i]
    BY DEF TailIsShown, Log!TailIsShown
  <2>1. card.shown = Bytes(0, process.written) /\ process.written \in Nat
    BY DEF LogInv, CardInv, Log!TypeOK
  <2> QED
    BY <2>1 DEF Bytes
<1> QED
  BY <1>1, LogInit, LogInvStep, PTL DEF Log!Spec

\* Once a card was told by the log that the process is over, it says so for good: later
\* answers were listed later, and details give way to what the log said.
THEOREM OverIsFinal == Log!Spec => OverStaysOver
<1>1. LogInv /\ [Log!Next]_(Log!logVars)
        => [card.said = "over" => card'.badge = "over"]_(Log!logVars)
  <2> SUFFICES ASSUME LogInv, Log!Next, card.said = "over"
               PROVE  card'.badge = "over"
    OBVIOUS
  <2>1. card.badge = "over" /\ card.loaded
        /\ (logRequest.step = "answered" => logRequest.answer.status = "over")
    BY DEF LogInv, SaidInv
  <2>2. CASE UNCHANGED card
    BY <2>1, <2>2
  <2>3. CASE Log!Show
    BY <2>1, <2>3 DEF Log!Show
  <2>4. CASE Log!Merge
    BY <2>4, ConsoleAssumption DEF Log!Merge, Log!LogAssumption, LogInv, Log!TypeOK
  <2> QED
    BY <2>1, <2>2, <2>3, <2>4
       DEF Log!Next, Log!Write, Log!Exit, Log!Finish, Log!Restart, Log!Lose, Log!Ask, Log!List,
           Log!Lookup, Log!Read, Log!Answer, Log!ShowWithoutLog, Log!GiveUp, Log!AskDetail,
           Log!DropDetail
<1> QED
  BY <1>1, LogInit, LogInvStep, PTL DEF Log!Spec, OverStaysOver, Log!OverStaysOver

-----------------------------------------------------------------------------
(* The pages and their snapshots.                                            *)

Revision == [fields : Live!Contents, number : 0..MaxNumbers]

\* What a page holds is what the server had at one moment.
PageInv ==
  \A p \in Pages :
    LET g == page[p] IN
    /\ g.at \in 0..Len(past)
    /\ g.revision # None =>
         /\ g.revision \in Revision /\ g.at >= 1
         /\ g.revision.fields = past[g.at] /\ g.model = past[g.at]

\* An answer takes a page from what it holds, g, to the contents of one moment.
Fits(g, a, fields) ==
  \/ a.kind = "unchanged" /\ g.revision # None /\ g.model = fields
  \/ \E base \in {None, g.revision}, revision \in Revision :
       revision.fields = fields /\ a = Live!Patch(base, revision)

\* A handler a page waits for compares with what that page still holds, and has
\* collected contents no older than what the page shows.
HandlerInv ==
  /\ \A h \in Handlers :
       /\ handler[h].step \in {"free", "asked", "collected", "answered"}
       /\ handler[h].step \in {"collected", "answered"} => handler[h].at \in 1..Len(past)
  /\ \A p \in Pages : page[p].waits \in Handlers =>
       LET w == handler[page[p].waits] IN
       /\ w.step # "free"
       /\ w.step \in {"asked", "collected"} => w.since = page[p].revision
       /\ w.step \in {"collected", "answered"} => w.at >= page[p].at
       /\ w.step = "answered" => Fits(page[p], w.answer, past[w.at])
  /\ \A p, q \in Pages : page[p].waits = page[q].waits /\ page[p].waits # None => p = q

LiveInv ==
  /\ past \in Seq(Live!Contents) /\ Len(past) >= 1
  /\ numbers \in 0..MaxNumbers
  /\ page \in [Pages -> [revision : Revision \cup {None}, model : Live!Contents,
                         at : Nat, waits : Handlers \cup {None}]]
  /\ DOMAIN handler = Handlers
  /\ PageInv
  /\ HandlerInv

\* The fields of a patch, over those of its base, are those of its revision.
LEMMA PatchApplies ==
  ASSUME NEW model, NEW base, NEW revision \in Revision,
         model \in Live!Contents, base # None => base.fields = model
  PROVE  LET patch == Live!Patch(base, revision)
             m == IF patch.base = None THEN Live!Nothing ELSE model
         IN  [f \in Fields |-> IF f \in DOMAIN patch.changes THEN patch.changes[f]
                               ELSE IF f \in patch.removed THEN None ELSE m[f]]
               = revision.fields
<1> DEFINE patch == Live!Patch(base, revision)
           changed == {g \in Fields : revision.fields[g] # None
                         /\ (base = None \/ base.fields[g] # revision.fields[g])}
           m == IF patch.base = None THEN Live!Nothing ELSE model
           result == [f \in Fields |->
                        IF f \in DOMAIN patch.changes THEN patch.changes[f]
                        ELSE IF f \in patch.removed THEN None ELSE m[f]]
<1>1. /\ patch.base = base
      /\ patch.changes = [f \in changed |-> revision.fields[f]]
      /\ patch.removed = IF base = None THEN {}
                         ELSE {f \in Fields : base.fields[f] # None /\ revision.fields[f] = None}
  BY DEF Live!Patch
<1>2. DOMAIN patch.changes = changed /\ \A f \in changed : patch.changes[f] = revision.fields[f]
  BY <1>1
<1>3. revision.fields \in Live!Contents
  BY DEF Revision
<1>4. ASSUME NEW f \in Fields
      PROVE  result[f] = revision.fields[f]
  <2>1. result[f] = IF f \in changed THEN revision.fields[f]
                    ELSE IF f \in patch.removed THEN None ELSE m[f]
    BY <1>2
  <2>2. CASE f \in changed
    BY <2>1, <2>2
  <2>3. CASE f \notin changed /\ base = None
    BY <1>1, <2>1, <2>3 DEF Live!Nothing
  <2>4. CASE f \notin changed /\ base # None
    <3>1. m[f] = base.fields[f]
      BY <1>1, <2>4
    <3>2. f \in patch.removed <=> base.fields[f] # None /\ revision.fields[f] = None
      BY <1>1, <2>4
    <3> QED
      BY <2>1, <2>4, <3>1, <3>2
  <2> QED
    BY <2>2, <2>3, <2>4
<1> QED
  BY <1>3, <1>4 DEF Live!Contents

LEMMA LiveBounds ==
  /\ MaxKept \in Nat /\ MaxContents \in Nat /\ MaxNumbers \in Nat
  /\ None \notin Revision /\ None \notin Handlers
BY ConsoleAssumption DEF Live!LiveFeedsAssumption, Revision

LEMMA LiveInit == Live!Init => LiveInv
<1> SUFFICES ASSUME Live!Init
             PROVE  LiveInv
  OBVIOUS
<1>1. PICK c \in Live!Contents : past = <<c>>
  BY DEF Live!Init
<1>2. past \in Seq(Live!Contents) /\ Len(past) = 1
  BY <1>1
<1>3. /\ page = [p \in Pages |-> [revision |-> None, model |-> Live!Nothing, at |-> 0,
                                  waits |-> None]]
      /\ handler = [h \in Handlers |-> [step |-> "free"]] /\ numbers = 0
  BY DEF Live!Init, Live!NewPage, Live!Free
<1>4. Live!Nothing \in Live!Contents
  BY DEF Live!Nothing, Live!Contents
<1>5. PageInv
  BY <1>2, <1>3 DEF PageInv
<1>6. HandlerInv
  BY <1>3, LiveBounds DEF HandlerInv
<1> QED
  BY <1>2, <1>3, <1>4, <1>5, <1>6, LiveBounds DEF LiveInv

\* A handler goes on; the contents and the pages stay as they are.
LEMMA HandlerMoves ==
  ASSUME LiveInv, NEW h \in Handlers, NEW w, UNCHANGED <<past, page>>, numbers' \in 0..MaxNumbers,
         handler' = [handler EXCEPT ![h] = w],
         w.step \in {"free", "asked", "collected", "answered"},
         w.step \in {"collected", "answered"} => w.at \in 1..Len(past),
         \A p \in Pages : page[p].waits = h =>
           /\ w.step # "free"
           /\ w.step \in {"asked", "collected"} => w.since = page[p].revision
           /\ w.step \in {"collected", "answered"} => w.at >= page[p].at
           /\ w.step = "answered" => Fits(page[p], w.answer, past[w.at])
  PROVE  LiveInv'
<1>1. /\ DOMAIN handler' = Handlers
      /\ handler'[h] = w /\ \A g \in Handlers \ {h} : handler'[g] = handler[g]
  BY DEF LiveInv
<1>3. PageInv'
  BY DEF LiveInv, PageInv
<1>4. HandlerInv'
  <2>1. \A g \in Handlers :
          /\ handler'[g].step \in {"free", "asked", "collected", "answered"}
          /\ handler'[g].step \in {"collected", "answered"} => handler'[g].at \in 1..Len(past')
    BY <1>1 DEF LiveInv, HandlerInv
  <2>2. ASSUME NEW p \in Pages, page'[p].waits \in Handlers
        PROVE  LET v == handler'[page'[p].waits] IN
               /\ v.step # "free"
               /\ v.step \in {"asked", "collected"} => v.since = page'[p].revision
               /\ v.step \in {"collected", "answered"} => v.at >= page'[p].at
               /\ v.step = "answered" => Fits(page'[p], v.answer, past'[v.at])
    <3>1. CASE page[p].waits = h
      BY <1>1, <2>2, <3>1
    <3>2. CASE page[p].waits # h
      BY <1>1, <2>2, <3>2 DEF LiveInv, HandlerInv
    <3> QED
      BY <3>1, <3>2
  <2>3. \A p, q \in Pages : page'[p].waits = page'[q].waits /\ page'[p].waits # None => p = q
    BY DEF LiveInv, HandlerInv
  <2> QED
    BY <2>1, <2>2, <2>3 DEF HandlerInv
<1> QED
  BY <1>1, <1>3, <1>4 DEF LiveInv

\* A page that was told something holds what it is told, and waits no more.
LEMMA PageMoves ==
  ASSUME LiveInv, NEW p \in Pages, NEW g, UNCHANGED <<past, numbers>>,
         page' = [page EXCEPT ![p] = g],
         g \in [revision : Revision \cup {None}, model : Live!Contents, at : Nat, waits : {None}],
         g.at <= Len(past),
         g.revision # None => g.at >= 1 /\ g.revision.fields = past[g.at] /\ g.model = past[g.at],
         \/ UNCHANGED handler
         \/ page[p].waits \in Handlers
            /\ handler' = [handler EXCEPT ![page[p].waits] = Live!Free]
  PROVE  LiveInv'
<1>1. /\ page' \in [Pages -> [revision : Revision \cup {None}, model : Live!Contents,
                              at : Nat, waits : Handlers \cup {None}]]
      /\ page'[p] = g /\ \A q \in Pages \ {p} : page'[q] = page[q]
  BY DEF LiveInv
<1>2. /\ DOMAIN handler' = Handlers
      /\ \A h \in Handlers : \/ handler'[h] = handler[h]
                             \/ h = page[p].waits /\ handler'[h] = [step |-> "free"]
  <2>0. DOMAIN handler = Handlers
    BY DEF LiveInv
  <2>1. CASE UNCHANGED handler
    BY <2>0, <2>1
  <2>2. CASE ~UNCHANGED handler
    <3>1. PICK k \in Handlers :
            k = page[p].waits /\ handler' = [handler EXCEPT ![k] = [step |-> "free"]]
      BY <2>2 DEF Live!Free
    <3>2. DOMAIN handler' = Handlers
      BY <2>0, <3>1
    <3>3. \A h \in Handlers : \/ handler'[h] = handler[h]
                              \/ h = k /\ handler'[h] = [step |-> "free"]
      BY <2>0, <3>1
    <3> QED
      BY <3>1, <3>2, <3>3
  <2> QED
    BY <2>1, <2>2
<1>3. PageInv'
  BY <1>1 DEF LiveInv, PageInv
<1>5. HandlerInv'
  <2>1. \A h \in Handlers :
          /\ handler'[h].step \in {"free", "asked", "collected", "answered"}
          /\ handler'[h].step \in {"collected", "answered"} => handler'[h].at \in 1..Len(past')
    BY <1>2 DEF LiveInv, HandlerInv
  <2>2. ASSUME NEW q \in Pages, page'[q].waits \in Handlers
        PROVE  LET v == handler'[page'[q].waits] IN
               /\ v.step # "free"
               /\ v.step \in {"asked", "collected"} => v.since = page'[q].revision
               /\ v.step \in {"collected", "answered"} => v.at >= page'[q].at
               /\ v.step = "answered" => Fits(page'[q], v.answer, past'[v.at])
    <3>1. q # p
      BY <1>1, <2>2, LiveBounds
    <3>2. page'[q] = page[q] /\ page[q].waits # None /\ page[q].waits # page[p].waits
      BY <1>1, <2>2, <3>1, LiveBounds DEF LiveInv, HandlerInv
    <3>3. handler'[page'[q].waits] = handler[page[q].waits]
      BY <1>2, <2>2, <3>2
    <3> QED
      BY <2>2, <3>1, <3>2, <3>3 DEF LiveInv, HandlerInv
  <2>3. \A q, r \in Pages : page'[q].waits = page'[r].waits /\ page'[q].waits # None => q = r
    BY <1>1 DEF LiveInv, HandlerInv
  <2> QED
    BY <2>1, <2>2, <2>3 DEF HandlerInv
<1> QED
  BY <1>1, <1>2, <1>3, <1>5 DEF LiveInv

\* What both servers answer fits the page that asked.
LEMMA AnswerFits ==
  ASSUME LiveInv, NEW h \in Handlers, Live!Send(h) \/ Live!Respond(h)
  PROVE  \E answer :
           /\ handler' = [handler EXCEPT ![h] = [step |-> "answered", at |-> handler[h].at,
                                                 answer |-> answer]]
           /\ \A p \in Pages : page[p].waits = h => Fits(page[p], answer, past[handler[h].at])
           /\ numbers' \in 0..MaxNumbers
<1> DEFINE since == handler[h].since
           fields == past[handler[h].at]
           base == IF since # None /\ Live!Keeps(since) THEN since ELSE None
<1>1. handler[h].step = "collected" /\ fields \in Live!Contents
  <2>1. handler[h].step = "collected"
    BY DEF Live!Send, Live!Respond
  <2> QED
    BY <2>1, ElementOfSeq DEF LiveInv, HandlerInv
<1>2. \A p \in Pages : page[p].waits = h => since = page[p].revision
  BY <1>1 DEF LiveInv, HandlerInv
<1>3. \A p \in Pages : page[p].revision # None =>
        page[p].revision.fields = page[p].model
  BY DEF LiveInv, PageInv
<1>4. None \notin Revision /\ MaxNumbers \in Nat
  BY LiveBounds
<1>5. ASSUME NEW answer, NEW revision \in Revision, revision.fields = fields,
             \/ answer = Live!Unchanged /\ since # None /\ since.fields = fields
             \/ answer = Live!Patch(base, revision)
      PROVE  \A p \in Pages : page[p].waits = h => Fits(page[p], answer, fields)
  <2> SUFFICES ASSUME NEW p \in Pages, page[p].waits = h
               PROVE  Fits(page[p], answer, fields)
    OBVIOUS
  <2>1. CASE answer = Live!Unchanged /\ since # None /\ since.fields = fields
    BY <1>2, <1>3, <2>1 DEF Fits, Live!Unchanged
  <2>2. CASE answer = Live!Patch(base, revision)
    <3>1. base \in {None, page[p].revision}
      BY <1>2
    <3> HIDE DEF base, since, fields
    <3> QED
      BY <1>5, <2>2, <3>1 DEF Fits
  <2> QED
    BY <1>5, <2>1, <2>2
<1>6. CASE Live!Send(h)
  <2> DEFINE revision == [fields |-> fields, number |-> 0]
             answer == IF since = revision THEN Live!Unchanged ELSE Live!Patch(base, revision)
  <2>1. revision \in Revision /\ revision.fields = fields
    BY <1>1, <1>4 DEF Revision
  <2>2. /\ handler' = [handler EXCEPT ![h] = [step |-> "answered", at |-> handler[h].at,
                                              answer |-> answer]]
        /\ numbers' = numbers
    BY <1>6 DEF Live!Send, Live!Answer
  <2>3. \A p \in Pages : page[p].waits = h => Fits(page[p], answer, fields)
    <3>1. \/ answer = Live!Unchanged /\ since # None /\ since.fields = fields
          \/ answer = Live!Patch(base, revision)
      BY <1>4, <2>1
    <3> HIDE DEF answer, revision
    <3> QED
      BY <1>5, <2>1, <3>1
  <2> HIDE DEF answer
  <2> QED
    BY <2>2, <2>3 DEF LiveInv
<1>7. CASE Live!Respond(h)
  <2> DEFINE latest == \E i \in 1..Len(kept) :
                         kept[i].number = numbers /\ kept[i].fields = fields
             revision == [fields |-> fields,
                          number |-> IF latest THEN numbers ELSE numbers + 1]
  <2>2. CASE base # None /\ base.fields = fields
    <3>1. /\ handler' = [handler EXCEPT ![h] = [step |-> "answered", at |-> handler[h].at,
                                                answer |-> Live!Unchanged]]
          /\ numbers' = numbers
      BY <1>7, <2>2 DEF Live!Respond, Live!Answer
    <3>2. since # None /\ since.fields = fields
      BY <2>2
    <3>3. [fields |-> fields, number |-> 0] \in Revision
      BY <1>1, <1>4 DEF Revision
    <3>4. \A p \in Pages : page[p].waits = h => Fits(page[p], Live!Unchanged, fields)
      BY <1>5, <3>2, <3>3
    <3> QED
      BY <3>1, <3>4 DEF LiveInv
  <2>3. CASE ~(base # None /\ base.fields = fields)
    <3>1. /\ handler' = [handler EXCEPT ![h] = [step |-> "answered", at |-> handler[h].at,
                                                answer |-> Live!Patch(base, revision)]]
          /\ numbers' = revision.number /\ revision.number <= MaxNumbers
      BY <1>7, <2>3 DEF Live!Respond, Live!Answer
    <3>2. revision.number \in 0..MaxNumbers /\ revision.fields = fields
      BY <1>4, <3>1 DEF LiveInv
    <3>3. revision \in Revision
      BY <1>1, <3>2 DEF Revision
    <3>4. \A p \in Pages : page[p].waits = h => Fits(page[p], Live!Patch(base, revision), fields)
      BY <1>5, <3>2, <3>3
    <3> HIDE DEF base, revision
    <3> QED
      BY <3>1, <3>2, <3>4
  <2> QED
    BY <2>2, <2>3
<1> QED
  BY <1>6, <1>7

LEMMA ChangeAppends ==
  ASSUME LiveInv, Live!Change
  PROVE  /\ UNCHANGED <<stream, kept, numbers, page, handler>>
         /\ past' \in Seq(Live!Contents) /\ Len(past') = Len(past) + 1
         /\ \A i \in 1..Len(past) : past'[i] = past[i]
         /\ \E c \in Live!Contents : past' = Append(past, c)
<1>1. PICK f \in Fields, v \in Values \cup {None} :
        past' = Append(past, [past[Len(past)] EXCEPT ![f] = v])
  BY DEF Live!Change, Live!Present
<1>2. PICK c : c = [past[Len(past)] EXCEPT ![f] = v]
  OBVIOUS
<1>3. past[Len(past)] \in Live!Contents
  BY ElementOfSeq DEF LiveInv
<1>4. c \in Live!Contents
  BY <1>2, <1>3 DEF Live!Contents
<1> QED
  BY <1>1, <1>2, <1>4, AppendProperties DEF LiveInv, Live!Change

\* What the page p holds after the answer of the handler h: the same at a later moment,
\* the contents the answer is of, or nothing.
ApplyLeads(p, h, g) ==
  /\ g \in [revision : Revision \cup {None}, model : Live!Contents, at : Nat, waits : {None}]
  /\ g.at <= Len(past)
  /\ g.revision # None => /\ g.at >= 1 /\ g.at >= page[p].at
                          /\ g.revision.fields = past[g.at] /\ g.model = past[g.at]

LEMMA Applies ==
  ASSUME LiveInv, NEW p \in Pages, NEW h \in Handlers, Live!Apply(p, h)
  PROVE  \E g : ApplyLeads(p, h, g) /\ page' = [page EXCEPT ![p] = g]
<1> DEFINE a == handler[h].answer
           fields == past[handler[h].at]
           r == page[p]
<1>1. /\ handler[h].at \in 1..Len(past) /\ handler[h].at >= r.at
      /\ Fits(r, a, fields)
  BY DEF Live!Apply, Live!Waits, LiveInv, HandlerInv
<1>2. /\ r \in [revision : Revision \cup {None}, model : Live!Contents, at : Nat,
                waits : Handlers \cup {None}]
      /\ r.at <= Len(past)
      /\ r.revision # None => /\ r.at >= 1 /\ r.revision.fields = r.model
                              /\ r.revision.fields = past[r.at]
  BY DEF LiveInv, PageInv
<1>3. None \notin Revision /\ fields \in Live!Contents
  BY <1>1, LiveBounds, ElementOfSeq DEF LiveInv
<1>4. CASE a.kind = "unchanged"
  <2>1. PICK g : g = [page[p] EXCEPT !.at = handler[h].at, !.waits = None]
    OBVIOUS
  <2>2. page' = [page EXCEPT ![p] = g]
    BY <1>4, <2>1 DEF Live!Apply
  <2>3. /\ g \in [revision : Revision \cup {None}, model : Live!Contents, at : Nat, waits : {None}]
        /\ g.revision = r.revision /\ g.model = r.model /\ g.at = handler[h].at
    <3>1. PICK x : x = [page[p] EXCEPT !.at = handler[h].at]
      OBVIOUS
    <3>2. /\ x \in [revision : Revision \cup {None}, model : Live!Contents, at : Nat,
                    waits : Handlers \cup {None}]
          /\ x.revision = r.revision /\ x.model = r.model /\ x.at = handler[h].at
      BY <1>1, <1>2, <3>1
    <3>3. g = [x EXCEPT !.waits = None]
      BY <2>1, <3>1
    <3> QED
      BY <3>2, <3>3
  <2>4. r.revision # None /\ r.model = fields
    <3>1. \A base, revision : Live!Patch(base, revision).kind = "patch"
      BY DEF Live!Patch
    <3> QED
      BY <1>1, <1>4, <3>1 DEF Fits
  <2>5. ApplyLeads(p, h, g)
    BY <1>1, <1>2, <2>3, <2>4 DEF ApplyLeads
  <2> QED
    BY <2>2, <2>5
<1>5. CASE a.kind # "unchanged"
  <2>1. PICK base \in {None, r.revision}, revision \in Revision :
          revision.fields = fields /\ a = Live!Patch(base, revision)
    BY <1>1, <1>5 DEF Fits
  <2>2. a.revision = revision /\ a.base = base
    BY <2>1 DEF Live!Patch
  <2>3. Live!Applied(p, a) = fields
    <3>1. base # None => base.fields = r.model
      BY <1>2, <2>1
    <3>2. PICK model \in Live!Contents : model = r.model
      BY <1>2
    <3> QED
      BY <2>1, <3>1, <3>2, PatchApplies DEF Live!Applied
  <2>4. page' = [page EXCEPT ![p] = [revision |-> revision, model |-> fields,
                                     at |-> handler[h].at, waits |-> None]]
    BY <1>5, <2>1, <2>2, <2>3 DEF Live!Apply
  <2>5. ApplyLeads(p, h, [revision |-> revision, model |-> fields, at |-> handler[h].at,
                          waits |-> None])
    BY <1>1, <1>3, <2>1 DEF ApplyLeads
  <2> QED
    BY <2>4, <2>5
<1> QED
  BY <1>4, <1>5

LEMMA LiveInvStep ==
  ASSUME LiveInv, [Live!Next]_(Live!liveVars)
  PROVE  LiveInv'
<1>1. ASSUME Live!Change
      PROVE  LiveInv'
  <2>1. /\ UNCHANGED <<stream, kept, numbers, page, handler>>
        /\ past' \in Seq(Live!Contents) /\ Len(past') = Len(past) + 1
        /\ \A i \in 1..Len(past) : past'[i] = past[i]
    BY <1>1, ChangeAppends
  <2>2. PageInv'
    BY <2>1 DEF LiveInv, PageInv
  <2>3. HandlerInv'
    BY <2>1 DEF LiveInv, HandlerInv
  <2> QED
    BY <2>1, <2>2, <2>3 DEF LiveInv
<1>2. ASSUME NEW p \in Pages, Live!Request(p)
      PROVE  LiveInv'
  <2>1. PICK h \in Handlers :
          /\ handler[h] = [step |-> "free"] /\ page[p].waits = None
          /\ handler' = [handler EXCEPT ![h] = [step |-> "asked", since |-> page[p].revision]]
          /\ page' = [page EXCEPT ![p].waits = h]
          /\ UNCHANGED <<stream, past, kept, numbers>>
    BY <1>2 DEF Live!Request, Live!Free
  <2>2. /\ page' \in [Pages -> [revision : Revision \cup {None}, model : Live!Contents,
                                at : Nat, waits : Handlers \cup {None}]]
        /\ page'[p].waits = h /\ page'[p].revision = page[p].revision
        /\ page'[p].model = page[p].model /\ page'[p].at = page[p].at
        /\ \A q \in Pages \ {p} : page'[q] = page[q]
    BY <2>1 DEF LiveInv
  <2>3. /\ DOMAIN handler' = Handlers
        /\ handler'[h] = [step |-> "asked", since |-> page[p].revision]
        /\ \A g \in Handlers \ {h} : handler'[g] = handler[g]
    BY <2>1 DEF LiveInv
  <2>4. \A q \in Pages : page[q].waits # h
    BY <2>1 DEF LiveInv, HandlerInv
  <2>5. PageInv'
    BY <2>1, <2>2 DEF LiveInv, PageInv
  <2>6. HandlerInv'
    <3>1. \A g \in Handlers :
            /\ handler'[g].step \in {"free", "asked", "collected", "answered"}
            /\ handler'[g].step \in {"collected", "answered"} =>
                 handler'[g].at \in 1..Len(past')
      BY <2>1, <2>3 DEF LiveInv, HandlerInv
    <3>2. ASSUME NEW q \in Pages, page'[q].waits \in Handlers
          PROVE  LET v == handler'[page'[q].waits] IN
                 /\ v.step # "free"
                 /\ v.step \in {"asked", "collected"} => v.since = page'[q].revision
                 /\ v.step \in {"collected", "answered"} => v.at >= page'[q].at
                 /\ v.step = "answered" => Fits(page'[q], v.answer, past'[v.at])
      <4>1. CASE q = p
        BY <2>2, <2>3, <4>1
      <4>2. CASE q # p
        <5>1. page'[q] = page[q] /\ page[q].waits \in Handlers \ {h}
          BY <2>2, <2>4, <3>2, <4>2
        <5>2. handler'[page'[q].waits] = handler[page[q].waits] /\ past' = past
          BY <2>1, <2>3, <5>1
        <5> QED
          BY <5>1, <5>2 DEF LiveInv, HandlerInv
      <4> QED
        BY <4>1, <4>2
    <3>3. \A q, r \in Pages : page'[q].waits = page'[r].waits /\ page'[q].waits # None => q = r
      <4>1. \A q \in Pages : page'[q].waits = IF q = p THEN h ELSE page[q].waits
        BY <2>2
      <4>2. \A q, r \in Pages : page[q].waits = page[r].waits /\ page[q].waits # None => q = r
        BY DEF LiveInv, HandlerInv
      <4> QED
        BY <2>4, <4>1, <4>2
    <3> QED
      BY <3>1, <3>2, <3>3 DEF HandlerInv
  <2> QED
    BY <2>1, <2>2, <2>3, <2>5, <2>6 DEF LiveInv
<1>3. ASSUME NEW h \in Handlers, Live!Collect(h)
      PROVE  LiveInv'
  <2>1. PICK s, n : s = handler[h].since /\ n = Len(past)
    OBVIOUS
  <2>2. /\ UNCHANGED <<past, page, numbers>> /\ handler[h].step = "asked"
        /\ handler' = [handler EXCEPT ![h] = [step |-> "collected", since |-> s, at |-> n]]
    BY <1>3, <2>1 DEF Live!Collect
  <2>3. \A p \in Pages : page[p].waits = h => s = page[p].revision
    BY <2>1, <2>2 DEF LiveInv, HandlerInv
  <2>4. \A p \in Pages : n >= page[p].at
    BY <2>1 DEF LiveInv, PageInv
  <2>5. n \in 1..Len(past) /\ numbers \in 0..MaxNumbers
    BY <2>1 DEF LiveInv
  <2> DEFINE w == [step |-> "collected", since |-> s, at |-> n]
  <2>6. w.step = "collected" /\ w.since = s /\ w.at = n
    OBVIOUS
  <2>7. handler' = [handler EXCEPT ![h] = w]
    BY <2>2
  <2> HIDE DEF w
  <2>8. \A p \in Pages : page[p].waits = h =>
           /\ w.step # "free"
           /\ w.step \in {"asked", "collected"} => w.since = page[p].revision
           /\ w.step \in {"collected", "answered"} => w.at >= page[p].at
           /\ w.step = "answered" => Fits(page[p], w.answer, past[w.at])
    BY <2>3, <2>4, <2>6
  <2> QED
    BY <2>2, <2>5, <2>6, <2>7, <2>8, HandlerMoves
<1>4. ASSUME NEW h \in Handlers, Live!Send(h) \/ Live!Respond(h)
      PROVE  LiveInv'
  <2>1. PICK answer, n : 
          /\ n = handler[h].at
          /\ handler' = [handler EXCEPT ![h] = [step |-> "answered", at |-> n,
                                                answer |-> answer]]
          /\ \A p \in Pages : page[p].waits = h => Fits(page[p], answer, past[n])
          /\ numbers' \in 0..MaxNumbers
    BY <1>4, AnswerFits
  <2>2. UNCHANGED <<past, page>> /\ handler[h].step = "collected"
    BY <1>4 DEF Live!Send, Live!Respond
  <2>3. n \in 1..Len(past) /\ \A p \in Pages : page[p].waits = h => n >= page[p].at
    BY <2>1, <2>2 DEF LiveInv, HandlerInv
  <2> DEFINE w == [step |-> "answered", at |-> n, answer |-> answer]
  <2>4. w.step = "answered" /\ w.at = n /\ w.answer = answer
    OBVIOUS
  <2>5. handler' = [handler EXCEPT ![h] = w]
    BY <2>1
  <2> HIDE DEF w
  <2>6. \A p \in Pages : page[p].waits = h =>
           /\ w.step # "free"
           /\ w.step \in {"asked", "collected"} => w.since = page[p].revision
           /\ w.step \in {"collected", "answered"} => w.at >= page[p].at
           /\ w.step = "answered" => Fits(page[p], w.answer, past[w.at])
    BY <2>1, <2>3, <2>4
  <2>7. w.step = "answered" /\ w.at \in 1..Len(past) /\ numbers' \in 0..MaxNumbers
    BY <2>1, <2>3, <2>4
  <2> QED
    BY <2>2, <2>5, <2>6, <2>7, HandlerMoves
<1>5. ASSUME NEW p \in Pages, NEW h \in Handlers, Live!Apply(p, h)
      PROVE  LiveInv'
  <2>1. PICK g : /\ ApplyLeads(p, h, g)
                 /\ page' = [page EXCEPT ![p] = g]
    BY <1>5, Applies
  <2>2. /\ UNCHANGED <<past, numbers>> /\ page[p].waits = h
        /\ handler' = [handler EXCEPT ![h] = Live!Free]
    BY <1>5 DEF Live!Apply, Live!Waits
  <2> QED
    BY <2>1, <2>2, PageMoves DEF ApplyLeads
<1>6. ASSUME NEW p \in Pages, Live!Abandon(p)
      PROVE  LiveInv'
  <2>1. PICK g : g = [revision |-> page[p].revision, model |-> page[p].model,
                      at |-> page[p].at, waits |-> None]
    OBVIOUS
  <2>2. UNCHANGED <<past, numbers, handler>> /\ page' = [page EXCEPT ![p] = g]
    <3>1. g = [page[p] EXCEPT !.waits = None]
      BY <2>1 DEF LiveInv
    <3> QED
      BY <1>6, <3>1 DEF Live!Abandon
  <2>3. /\ g \in [revision : Revision \cup {None}, model : Live!Contents, at : Nat,
                  waits : {None}]
        /\ g.at <= Len(past)
        /\ g.revision # None => g.at >= 1 /\ g.revision.fields = past[g.at] /\ g.model = past[g.at]
    BY <2>1 DEF LiveInv, PageInv
  <2> QED
    BY <2>2, <2>3, PageMoves
<1>7. ASSUME NEW h \in Handlers, Live!Drop(h)
      PROVE  LiveInv'
  <2>1. /\ UNCHANGED <<past, page, numbers>> /\ \A p \in Pages : page[p].waits # h
        /\ handler' = [handler EXCEPT ![h] = [step |-> "free"]]
    BY <1>7 DEF Live!Drop, Live!Free
  <2> DEFINE w == [step |-> "free"]
  <2>2. w.step = "free" /\ numbers \in 0..MaxNumbers
    BY DEF LiveInv
  <2> HIDE DEF w
  <2> QED
    BY <2>1, <2>2, HandlerMoves DEF w
<1>8. ASSUME NEW p \in Pages, Live!Reload(p)
      PROVE  LiveInv'
  <2>1. PICK g : g = [revision |-> None, model |-> Live!Nothing, at |-> 0, waits |-> None]
    OBVIOUS
  <2>2. UNCHANGED <<past, numbers, handler>> /\ page' = [page EXCEPT ![p] = g]
    BY <1>8, <2>1 DEF Live!Reload, Live!NewPage
  <2>3. /\ g \in [revision : Revision \cup {None}, model : Live!Contents, at : Nat,
                  waits : {None}]
        /\ g.at <= Len(past) /\ g.revision = None
    BY <2>1 DEF LiveInv, Live!Nothing, Live!Contents
  <2> QED
    BY <2>2, <2>3, PageMoves
<1>9. ASSUME Live!Forget \/ UNCHANGED Live!liveVars
      PROVE  LiveInv'
  <2>1. UNCHANGED <<past, numbers, page, handler>>
    BY <1>9 DEF Live!Forget, Live!liveVars
  <2> QED
    BY <2>1 DEF LiveInv, PageInv, HandlerInv
<1> QED
  BY <1>1, <1>2, <1>3, <1>4, <1>5, <1>6, <1>7, <1>8, <1>9 DEF Live!Next

LEMMA ViewInit == Live!Init => Live!Promise!Init
<1> SUFFICES ASSUME Live!Init
             PROVE  Live!Promise!Init
  OBVIOUS
<1>1. \E c \in Live!Contents : past = <<c>>
  BY DEF Live!Init
<1>2. \A p \in Pages : Live!View(p) = [at |-> 0, shows |-> None]
  BY DEF Live!Init, Live!NewPage, Live!View
<1> QED
  BY <1>1, <1>2 DEF Live!Promise!Init, Live!Promise!Blank

\* A page that changes shows a moment no earlier than before, or nothing.
LEMMA PageChanges ==
  ASSUME LiveInv, NEW p \in Pages, NEW g, UNCHANGED past,
         page' = [page EXCEPT ![p] = g],
         \/ g.revision = None
         \/ /\ g.revision # None /\ g.at \in 1..Len(past) /\ g.model = past[g.at]
            /\ g.at >= page[p].at
  PROVE  Live!Promise!Refresh(p) \/ Live!Promise!Reload(p)
<1> DEFINE view == [q \in Pages |-> Live!View(q)]
           shown == IF g.revision = None THEN [at |-> 0, shows |-> None]
                    ELSE [at |-> g.at, shows |-> g.model]
<1>1. page'[p] = g /\ \A q \in Pages \ {p} : page'[q] = page[q]
  BY DEF LiveInv
<1>2. \A q \in Pages : Live!View(q)' = IF q = p THEN shown ELSE Live!View(q)
  BY <1>1 DEF Live!View
<1>3. view' = [view EXCEPT ![p] = shown]
  BY <1>2
<1>4. CASE g.revision = None
  BY <1>3, <1>4 DEF Live!Promise!Reload, Live!Promise!Blank
<1>5. CASE g.revision # None
  <2>1. /\ g.at \in 1..Len(past) /\ g.model = past[g.at] /\ g.at >= view[p].at
    <3>1. page[p].at \in Nat
      BY DEF LiveInv
    <3> QED
      BY <1>5, <3>1 DEF Live!View
  <2>2. shown = [at |-> g.at, shows |-> past[g.at]]
    BY <1>5, <2>1
  <2> HIDE DEF shown, view
  <2>3. view' = [view EXCEPT ![p] = [at |-> g.at, shows |-> past[g.at]]]
    BY <1>3, <2>2
  <2> QED
    BY <2>1, <2>3 DEF Live!Promise!Refresh, view
<1> QED
  BY <1>4, <1>5

LEMMA ViewStep ==
  ASSUME LiveInv, [Live!Next]_(Live!liveVars)
  PROVE  [Live!Promise!Next]_(Live!Promise!liveViewVars)
<1> DEFINE view == [p \in Pages |-> Live!View(p)]
<1>1. CASE Live!Change
  <2>1. UNCHANGED page /\ \E c \in Live!Contents : past' = Append(past, c)
    BY <1>1, ChangeAppends
  <2>2. view' = view
    BY <2>1 DEF Live!View
  <2> QED
    BY <2>1, <2>2 DEF Live!Promise!Next, Live!Promise!Change
<1>2. ASSUME UNCHANGED past, \A p \in Pages : Live!View(p)' = Live!View(p)
      PROVE  UNCHANGED Live!Promise!liveViewVars
  <2>1. view' = view
    BY <1>2
  <2> QED
    BY <1>2, <2>1 DEF Live!Promise!liveViewVars
<1>3. ASSUME NEW p \in Pages, Live!Request(p) \/ Live!Abandon(p)
      PROVE  UNCHANGED Live!Promise!liveViewVars
  <2>1. UNCHANGED past /\ \E h : page' = [page EXCEPT ![p].waits = h]
    BY <1>3 DEF Live!Request, Live!Abandon
  <2>2. \A q \in Pages : /\ page'[q].revision = page[q].revision
                         /\ page'[q].model = page[q].model /\ page'[q].at = page[q].at
    BY <2>1 DEF LiveInv
  <2> QED
    BY <1>2, <2>1, <2>2 DEF Live!View
<1>4. ASSUME Live!Forget \/ (\E h \in Handlers : \/ Live!Collect(h) \/ Live!Send(h)
                                                 \/ Live!Respond(h) \/ Live!Drop(h))
      PROVE  UNCHANGED Live!Promise!liveViewVars
  <2>1. UNCHANGED <<past, page>>
    BY <1>4 DEF Live!Forget, Live!Collect, Live!Send, Live!Respond, Live!Drop
  <2> QED
    BY <1>2, <2>1 DEF Live!View
<1>5. ASSUME NEW p \in Pages, NEW h \in Handlers, Live!Apply(p, h)
      PROVE  Live!Promise!Next
  <2>1. PICK g : ApplyLeads(p, h, g) /\ page' = [page EXCEPT ![p] = g]
    BY <1>5, Applies
  <2>2. UNCHANGED past
    BY <1>5 DEF Live!Apply
  <2>3. \/ g.revision = None
        \/ /\ g.revision # None /\ g.at \in 1..Len(past) /\ g.model = past[g.at]
           /\ g.at >= page[p].at
    <3>1. Len(past) \in Nat
      BY DEF LiveInv
    <3> QED
      BY <2>1, <3>1 DEF ApplyLeads
  <2> QED
    BY <2>1, <2>2, <2>3, PageChanges DEF Live!Promise!Next
<1>6. ASSUME NEW p \in Pages, Live!Reload(p)
      PROVE  Live!Promise!Next
  <2>1. PICK g : g.revision = None /\ page' = [page EXCEPT ![p] = g]
    BY <1>6 DEF Live!Reload, Live!NewPage
  <2>2. UNCHANGED past
    BY <1>6 DEF Live!Reload
  <2> QED
    BY <2>1, <2>2, PageChanges DEF Live!Promise!Next
<1>7. CASE UNCHANGED Live!liveVars
  BY <1>2, <1>7 DEF Live!liveVars, Live!View
<1> QED
  BY <1>1, <1>3, <1>4, <1>5, <1>6, <1>7 DEF Live!Next

\* LiveFeeds implements LiveView: a page never shows a mixture of two moments and never
\* goes back, since a patch is against what the page still holds and the handler it waits
\* for collected the contents after the page had asked.
THEOREM PagesKeepThePromise == Live!Spec => PagesFollowTheServer
<1>1. Live!Spec => Live!Promise!Init /\ [][Live!Promise!Next]_(Live!Promise!liveViewVars)
  BY LiveInit, LiveInvStep, ViewInit, ViewStep, PTL DEF Live!Spec
<1> QED
  BY <1>1 DEF PagesFollowTheServer, Live!PagesFollowTheServer, Live!Promise!Spec

-----------------------------------------------------------------------------
(* The snapshots of the server, and all the parts together.                  *)

\* No more snapshots are kept than allowed, each of a revision that was given a number.
StoreInv ==
  /\ stream \in BOOLEAN /\ Len(past) <= MaxContents + 1
  /\ kept \in Seq(Revision) /\ Len(kept) <= MaxKept

\* Taking a snapshot out makes room for one, if it was there.
LEMMA WithoutOne ==
  ASSUME NEW s \in Seq(Revision), NEW r
  PROVE  /\ Live!Without(s, r) \in Seq(Revision)
         /\ Len(Live!Without(s, r)) =
              IF \E i \in 1..Len(s) : s[i] = r THEN Len(s) - 1 ELSE Len(s)
<1>1. CASE \E i \in 1..Len(s) : s[i] = r
  <2>1. PICK i \in 1..Len(s) :
          Live!Without(s, r) = SubSeq(s, 1, i - 1) \o SubSeq(s, i + 1, Len(s))
    BY <1>1 DEF Live!Without
  <2>2. PICK a, b : a = SubSeq(s, 1, i - 1) /\ b = SubSeq(s, i + 1, Len(s))
    OBVIOUS
  <2>3. /\ a \in Seq(Revision) /\ Len(a) = i - 1
        /\ b \in Seq(Revision) /\ Len(b) = Len(s) - i
    <3>1. /\ 1 \in 1..Len(s) + 1 /\ i - 1 \in 1 - 1 .. Len(s)
          /\ i + 1 \in 1..Len(s) + 1 /\ Len(s) \in i + 1 - 1 .. Len(s)
      OBVIOUS
    <3>2. SubSeq(s, 1, i - 1) \in Seq(Revision) /\ Len(SubSeq(s, 1, i - 1)) = i - 1
      <4>1. PICK n : n = i - 1
        OBVIOUS
      <4>2. n \in Nat /\ 1 \in 1..Len(s) + 1 /\ n \in 1 - 1 .. Len(s)
        BY <3>1, <4>1
      <4>3. /\ SubSeq(s, 1, n) \in Seq(Revision)
            /\ Len(SubSeq(s, 1, n)) = IF 1 <= n THEN n - 1 + 1 ELSE 0
        BY <4>2, SubSeqProperties
      <4> QED
        BY <4>1, <4>2, <4>3
    <3>3. /\ SubSeq(s, i + 1, Len(s)) \in Seq(Revision)
          /\ Len(SubSeq(s, i + 1, Len(s))) = Len(s) - i
      <4>1. PICK m : m = i + 1
        OBVIOUS
      <4>2. m \in 1..Len(s) + 1 /\ Len(s) \in m - 1 .. Len(s)
        BY <3>1, <4>1
      <4>3. /\ SubSeq(s, m, Len(s)) \in Seq(Revision)
            /\ Len(SubSeq(s, m, Len(s))) = IF m <= Len(s) THEN Len(s) - m + 1 ELSE 0
        BY <4>2, SubSeqProperties
      <4> QED
        BY <4>1, <4>2, <4>3
    <3> QED
      BY <2>2, <3>2, <3>3
  <2>4. a \o b \in Seq(Revision) /\ Len(a \o b) = Len(a) + Len(b)
    BY <2>3, ConcatProperties
  <2>5. Len(a) + Len(b) = Len(s) - 1
    BY <2>3
  <2> QED
    BY <1>1, <2>1, <2>2, <2>4, <2>5
<1>2. CASE ~\E i \in 1..Len(s) : s[i] = r
  BY <1>2 DEF Live!Without
<1> QED
  BY <1>1, <1>2

\* Of those that are kept only the newest stay.
LEMMA NewestFit ==
  ASSUME NEW s \in Seq(Revision)
  PROVE  Live!Newest(s) \in Seq(Revision) /\ Len(Live!Newest(s)) <= MaxKept
<1>1. MaxKept \in Nat /\ Len(s) \in Nat
  BY LiveBounds
<1>2. CASE Len(s) > MaxKept
  <2>1. /\ Len(s) - MaxKept + 1 \in 1..Len(s) + 1
        /\ Len(s) \in (Len(s) - MaxKept + 1) - 1 .. Len(s)
    BY <1>1, <1>2
  <2>2. PICK m : m = Len(s) - MaxKept + 1
    OBVIOUS
  <2>3. /\ SubSeq(s, m, Len(s)) \in Seq(Revision)
        /\ Len(SubSeq(s, m, Len(s))) = IF m <= Len(s) THEN Len(s) - m + 1 ELSE 0
    BY <2>1, <2>2, SubSeqProperties
  <2> QED
    BY <1>1, <1>2, <2>2, <2>3 DEF Live!Newest
<1>3. CASE ~(Len(s) > MaxKept)
  BY <1>1, <1>3 DEF Live!Newest
<1> QED
  BY <1>2, <1>3

LEMMA StoreInit == Live!Init => StoreInv
<1> SUFFICES ASSUME Live!Init
             PROVE  StoreInv
  OBVIOUS
<1>1. Len(past) = 1 /\ kept = <<>> /\ stream \in BOOLEAN
  BY DEF Live!Init
<1>2. kept \in Seq(Revision) /\ Len(kept) = 0
  BY <1>1
<1> QED
  BY <1>1, <1>2, LiveBounds DEF StoreInv

\* The snapshot of an answer is put behind the others, which make room.
LEMMA Remembers ==
  ASSUME LiveInv, StoreInv, NEW h \in Handlers, Live!Send(h) \/ Live!Respond(h)
  PROVE  kept' \in Seq(Revision) /\ Len(kept') <= MaxKept
<1> DEFINE since == handler[h].since
           fields == past[handler[h].at]
           base == IF since # None /\ Live!Keeps(since) THEN since ELSE None
<1>1. handler[h].step = "collected" /\ fields \in Live!Contents
  <2>1. handler[h].step = "collected"
    BY DEF Live!Send, Live!Respond
  <2> QED
    BY <2>1, ElementOfSeq DEF LiveInv, HandlerInv
<1>2. ASSUME NEW r \in Revision, kept' = Live!Newest(Append(Live!Without(kept, r), r))
      PROVE  kept' \in Seq(Revision) /\ Len(kept') <= MaxKept
  <2>1. Live!Without(kept, r) \in Seq(Revision)
    BY WithoutOne DEF StoreInv
  <2>2. Append(Live!Without(kept, r), r) \in Seq(Revision)
    BY <2>1, AppendProperties
  <2> QED
    BY <1>2, <2>2, NewestFit
<1>3. CASE Live!Send(h)
  <2>1. [fields |-> fields, number |-> 0] \in Revision
    BY <1>1, LiveBounds DEF Revision
  <2> QED
    BY <1>2, <1>3, <2>1 DEF Live!Send
<1>4. CASE Live!Respond(h)
  <2> DEFINE latest == \E i \in 1..Len(kept) :
                         kept[i].number = numbers /\ kept[i].fields = fields
             revision == [fields |-> fields,
                          number |-> IF latest THEN numbers ELSE numbers + 1]
  <2>1. CASE base # None /\ base.fields = fields
    <3>1. kept' = Append(Live!Without(kept, base), base)
      BY <1>4, <2>1 DEF Live!Respond
    <3>2. \E i \in 1..Len(kept) : kept[i] = base
      BY <2>1 DEF Live!Keeps
    <3>3. base \in Revision /\ Len(Live!Without(kept, base)) = Len(kept) - 1
          /\ Live!Without(kept, base) \in Seq(Revision)
      BY <3>2, WithoutOne, ElementOfSeq DEF StoreInv
    <3> HIDE DEF base
    <3>4. Append(Live!Without(kept, base), base) \in Seq(Revision)
          /\ Len(Append(Live!Without(kept, base), base)) = Len(kept) - 1 + 1
      BY <3>3, AppendProperties
    <3> QED
      BY <3>1, <3>4 DEF StoreInv
  <2>2. CASE ~(base # None /\ base.fields = fields)
    <3>1. /\ kept' = Live!Newest(Append(Live!Without(kept, revision), revision))
          /\ revision.number <= MaxNumbers
      BY <1>4, <2>2 DEF Live!Respond
    <3>2. revision.number \in 0..MaxNumbers
      BY <3>1, LiveBounds DEF LiveInv
    <3>3. revision \in Revision
      BY <1>1, <3>2 DEF Revision
    <3> QED
      BY <1>2, <3>1, <3>3
  <2> QED
    BY <2>1, <2>2
<1> QED
  BY <1>3, <1>4

LEMMA StoreStep ==
  ASSUME LiveInv, StoreInv, [Live!Next]_(Live!liveVars)
  PROVE  StoreInv'
<1>1. CASE Live!Change
  <2>1. Len(past) <= MaxContents /\ Len(past) \in Nat
    BY <1>1 DEF Live!Change, LiveInv
  <2>2. UNCHANGED <<stream, kept>> /\ Len(past') = Len(past) + 1
    BY <1>1, ChangeAppends
  <2> QED
    BY <2>1, <2>2, LiveBounds DEF StoreInv
<1>2. CASE Live!Forget
  <2>1. PICK r : kept' = Live!Without(kept, r)
    BY <1>2 DEF Live!Forget
  <2>2. UNCHANGED <<stream, past>>
    BY <1>2 DEF Live!Forget
  <2>3. kept' \in Seq(Revision) /\ Len(kept') <= Len(kept)
    BY <2>1, WithoutOne DEF StoreInv
  <2>4. MaxKept \in Nat /\ Len(kept') \in Nat /\ Len(kept) \in Nat
    BY <2>3, LiveBounds DEF StoreInv
  <2> QED
    BY <2>2, <2>3, <2>4 DEF StoreInv
<1>3. ASSUME NEW h \in Handlers, Live!Send(h) \/ Live!Respond(h)
      PROVE  StoreInv'
  BY <1>3, Remembers DEF StoreInv, Live!Send, Live!Respond
<1>4. ASSUME UNCHANGED <<stream, past, kept>>
      PROVE  StoreInv'
  BY <1>4 DEF StoreInv
<1> QED
  BY <1>1, <1>2, <1>3, <1>4
     DEF Live!Next, Live!Request, Live!Abandon, Live!Reload, Live!Apply, Live!Collect,
         Live!Drop, Live!liveVars

LEMMA LiveTypes == LiveInv /\ StoreInv => Live!TypeOK
<1> SUFFICES ASSUME LiveInv, StoreInv
             PROVE  Live!TypeOK
  OBVIOUS
<1>1. Revision = Live!Revisions
  BY DEF Revision, Live!Revisions
<1>2. \A p \in Pages : page[p].at \in 0..Len(past)
  BY DEF LiveInv, PageInv
<1>3. page \in [Pages -> [revision : Revision \cup {None}, model : Live!Contents,
                          at : 0..Len(past), waits : Handlers \cup {None}]]
  BY <1>2 DEF LiveInv
<1>4. Len(past) \in 1..MaxContents + 1
  BY LiveBounds DEF LiveInv, StoreInv
<1> QED
  BY <1>1, <1>3, <1>4 DEF LiveInv, StoreInv, HandlerInv, Live!TypeOK

\* A behaviour of the whole is one of each part.
LEMMA PartsAreKept == ConsoleSpec => Spec /\ Live!Spec /\ Log!Spec
<1>1. ConsoleInit => Init /\ Live!Init /\ Log!Init
  BY DEF ConsoleInit
<1>2. [ConsoleNext]_consoleVars =>
        [Next]_accountVars /\ [Live!Next]_(Live!liveVars) /\ [Log!Next]_(Log!logVars)
  <2> SUFFICES ASSUME [ConsoleNext]_consoleVars
               PROVE  /\ Next \/ UNCHANGED accountVars
                      /\ Live!Next \/ UNCHANGED livePart
                      /\ Log!Next \/ UNCHANGED logPart
    BY DEF livePart, logPart, Live!liveVars, Log!logVars
  <2>1. CASE UNCHANGED consoleVars
    BY <2>1 DEF consoleVars
  <2>2. CASE ConsoleNext
    BY <2>2 DEF ConsoleNext, AccountStep, LiveStep, LogStep
  <2> QED
    BY <2>1, <2>2
<1> QED
  BY <1>1, <1>2, PTL DEF ConsoleSpec, Spec, Live!Spec, Log!Spec

\* The accounts, the snapshots with their pages and the log with its page are well formed,
\* in the parts together as each alone; in particular no more snapshots are kept than allowed.
THEOREM ConsoleTyping == ConsoleSpec => []ConsoleTypeOK
<1>1. AccountsInv /\ (LiveInv /\ StoreInv) /\ LogInv => ConsoleTypeOK
  BY LiveTypes DEF AccountsInv, LogInv, ConsoleTypeOK
<1>2. Spec => []AccountsInv
  BY AccountsInit, AccountsStep, PTL DEF Spec
<1>3. Live!Spec => [](LiveInv /\ StoreInv)
  BY LiveInit, StoreInit, LiveInvStep, StoreStep, PTL DEF Live!Spec
<1>4. Log!Spec => []LogInv
  BY LogInit, LogInvStep, PTL DEF Log!Spec
<1> QED
  BY <1>1, <1>2, <1>3, <1>4, PartsAreKept, PTL
=============================================================================
