-------------------------------- MODULE Accounts --------------------------------
(***************************************************************************)
(* Accounts, their browser sessions and the installation: users.json       *)
(* (user-store.ts), Google sign-in (google-routes.ts), the first           *)
(* administrator and the end of the onboarding (onboarding.ts,             *)
(* bootstrap-google-admin.mjs, installation-store.ts) and the account      *)
(* pages of the administrators (admin-routes.ts).                          *)
(*                                                                         *)
(* A handler runs from one await to the next in one step.  Each store      *)
(* reads, checks and writes inside one update, so between two steps of a   *)
(* handler the others may change what it has read.                         *)
(***************************************************************************)
EXTENDS Naturals, FiniteSets

CONSTANTS
  Accounts,    \* accounts: one of each Google identity, and those of older versions
  Legacy,      \* the accounts without a Google identity
  Tokens,      \* browser session tokens: bounds the sessions at once
  Changes,     \* the roles and states that administrators give to accounts
  Handlers,    \* requests under way at once
  MaxChanges,  \* changes of accounts: a bound
  None

ASSUME AccountsAssumption ==
  /\ Legacy \subseteq Accounts
  /\ Changes \subseteq [role : {"admin", "user"}, status : {"pending", "active", "disabled"}]
  /\ MaxChanges \in Nat \ {0}
  /\ None \notin Accounts \cup Tokens

VARIABLES
  users,         \* users.json: the record of each account, None before it signs up
  sessions,      \* users.json: the browser sessions
  open,          \* settings.json: registrationOpen
  completed,     \* installation.json: onboarding is complete
  onboarding,    \* the installer holds a session of the onboarding listener
  request,       \* what each handler does and remembers
  changes,       \* changes of accounts so far
  promotions     \* history: how often a first administrator was made

accountVars == <<users, sessions, open, completed, onboarding, request, changes, promotions>>
rest == <<open, completed, onboarding>>
stores == <<users, sessions, changes, promotions, rest>>

Roles == {"admin", "user"}
Statuses == {"pending", "active", "disabled"}
User == [role : Roles, status : Statuses, version : Nat]
Session == [user : Accounts, version : Nat]

ASSUME NoneIsNoRecord == None \notin User /\ None \notin Session

Steps == {"idle", "account", "drop", "enter", "target", "update", "check", "promote",
          "complete", "clear"}

Resting == [step |-> "idle", op |-> None, token |-> None, actor |-> None, target |-> None,
            memo |-> None]

Init ==
  /\ users = [a \in Accounts |->
                IF a \in Legacy THEN [role |-> "admin", status |-> "active", version |-> 1]
                                ELSE None]
  /\ sessions \in [Tokens -> {None} \cup [user : Legacy, version : {1}]]
  /\ open \in BOOLEAN
  /\ completed = FALSE
  /\ onboarding = TRUE
  /\ request = [h \in Handlers |-> Resting]
  /\ changes = 0
  /\ promotions = 0

----------------------------------------------------------------------------
Is(a, role, status) == users[a] # None /\ users[a].role = role /\ users[a].status = status

\* signInAdmin: an administrator who can sign in.
SignInAdmins == {a \in Accounts \ Legacy : Is(a, "admin", "active")}

\* UserStore.session: the account a token stands for.
Current(t) ==
  IF /\ sessions[t] # None
     /\ users[sessions[t].user] # None
     /\ users[sessions[t].user].status = "active"
     /\ users[sessions[t].user].version = sessions[t].version
  THEN sessions[t].user ELSE None

At(h, s) == request[h].step = s
Goto(h, s) == request' = [request EXCEPT ![h].step = s]
Keep(h, s, m) == request' = [request EXCEPT ![h].step = s, ![h].memo = m]
Done(h) == request' = [request EXCEPT ![h] = Resting]
Drop(a) == [t \in Tokens |-> IF sessions[t] # None /\ sessions[t].user = a
                             THEN None ELSE sessions[t]]

Start(h, op, step, t, a, b, m) ==
  /\ At(h, "idle")
  /\ request' = [request EXCEPT ![h] = [step |-> step, op |-> op, token |-> t, actor |-> a,
                                        target |-> b, memo |-> m]]
  /\ UNCHANGED stores

----------------------------------------------------------------------------
(* Google sign-in, from the answer of Google on.                             *)

\* The setting is read before the account; the browser may hold an older session.
SignIn(h) == \E a \in Accounts \ Legacy, t \in Tokens \cup {None} :
               Start(h, "signin", "account", t, None, a, open)

\* googleAccount: the account of this identity, or a new one that waits for approval.
Account(h) ==
  /\ At(h, "account")
  /\ LET a == request[h].target IN
     \/ /\ users[a] = None
        /\ users' = IF request[h].memo
                    THEN [users EXCEPT ![a] = [role |-> "user", status |-> "pending",
                                               version |-> 1]]
                    ELSE users
        /\ Done(h)
     \/ /\ users[a] # None
        /\ IF users[a].status = "active" THEN Keep(h, "drop", users[a].version) ELSE Done(h)
        /\ UNCHANGED users
  /\ UNCHANGED <<sessions, changes, promotions, rest>>

\* logout: the session the browser had before.
DropOld(h) ==
  /\ At(h, "drop")
  /\ sessions' = IF request[h].token = None THEN sessions
                 ELSE [sessions EXCEPT ![request[h].token] = None]
  /\ request' = [request EXCEPT ![h].step = "enter", ![h].token = None]
  /\ UNCHANGED <<users, changes, promotions, rest>>

\* Faulty variant: the session is stored for the account as it was read.
EnterUnchecked(h) ==
  /\ At(h, "enter")
  /\ \E t \in Tokens :
       /\ sessions[t] = None
       /\ sessions' = [sessions EXCEPT ![t] = [user |-> request[h].target,
                                               version |-> request[h].memo]]
  /\ Done(h)
  /\ UNCHANGED <<users, changes, promotions, rest>>

\* createSession: refused when the account has changed since it was read.
Enter(h) ==
  /\ At(h, "enter")
  /\ LET a == request[h].target IN
     IF users[a].status = "active" /\ users[a].version = request[h].memo
     THEN \E t \in Tokens :
            /\ sessions[t] = None
            /\ sessions' = [sessions EXCEPT ![t] = [user |-> a, version |-> request[h].memo]]
     ELSE UNCHANGED sessions
  /\ Done(h)
  /\ UNCHANGED <<users, changes, promotions, rest>>

\* A session ends after eight hours.
Expire(t) ==
  /\ sessions[t] # None
  /\ sessions' = [sessions EXCEPT ![t] = None]
  /\ UNCHANGED <<users, request, changes, promotions, rest>>

----------------------------------------------------------------------------
(* Requests of a signed-in browser.                                          *)

\* browser.current and the middleware that lets only administrators pass: a request
\* that begins with an account.
Browse(h) ==
  \E t \in Tokens :
    LET a == Current(t) IN
    /\ a # None
    /\ \/ Start(h, "logout", "update", t, a, None, None)
       \/ /\ users[a].role = "admin"
          /\ \/ Start(h, "registration", "update", None, a, None, None)
             \/ \E s \in Tokens : Start(h, "end", "update", None, a, None, s)
             \/ \E b \in Accounts :
                  \/ Start(h, "revoke", "update", None, a, b, None)
                  \/ \E c \in Changes : Start(h, "update", "target", None, a, b, c)

\* POST /users/:id reads the account it is about to change.
Target(h) ==
  /\ At(h, "target")
  /\ IF users[request[h].target] = None THEN Done(h) ELSE Goto(h, "update")
  /\ UNCHANGED stores

Logout(h) ==
  /\ At(h, "update") /\ request[h].op = "logout"
  /\ sessions' = [sessions EXCEPT ![request[h].token] = None]
  /\ Done(h)
  /\ UNCHANGED <<users, changes, promotions, rest>>

\* settings.save; the role was checked before the await.
Registration(h) ==
  /\ At(h, "update") /\ request[h].op = "registration"
  /\ open' = ~open
  /\ Done(h)
  /\ UNCHANGED <<users, sessions, changes, promotions, completed, onboarding>>

\* requireAdmin, by role and status alone.
ActorIsAdmin(h) == Is(request[h].actor, "admin", "active")

\* A change of an account: its version grows and its sessions are deleted.
Change(a, c) ==
  /\ changes < MaxChanges
  /\ changes' = changes + 1
  /\ users' = [users EXCEPT ![a] = [role |-> c.role, status |-> c.status,
                                    version |-> @.version + 1]]
  /\ sessions' = Drop(a)

Same(a, c) == users[a].role = c.role /\ users[a].status = c.status

\* The administrators, those of older versions included (for UpdateCountingAll).
AnyAdmins == {a \in Accounts : Is(a, "admin", "active")}

\* Faulty variant: accounts of older versions count as administrators.
UpdateCountingAll(h) ==
  /\ At(h, "update") /\ request[h].op = "update"
  /\ LET a == request[h].target
         c == request[h].memo
         last == AnyAdmins = {a} /\ c # [role |-> "admin", status |-> "active"]
     IN  IF ~ActorIsAdmin(h) \/ last \/ Same(a, c) THEN UNCHANGED <<users, sessions, changes>>
         ELSE Change(a, c)
  /\ Done(h)
  /\ UNCHANGED <<promotions, rest>>

\* UserStore.update: by an administrator, and never against the last one who can
\* sign in.
Update(h) ==
  /\ At(h, "update") /\ request[h].op = "update"
  /\ LET a == request[h].target
         c == request[h].memo
         last == SignInAdmins = {a} /\ c # [role |-> "admin", status |-> "active"]
     IN  IF ~ActorIsAdmin(h) \/ last \/ Same(a, c) THEN UNCHANGED <<users, sessions, changes>>
         ELSE Change(a, c)
  /\ Done(h)
  /\ UNCHANGED <<promotions, rest>>

\* revokeAccess: a new version, and no sessions.
RevokeAccess(h) ==
  /\ At(h, "update") /\ request[h].op = "revoke"
  /\ LET a == request[h].target IN
     IF ~ActorIsAdmin(h) \/ users[a] = None THEN UNCHANGED <<users, sessions, changes>>
     ELSE Change(a, users[a])
  /\ Done(h)
  /\ UNCHANGED <<promotions, rest>>

\* revokeBrowserSession.
EndSession(h) ==
  /\ At(h, "update") /\ request[h].op = "end"
  /\ sessions' = IF ActorIsAdmin(h) THEN [sessions EXCEPT ![request[h].memo] = None]
                 ELSE sessions
  /\ Done(h)
  /\ UNCHANGED <<users, changes, promotions, rest>>

----------------------------------------------------------------------------
(* Onboarding.                                                               *)

Promotable(a) == SignInAdmins = {} /\ a \notin Legacy /\ Is(a, "user", "pending")

\* A request with the session of the installer.  POST /admin chooses an account that
\* is on the list, POST /complete begins with the accounts.
Install(h) ==
  /\ onboarding
  /\ \/ \E a \in Accounts \ Legacy : /\ users[a] # None
                                     /\ Start(h, "promote", "check", None, None, a, None)
     \/ SignInAdmins # {} /\ Start(h, "complete", "complete", None, None, None, None)

\* bootstrapGoogleAdmin looks at the accounts first.
Check(h) ==
  /\ At(h, "check")
  /\ IF Promotable(request[h].target) THEN Goto(h, "promote") ELSE Done(h)
  /\ UNCHANGED stores

\* promoteFirstAdmin looks again, inside its update.
Promote(h) ==
  /\ At(h, "promote")
  /\ LET a == request[h].target IN
     IF Promotable(a)
     THEN Change(a, [role |-> "admin", status |-> "active"]) /\ promotions' = promotions + 1
     ELSE UNCHANGED <<users, sessions, changes, promotions>>
  /\ Done(h)
  /\ UNCHANGED rest

\* POST /complete: the update of installation.json.
Complete(h) ==
  /\ At(h, "complete")
  /\ IF completed THEN Done(h) ELSE Goto(h, "clear")
  /\ completed' = TRUE
  /\ UNCHANGED <<users, sessions, changes, promotions, open, onboarding>>

\* The listener forgets its sessions after the audit record.
Clear(h) ==
  /\ At(h, "clear")
  /\ onboarding' = FALSE
  /\ Done(h)
  /\ UNCHANGED <<users, sessions, changes, promotions, open, completed>>

Next ==
  \/ \E h \in Handlers :
       \/ SignIn(h) \/ Account(h) \/ DropOld(h) \/ Enter(h)
       \/ Browse(h) \/ Target(h) \/ Logout(h) \/ Registration(h)
       \/ Update(h) \/ RevokeAccess(h) \/ EndSession(h)
       \/ Install(h) \/ Check(h) \/ Promote(h) \/ Complete(h) \/ Clear(h)
  \/ \E t \in Tokens : Expire(t)

Spec == Init /\ [][Next]_accountVars

----------------------------------------------------------------------------
\* The state is well formed (users.json, the handlers).
TypeOK ==
  /\ users \in [Accounts -> User \cup {None}]
  /\ sessions \in [Tokens -> Session \cup {None}]
  /\ open \in BOOLEAN
  /\ completed \in BOOLEAN
  /\ onboarding \in BOOLEAN
  /\ \A h \in Handlers : /\ request[h].step \in Steps
                         /\ request[h].token \in Tokens \cup {None}
                         /\ request[h].actor \in Accounts \cup {None}
                         /\ request[h].target \in Accounts \cup {None}
  /\ changes \in 0..MaxChanges
  /\ promotions \in Nat

\* Once somebody can sign in as an administrator, somebody always can, whatever
\* administrators do to each other and to themselves at the same time, and the
\* onboarding makes no other one, whoever was chosen at the same time; accounts of
\* older versions, which cannot sign in any more, do not count.
AdminRemains ==
  [][SignInAdmins # {} => SignInAdmins' # {} /\ promotions' = promotions]_<<users, promotions>>

\* A stored browser session is one of an active account at its present version: a
\* sign-in that was under way when the account was changed, disabled or revoked
\* leaves none behind.
SessionsAreCurrent == \A t \in Tokens : sessions[t] # None => Current(t) = sessions[t].user
=============================================================================
