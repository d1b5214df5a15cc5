-------------------------------- MODULE Previews --------------------------------
(***************************************************************************)
(* Who may open a published app: the preview listener (preview-proxy.ts)   *)
(* and the console route that vouches for a signed-in viewer               *)
(* (preview-routes.ts).                                                    *)
(*                                                                         *)
(* A browser without a valid cookie of the app is sent to the console,     *)
(* comes back with a one-time code and changes it for a cookie.  Every     *)
(* read of the apps, the accounts and the settings is an await of its own; *)
(* administrators change all of them in between.  Each change of an        *)
(* account raises its version (Accounts).                                  *)
(***************************************************************************)
EXTENDS Naturals, FiniteSets

CONSTANTS
  Viewers,     \* accounts
  Slugs,       \* app names
  Codes,       \* one-time codes: bounds the authorizations
  Cookies,     \* preview cookies: bounds the exchanges
  Visits,      \* requests under way at once
  MaxCodes,    \* codes kept at once
  MaxEvents,   \* changes of accounts, apps and settings: a bound
  None

PreviewsAssumption ==
  /\ MaxCodes \in Nat \ {0} /\ MaxEvents \in Nat
  /\ None \notin Viewers \cup Slugs \cup Codes \cup Cookies

VARIABLES
  viewers,     \* the accounts
  published,   \* the apps
  publicLinks, \* the setting that allows public links
  codes,       \* PreviewAuth.codes, with those that are spent or timed out
  cookies,     \* the cookies in the browsers
  visit,       \* what each request does and remembers
  events       \* changes so far

previewVars == <<viewers, published, publicLinks, codes, cookies, visit, events>>

Roles == {"admin", "user"}
Statuses == {"active", "disabled"}
Viewer == [role : Roles, status : Statuses, version : 1..(MaxEvents + 1)]
App == [owner : Viewers, visibility : {"private", "public"}]
Unused == [state |-> "unused", slug |-> None, user |-> None, version |-> 0, source |-> None]
Waiting == [step |-> "idle", kind |-> None, slug |-> None, app |-> None, ticket |-> None,
            since |-> 0]
Steps == {"idle", "owner", "setting", "cookie", "viewer", "granted", "redeem",
          "confirm", "seal", "session"}

Init ==
  /\ viewers \in [Viewers -> [role : Roles, status : {"active"}, version : {1}]]
  /\ published = [s \in Slugs |-> None]
  /\ publicLinks = TRUE
  /\ codes = [c \in Codes |-> Unused]
  /\ cookies = [c \in Cookies |-> Unused]
  /\ visit = [v \in Visits |-> Waiting]
  /\ events = 0

----------------------------------------------------------------------------
Active(a) == viewers[a].status = "active"
MayOpen(a, app) == a = app.owner \/ viewers[a].role = "admin"

At(v, s) == visit[v].step = s
Goto(v, s) == visit' = [visit EXCEPT ![v].step = s]
Over(v) == visit' = [visit EXCEPT ![v] = Waiting]
world == <<viewers, published, publicLinks, events>>

Arrive(v, kind, slug, ticket, since) ==
  /\ At(v, "idle")
  /\ published[slug] # None
  /\ visit' = [visit EXCEPT ![v] =
       [step |-> IF kind = "authorize" THEN "session" ELSE "owner", kind |-> kind,
        slug |-> slug, app |-> published[slug], ticket |-> ticket, since |-> since]]
  /\ UNCHANGED <<world, codes, cookies>>

\* A browser opens an app with a cookie or without one, comes back with a code (that
\* was used before, perhaps), or is sent to the console.  All begin with apps.get.
Visit(v) ==
  \E s \in Slugs :
    \/ Arrive(v, "open", s, None, 0)
    \/ \E c \in Cookies : /\ cookies[c].state = "set"
                          /\ Arrive(v, "open", s, c, viewers[cookies[c].user].version)
    \/ \E c \in Codes : codes[c].state # "unused" /\ Arrive(v, "exchange", s, c, 0)
    \/ Arrive(v, "authorize", s, None, 0)

\* resolve(): the owner must be active; a public app needs the setting.  A code is
\* redeemed whatever resolve() says of the cookie, so it goes on at once.
ReadOwner(v) ==
  /\ At(v, "owner")
  /\ IF ~Active(visit[v].app.owner) THEN Over(v)
     ELSE Goto(v, IF visit[v].kind = "exchange" THEN "redeem"
                  ELSE IF visit[v].app.visibility = "public" THEN "setting" ELSE "cookie")
  /\ UNCHANGED <<world, codes, cookies>>

ReadSetting(v) ==
  /\ At(v, "setting")
  /\ Goto(v, IF publicLinks THEN "granted" ELSE "cookie")
  /\ UNCHANGED <<world, codes, cookies>>

\* PreviewAuth.verify: signed, for this app and not expired.  Without it the browser
\* is sent to the console.
Verify(v) ==
  /\ At(v, "cookie")
  /\ LET c == visit[v].ticket IN
     IF c # None /\ cookies[c].slug = visit[v].slug /\ cookies[c].state = "set"
     THEN Goto(v, "viewer") ELSE Over(v)
  /\ UNCHANGED <<world, codes, cookies>>

ReadViewer(v) ==
  /\ At(v, "viewer")
  /\ LET claims == cookies[visit[v].ticket]
         a == claims.user
     IN  IF Active(a) /\ viewers[a].version = claims.version /\ MayOpen(a, visit[v].app)
         THEN visit' = [visit EXCEPT ![v].step = "granted", ![v].kind = "vouched"]
         ELSE Over(v)
  /\ UNCHANGED <<world, codes, cookies>>

\* The tunnel to the owner's runner is opened.
Granted(v) ==
  /\ At(v, "granted")
  /\ Over(v)
  /\ UNCHANGED <<world, codes, cookies>>

----------------------------------------------------------------------------
\* GET /preview/authorize: the session of an active account that may open the app,
\* and a code for it.
Authorize(v) ==
  /\ At(v, "session")
  /\ \/ \E a \in Viewers, c \in Codes :
          /\ Active(a) /\ MayOpen(a, visit[v].app)
          /\ Cardinality({d \in Codes : codes[d].state = "live"}) < MaxCodes
          /\ codes[c].state = "unused"
          /\ codes' = [codes EXCEPT ![c] = [state |-> "live", slug |-> visit[v].slug,
                         user |-> a, version |-> viewers[a].version, source |-> None]]
     \/ UNCHANGED codes
  /\ Over(v)
  /\ UNCHANGED <<world, cookies>>

\* redeem(): the code is forgotten, whether or not it fits.
Redeem(v) ==
  /\ At(v, "redeem")
  /\ LET c == visit[v].ticket IN
     /\ codes' = [codes EXCEPT ![c].state = "spent"]
     /\ IF codes[c].state = "live" /\ codes[c].slug = visit[v].slug
        THEN Goto(v, "confirm") ELSE Over(v)
  /\ UNCHANGED <<world, cookies>>

\* Faulty variant: the viewer only has to be active when the code is exchanged.
ConfirmActive(v) ==
  /\ At(v, "confirm")
  /\ LET a == codes[visit[v].ticket].user IN
     IF Active(a) /\ MayOpen(a, visit[v].app)
     THEN visit' = [visit EXCEPT ![v].step = "seal", ![v].since = viewers[a].version]
     ELSE Over(v)
  /\ UNCHANGED <<world, codes, cookies>>

\* The viewer is read again and must be as the code says; what was read goes into
\* the cookie.
Confirm(v) ==
  /\ At(v, "confirm")
  /\ LET entry == codes[visit[v].ticket]
         a == entry.user
     IN  IF Active(a) /\ viewers[a].version = entry.version /\ MayOpen(a, visit[v].app)
         THEN visit' = [visit EXCEPT ![v].step = "seal", ![v].since = viewers[a].version]
         ELSE Over(v)
  /\ UNCHANGED <<world, codes, cookies>>

\* The audit record is written, the cookie signed and set.
Seal(v) ==
  /\ At(v, "seal")
  /\ \E c \in Cookies :
       /\ cookies[c].state = "unused"
       /\ cookies' = [cookies EXCEPT ![c] =
            [state |-> "set", slug |-> visit[v].slug, user |-> codes[visit[v].ticket].user,
             version |-> visit[v].since, source |-> visit[v].ticket]]
  /\ Over(v)
  /\ UNCHANGED <<world, codes>>

\* A code is kept for a minute, a cookie for twelve hours.
CodeExpires(c) ==
  /\ codes[c].state = "live"
  /\ codes' = [codes EXCEPT ![c].state = "spent"]
  /\ UNCHANGED <<world, cookies, visit>>

CookieExpires(c) ==
  /\ cookies[c].state = "set"
  /\ cookies' = [cookies EXCEPT ![c].state = "expired"]
  /\ UNCHANGED <<world, codes, visit>>

----------------------------------------------------------------------------
\* UserStore.update and revokeAccess.
ChangeViewer(a) ==
  /\ events < MaxEvents
  /\ events' = events + 1
  /\ \E r \in Roles, s \in Statuses :
       viewers' = [viewers EXCEPT ![a] = [role |-> r, status |-> s, version |-> @.version + 1]]
  /\ UNCHANGED <<published, publicLinks, codes, cookies, visit>>

\* An app is published, changed, removed, or its name taken by another account.
Publish(s) ==
  /\ events < MaxEvents
  /\ events' = events + 1
  /\ \E app \in App \cup {None} :
       /\ app # published[s]
       /\ published' = [published EXCEPT ![s] = app]
  /\ UNCHANGED <<viewers, publicLinks, codes, cookies, visit>>

SetPublicLinks ==
  /\ events < MaxEvents
  /\ events' = events + 1
  /\ publicLinks' = ~publicLinks
  /\ UNCHANGED <<viewers, published, codes, cookies, visit>>

Next ==
  \/ \E v \in Visits :
       \/ Visit(v) \/ ReadOwner(v) \/ ReadSetting(v) \/ Verify(v)
       \/ ReadViewer(v) \/ Granted(v) \/ Authorize(v) \/ Redeem(v) \/ Confirm(v) \/ Seal(v)
  \/ \E c \in Codes : CodeExpires(c)
  \/ \E c \in Cookies : CookieExpires(c)
  \/ \E a \in Viewers : ChangeViewer(a)
  \/ \E s \in Slugs : Publish(s)
  \/ SetPublicLinks

Spec == Init /\ [][Next]_previewVars

----------------------------------------------------------------------------
\* The state is well formed (PreviewAuth, the requests of the preview listener).
TypeOK ==
  /\ viewers \in [Viewers -> Viewer]
  /\ published \in [Slugs -> App \cup {None}]
  /\ publicLinks \in BOOLEAN
  /\ \A c \in Codes : codes[c].state \in {"unused", "live", "spent"}
  /\ \A c \in Cookies : cookies[c].state \in {"unused", "set", "expired"}
  /\ \A v \in Visits : /\ visit[v].step \in Steps
                       /\ visit[v].app \in App \cup {None}
                       /\ visit[v].ticket \in Codes \cup Cookies \cup {None}
  /\ events \in 0..MaxEvents

\* Once an account is revoked, changed or disabled, no request that begins afterwards
\* is let in by what the account signed in for before: neither by a cookie, nor by one
\* that a code issued before the change, and under way at the time, was changed for.
RevocationEndsPreview ==
  \A v \in Visits :
    At(v, "granted") /\ visit[v].kind = "vouched" =>
      codes[cookies[visit[v].ticket].source].version >= visit[v].since
=============================================================================
