---------------------------------- MODULE Apps ----------------------------------
(***************************************************************************)
(* Apps: named server commands of an account, deployed, stopped and        *)
(* removed from the console and by the MCP tools (apps.ts, app-store.ts,   *)
(* the app routes of admin-routes.ts, the app tools of mcp-tools.ts).      *)
(*                                                                         *)
(* A handler of the gateway runs from one await to the next in one step:   *)
(* a read or an update of apps.json, a read of the settings, a call to the *)
(* runner.  An administrator who acts for an account is a handler of that  *)
(* account.  Input validation and the listings change nothing and are left *)
(* out.                                                                    *)
(***************************************************************************)
EXTENDS Naturals, FiniteSets

CONSTANTS
  Owners,      \* accounts
  Names,       \* app names, global to the installation
  Procs,       \* processes a runner can start: bounds the deployments
  Handlers,    \* requests under way at once
  MaxApps,     \* MAX_APPS_PER_ACCOUNT
  MaxFaults,   \* calls to the runner that fail: a bound
  None

ASSUME AppsAssumption ==
  /\ MaxApps \in Nat \ {0} /\ MaxFaults \in Nat
  /\ None \notin Owners \cup Names \cup Procs \cup {"private", "public"}

VARIABLES
  apps,        \* apps.json: the record of each name
  procs,       \* the processes of the runners
  publicApps,  \* the setting that allows public links
  handler,     \* what each handler does and remembers
  faults,      \* calls that failed so far
  overlapped   \* history: two deployments, stops or removals of one app overlapped

appVars == <<apps, procs, publicApps, handler, faults, overlapped>>

Visibilities == {"private", "public"}
Ops == {"create", "deploy", "start", "stop", "delete", "visibility"}
Lifecycle == Ops \ {"visibility"}
Pcs == {"idle", "find", "visible", "exists", "current", "save", "halt", "launch",
        "record", "forget", "remove", "show"}

App == [owner : Owners, proc : Procs \cup {None}, visibility : Visibilities]

ASSUME NoneIsNoApp == None \notin App

Idle == [pc |-> "idle", op |-> None, owner |-> None, name |-> None,
         visibility |-> None, target |-> None]

Init ==
  /\ apps = [n \in Names |-> None]
  /\ procs = [p \in Procs |-> [state |-> "unused", owner |-> None, app |-> None]]
  /\ publicApps = TRUE
  /\ handler = [h \in Handlers |-> Idle]
  /\ faults = 0
  /\ overlapped = FALSE

----------------------------------------------------------------------------
At(h, pc) == handler[h].pc = pc
Goto(h, pc) == handler' = [handler EXCEPT ![h].pc = pc]
Aim(h, pc, p) == handler' = [handler EXCEPT ![h].pc = pc, ![h].target = p]
Done(h) == handler' = [handler EXCEPT ![h] = Idle]

Owns(h, n) == apps[n] # None /\ apps[n].owner = handler[h].owner
Taken(h, n) == apps[n] # None /\ apps[n].owner # handler[h].owner
ProcOf(n) == IF apps[n] = None THEN None ELSE apps[n].proc
NameOf(h) == handler[h].name

\* A request arrives.  Creating and deploying name the visibility they want,
\* starting again takes it from the stored app.
Begin(h, o, op, n, v) ==
  /\ At(h, "idle")
  /\ handler' = [handler EXCEPT ![h] =
       [pc |-> IF op \in {"create", "deploy"} THEN "visible" ELSE "find", op |-> op,
        owner |-> o, name |-> n, visibility |-> v, target |-> None]]
  /\ overlapped' = (overlapped \/ /\ op \in Lifecycle
                                  /\ \E g \in Handlers : /\ handler[g].name = n
                                                         /\ handler[g].op \in Lifecycle)
  /\ UNCHANGED <<apps, procs, publicApps, faults>>

\* appFor, ownApp: the record as it is now, refused to everyone but its owner.
Find(h) ==
  /\ At(h, "find")
  /\ \/ ~Owns(h, NameOf(h)) /\ Done(h)
     \/ /\ Owns(h, NameOf(h))
        /\ \/ handler[h].op = "visibility" /\ Goto(h, "visible")
           \/ /\ handler[h].op = "start"
              /\ handler' = [handler EXCEPT ![h].pc = "visible",
                                            ![h].visibility = apps[NameOf(h)].visibility]
           \/ /\ handler[h].op \in {"stop", "delete"}
              /\ Aim(h, "halt", ProcOf(NameOf(h)))
  /\ UNCHANGED <<apps, procs, publicApps, faults, overlapped>>

\* requireVisibility, publicAllowed: a public link needs the setting.
Visible(h) ==
  /\ At(h, "visible")
  /\ IF handler[h].visibility = "public" /\ ~publicApps THEN Done(h)
     ELSE \/ handler[h].op = "create" /\ Goto(h, "exists")
          \/ handler[h].op = "visibility" /\ Goto(h, "show")
          \/ handler[h].op \in {"deploy", "start"} /\ Goto(h, "current")
  /\ UNCHANGED <<apps, procs, publicApps, faults, overlapped>>

\* The console creates new names only.
Exists(h) ==
  /\ At(h, "exists")
  /\ IF apps[NameOf(h)] # None THEN Done(h) ELSE Goto(h, "current")
  /\ UNCHANGED <<apps, procs, publicApps, faults, overlapped>>

\* deploy(): the app before it is saved; its process is the one to stop.
Current(h) ==
  /\ At(h, "current")
  /\ IF Taken(h, NameOf(h)) THEN Done(h) ELSE Aim(h, "save", ProcOf(NameOf(h)))
  /\ UNCHANGED <<apps, procs, publicApps, faults, overlapped>>

Full(o) == Cardinality({n \in Names : apps[n] # None /\ apps[n].owner = o}) >= MaxApps

\* AppStore.save: one update, which keeps the process of an existing record.
Save(h) ==
  /\ At(h, "save")
  /\ LET n == NameOf(h) IN
     \/ /\ Taken(h, n) \/ (apps[n] = None /\ Full(handler[h].owner))
        /\ Done(h)
        /\ UNCHANGED apps
     \/ /\ ~Taken(h, n) /\ ~(apps[n] = None /\ Full(handler[h].owner))
        /\ apps' = [apps EXCEPT ![n] = [owner |-> handler[h].owner, proc |-> ProcOf(n),
                                        visibility |-> handler[h].visibility]]
        /\ Goto(h, "halt")
  /\ UNCHANGED <<procs, publicApps, faults, overlapped>>

AfterHalt(h) ==
  CASE handler[h].op = "stop" -> "forget"
    [] handler[h].op = "delete" -> "remove"
    [] OTHER -> "launch"

\* Faulty variant: a deployment leaves the old process.
HaltForStopOnly(h) ==
  /\ At(h, "halt")
  /\ procs' = IF handler[h].target # None /\ handler[h].op \in {"stop", "delete"}
              THEN [procs EXCEPT ![handler[h].target].state = "ended"] ELSE procs
  /\ Aim(h, AfterHalt(h), None)
  /\ UNCHANGED <<apps, publicApps, faults, overlapped>>

\* stopProcess(): nothing to stop, or a process_stop that ends the process (or
\* finds it over), or one that fails, with or without its effect.  No caller
\* looks at the result before it goes on.
Halt(h) ==
  /\ At(h, "halt")
  /\ \/ /\ procs' = IF handler[h].target = None THEN procs
                    ELSE [procs EXCEPT ![handler[h].target].state = "ended"]
        /\ UNCHANGED faults
     \/ /\ handler[h].target # None /\ faults < MaxFaults
        /\ faults' = faults + 1
        /\ procs' \in {procs, [procs EXCEPT ![handler[h].target].state = "ended"]}
  /\ Aim(h, AfterHalt(h), None)
  /\ UNCHANGED <<apps, publicApps, overlapped>>

Started(h, p) ==
  [procs EXCEPT ![p] = [state |-> "running", owner |-> handler[h].owner, app |-> NameOf(h)]]

\* process_start: a process whose id is returned, or a call that fails, with or
\* without a process it leaves behind.
Launch(h) ==
  /\ At(h, "launch")
  /\ \/ \E p \in Procs : /\ procs[p].state = "unused"
                         /\ procs' = Started(h, p)
                         /\ Aim(h, "record", p)
        /\ UNCHANGED faults
     \/ /\ faults < MaxFaults
        /\ faults' = faults + 1
        /\ \/ UNCHANGED procs
           \/ \E p \in Procs : procs[p].state = "unused" /\ procs' = Started(h, p)
        /\ Aim(h, "record", None)
  /\ UNCHANGED <<apps, publicApps, overlapped>>

\* Faulty variant: the owner of the record is not compared.
RecordForAnyOwner(h) ==
  /\ At(h, "record")
  /\ apps' = IF apps[NameOf(h)] # None
             THEN [apps EXCEPT ![NameOf(h)].proc = handler[h].target] ELSE apps
  /\ Done(h)
  /\ UNCHANGED <<procs, publicApps, faults, overlapped>>

\* AppStore.update, as deploy() and stop() end: refused when the app is gone or
\* has become another account's.
Record(h) ==
  /\ At(h, "record") \/ At(h, "forget")
  /\ apps' = IF Owns(h, NameOf(h))
             THEN [apps EXCEPT ![NameOf(h)].proc = handler[h].target] ELSE apps
  /\ Done(h)
  /\ UNCHANGED <<procs, publicApps, faults, overlapped>>

\* AppStore.remove.
Remove(h) ==
  /\ At(h, "remove")
  /\ apps' = IF Owns(h, NameOf(h)) THEN [apps EXCEPT ![NameOf(h)] = None] ELSE apps
  /\ Done(h)
  /\ UNCHANGED <<procs, publicApps, faults, overlapped>>

\* The visibility of an app is changed, in the record as it is then.
Show(h) ==
  /\ At(h, "show")
  /\ apps' = IF Owns(h, NameOf(h))
             THEN [apps EXCEPT ![NameOf(h)].visibility = handler[h].visibility] ELSE apps
  /\ Done(h)
  /\ UNCHANGED <<procs, publicApps, faults, overlapped>>

\* A server ends by itself.
ServerExits(p) ==
  /\ procs[p].state = "running"
  /\ procs' = [procs EXCEPT ![p].state = "ended"]
  /\ UNCHANGED <<apps, publicApps, handler, faults, overlapped>>

\* The administrator allows or forbids public links.
SetPublicApps ==
  /\ publicApps' = ~publicApps
  /\ UNCHANGED <<apps, procs, handler, faults, overlapped>>

Next ==
  \/ \E h \in Handlers :
       \/ \E o \in Owners, n \in Names :
            \/ \E op \in {"create", "deploy", "visibility"}, v \in Visibilities :
                 Begin(h, o, op, n, v)
            \/ \E op \in {"start", "stop", "delete"} : Begin(h, o, op, n, None)
       \/ Find(h) \/ Visible(h) \/ Exists(h) \/ Current(h) \/ Save(h) \/ Halt(h)
       \/ Launch(h) \/ Record(h) \/ Remove(h) \/ Show(h)
  \/ \E p \in Procs : ServerExits(p)
  \/ SetPublicApps

Spec == Init /\ [][Next]_appVars

----------------------------------------------------------------------------
\* The state is well formed (apps.json, the handlers, the runners' processes).
TypeOK ==
  /\ apps \in [Names -> App \cup {None}]
  /\ procs \in [Procs -> [state : {"unused", "running", "ended"},
                          owner : Owners \cup {None}, app : Names \cup {None}]]
  /\ publicApps \in BOOLEAN
  /\ handler \in [Handlers -> [pc : Pcs, op : Ops \cup {None}, owner : Owners \cup {None},
                               name : Names \cup {None},
                               visibility : Visibilities \cup {None},
                               target : Procs \cup {None}]]
  /\ faults \in 0..MaxFaults
  /\ overlapped \in BOOLEAN

\* The process an app names was started for this app and in its owner's runner,
\* even when the app was removed and its name taken by another account while an
\* earlier deployment was still under way (the owner check of update()).
ProcessOfOwner ==
  \A n \in Names : ProcOf(n) # None => /\ procs[ProcOf(n)].owner = apps[n].owner
                                       /\ procs[ProcOf(n)].app = n

\* As long as no call to a runner failed and no two deployments, stops or
\* removals of one app overlapped, every running server is known to its app, or
\* about to be recorded: redeploying, stopping and removing leave none behind.
ServersAreTracked ==
  ~overlapped /\ faults = 0 =>
    \A p \in Procs : procs[p].state = "running" =>
      \/ ProcOf(procs[p].app) = p
      \/ \E h \in Handlers : At(h, "record") /\ handler[h].target = p

=============================================================================
