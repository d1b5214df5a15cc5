---------------------------- MODULE Apps_proofs ----------------------------
(***************************************************************************)
(* Proofs about the deployment of apps: type correctness, that an app      *)
(* never names a process of another account or of another app, and that    *)
(* the servers left running are known to their apps, for any number of     *)
(* accounts, names, processes and concurrent requests.                     *)
(***************************************************************************)
EXTENDS Apps, TLAPS

\* What a request remembers is complete: the account and the name from its
\* beginning, the visibility where it is used.  Only deployments, stops and
\* removals get past the checks.
Shown == {"visible", "exists", "current", "save", "show"}
Busy == {"exists", "current", "save", "halt", "launch", "record", "forget", "remove"}

Requests == [pc : Pcs, op : Ops \cup {None}, owner : Owners \cup {None},
             name : Names \cup {None}, visibility : Visibilities \cup {None},
             target : Procs \cup {None}]
Servers == [state : {"unused", "running", "ended"}, owner : Owners \cup {None},
            app : Names \cup {None}]

HandlerInv ==
  \A h \in Handlers :
    /\ ~At(h, "idle") => /\ handler[h].op \in Ops
                         /\ handler[h].owner \in Owners
                         /\ handler[h].name \in Names
    /\ handler[h].pc \in Shown \/ (At(h, "find") /\ handler[h].op = "visibility")
         => handler[h].visibility \in Visibilities
    /\ handler[h].pc \in Busy => handler[h].op \in Lifecycle
    /\ At(h, "forget") => handler[h].target = None

\* A process that is recorded, or about to be, was started for that app in the
\* runner of its owner.
OwnInv ==
  /\ \A n \in Names :
       ProcOf(n) # None => /\ procs[ProcOf(n)].state # "unused"
                           /\ procs[ProcOf(n)].owner = apps[n].owner
                           /\ procs[ProcOf(n)].app = n
  /\ \A h \in Handlers :
       At(h, "record") /\ handler[h].target # None =>
         /\ procs[handler[h].target].state # "unused"
         /\ procs[handler[h].target].owner = handler[h].owner
         /\ procs[handler[h].target].app = NameOf(h)

\* A process that runs is one of an app.
StartedInv == \A p \in Procs : procs[p].state = "running" => procs[p].app \in Names

\* A request that has an app to itself finds it as it read it: the process it
\* stops is the one recorded, and afterwards no recorded process runs.
OwnedAt == {"halt", "launch", "record", "forget", "remove"}
HaltedAt == {"launch", "record", "forget", "remove"}

Exclusive ==
  \A g, h \in Handlers :
    /\ ~At(g, "idle") /\ handler[g].op \in Lifecycle
    /\ ~At(h, "idle") /\ handler[h].op \in Lifecycle
    /\ handler[g].name = handler[h].name
    => g = h

OwnsIt == \A h \in Handlers : handler[h].pc \in OwnedAt => Owns(h, NameOf(h))

KnowsIt ==
  \A h \in Handlers :
    handler[h].pc \in {"save", "halt"} => handler[h].target = ProcOf(NameOf(h))

NoneRuns ==
  \A h \in Handlers :
    handler[h].pc \in HaltedAt /\ ProcOf(NameOf(h)) # None =>
      procs[ProcOf(NameOf(h))].state # "running"

Known(p) ==
  \/ ProcOf(procs[p].app) = p
  \/ \E h \in Handlers : At(h, "record") /\ handler[h].target = p

TrackInv ==
  ~overlapped =>
    /\ Exclusive /\ OwnsIt /\ KnowsIt
    /\ faults = 0 => /\ NoneRuns
                     /\ \A p \in Procs : procs[p].state = "running" => Known(p)

TypeInv == TypeOK /\ HandlerInv

-----------------------------------------------------------------------------
LEMMA InitTyping == Init => TypeInv
<1> SUFFICES ASSUME Init
             PROVE  TypeInv
  OBVIOUS
<1>1. TypeOK
  <2>1. 0 \in 0..MaxFaults
    BY AppsAssumption
  <2>2. Idle \in Requests
    BY DEF Idle, Pcs, Requests
  <2> QED
    BY <2>1, <2>2 DEF Init, TypeOK, Requests
<1>2. HandlerInv
  BY DEF Init, HandlerInv, Idle, At, Shown, Busy
<1> QED
  BY <1>1, <1>2 DEF TypeInv

(* Where a step takes a request, and what it leaves of it.                    *)
SameBut(h, pc, p) ==
  /\ handler' \in [Handlers -> Requests]
  /\ \A g \in Handlers \ {h} : handler'[g] = handler[g]
  /\ handler'[h].pc = pc /\ handler'[h].target = p
  /\ handler'[h].op = handler[h].op /\ handler'[h].owner = handler[h].owner
  /\ handler'[h].name = handler[h].name

LEMMA AimLeads ==
  ASSUME TypeOK, NEW h \in Handlers, NEW pc \in Pcs, NEW p \in Procs \cup {None}, Aim(h, pc, p)
  PROVE  SameBut(h, pc, p) /\ handler'[h].visibility = handler[h].visibility
BY DEF TypeOK, Requests, Aim, SameBut

LEMMA GotoLeads ==
  ASSUME TypeOK, NEW h \in Handlers, NEW pc \in Pcs, Goto(h, pc)
  PROVE  /\ SameBut(h, pc, handler[h].target)
         /\ handler'[h].visibility = handler[h].visibility
BY DEF TypeOK, Requests, Goto, SameBut

LEMMA DoneLeads ==
  ASSUME TypeOK, NEW h \in Handlers, Done(h)
  PROVE  /\ handler' \in [Handlers -> Requests]
         /\ \A g \in Handlers \ {h} : handler'[g] = handler[g]
         /\ handler'[h] = Idle
<1>1. Idle \in Requests
  BY DEF Idle, Requests, Pcs
<1> QED
  BY <1>1 DEF TypeOK, Requests, Done

LEMMA ProcOfType ==
  ASSUME TypeOK, NEW n \in Names
  PROVE  ProcOf(n) \in Procs \cup {None}
BY DEF TypeOK, ProcOf, App

LEMMA TypingStep ==
  ASSUME TypeInv, [Next]_appVars
  PROVE  TypeInv'
<1> USE AppsAssumption DEF TypeInv
<1>1. ASSUME NEW h \in Handlers, NEW o \in Owners, NEW n \in Names, NEW op \in Ops,
             NEW v \in Visibilities \cup {None}, Begin(h, o, op, n, v),
             op \in {"create", "deploy", "visibility"} => v \in Visibilities
      PROVE  TypeInv'
  <2>1. TypeOK'
    BY <1>1 DEF TypeOK, Begin, Pcs, Ops, Visibilities
  <2>2. HandlerInv'
    BY <1>1 DEF TypeOK, HandlerInv, Begin, At, Shown, Busy, Ops, Visibilities
  <2> QED
    BY <2>1, <2>2
<1>2. ASSUME NEW h \in Handlers, Find(h)
      PROVE  TypeInv'
  <2>1. ProcOf(NameOf(h)) \in Procs \cup {None} /\ NameOf(h) \in Names
    BY <1>2, ProcOfType DEF Find, HandlerInv, NameOf, At
  <2>2. CASE ~Owns(h, NameOf(h))
    BY <1>2, <2>2, DoneLeads
       DEF TypeOK, HandlerInv, Find, Idle, At, Shown, Busy, Requests
  <2>3. CASE handler[h].op = "visibility" /\ Goto(h, "visible")
    BY <1>2, <2>3, GotoLeads
       DEF TypeOK, HandlerInv, Find, At, Shown, Busy, Requests, SameBut, Pcs
  <2>4. CASE Owns(h, NameOf(h)) /\ handler[h].op = "start"
    <3>1. apps[NameOf(h)].visibility \in Visibilities
      BY <2>1, <2>4 DEF TypeOK, Owns, App
    <3>2. PICK v \in Visibilities :
            handler' = [handler EXCEPT ![h] = [@ EXCEPT !.pc = "visible", !.visibility = v]]
      BY <1>2, <2>4, <3>1 DEF Find, TypeOK
    <3>3. [handler[h] EXCEPT !.pc = "visible", !.visibility = v] \in Requests
      BY DEF TypeOK, Requests, Pcs
    <3>4. handler' \in [Handlers -> Requests]
      BY <3>2, <3>3 DEF TypeOK, Requests
    <3> QED
      BY <1>2, <3>2, <3>4 DEF TypeOK, HandlerInv, Find, At, Shown, Busy, Requests
  <2>5. CASE handler[h].op \in {"stop", "delete"} /\ Aim(h, "halt", ProcOf(NameOf(h)))
    <3>1. SameBut(h, "halt", ProcOf(NameOf(h)))
      BY <2>1, <2>5, AimLeads DEF Pcs
    <3>2. handler[h].op \in Lifecycle
      BY <2>5 DEF Lifecycle, Ops
    <3> QED
      BY <1>2, <3>1, <3>2 DEF TypeOK, HandlerInv, Find, At, Shown, Busy, Requests, SameBut
  <2> QED
    BY <1>2, <2>2, <2>3, <2>4, <2>5 DEF Find
<1>3. ASSUME NEW h \in Handlers, Visible(h)
      PROVE  TypeInv'
  <2>1. CASE Done(h)
    BY <1>3, <2>1, DoneLeads DEF TypeOK, HandlerInv, Visible, Idle, At, Shown, Busy, Requests
  <2>2. ASSUME NEW pc \in {"exists", "show", "current"}, Goto(h, pc),
               pc # "show" => handler[h].op \in Lifecycle
        PROVE  TypeInv'
    BY <1>3, <2>2, GotoLeads
       DEF TypeOK, HandlerInv, Visible, At, Shown, Busy, Requests, SameBut, Pcs
  <2> QED
    BY <1>3, <2>1, <2>2 DEF Visible, Lifecycle, Ops
<1>4. ASSUME NEW h \in Handlers, Exists(h)
      PROVE  TypeInv'
  <2>1. CASE Done(h)
    BY <1>4, <2>1, DoneLeads DEF TypeOK, HandlerInv, Exists, Idle, At, Shown, Busy, Requests
  <2>2. CASE Goto(h, "current")
    <3>1. /\ SameBut(h, "current", handler[h].target)
          /\ handler'[h].visibility = handler[h].visibility
      BY <2>2, GotoLeads DEF Pcs, TypeOK
    <3> QED
      BY <1>4, <3>1 DEF TypeOK, HandlerInv, Exists, At, Shown, Busy, Requests, SameBut
  <2> QED
    BY <1>4, <2>1, <2>2 DEF Exists
<1>5. ASSUME NEW h \in Handlers, Current(h)
      PROVE  TypeInv'
  <2>1. ProcOf(NameOf(h)) \in Procs \cup {None} /\ NameOf(h) \in Names
    BY <1>5, ProcOfType DEF Current, HandlerInv, NameOf, At
  <2>2. CASE Done(h)
    BY <1>5, <2>2, DoneLeads DEF TypeOK, HandlerInv, Current, Idle, At, Shown, Busy, Requests
  <2>3. CASE Aim(h, "save", ProcOf(NameOf(h)))
    <3>1. /\ SameBut(h, "save", ProcOf(NameOf(h)))
          /\ handler'[h].visibility = handler[h].visibility
      BY <2>1, <2>3, AimLeads DEF Pcs
    <3> QED
      BY <1>5, <3>1 DEF TypeOK, HandlerInv, Current, At, Shown, Busy, Requests, SameBut
  <2> QED
    BY <1>5, <2>2, <2>3 DEF Current
<1>6. ASSUME NEW h \in Handlers, Save(h)
      PROVE  TypeInv'
  <2>1. /\ ProcOf(NameOf(h)) \in Procs \cup {None} /\ NameOf(h) \in Names
        /\ handler[h].owner \in Owners /\ handler[h].visibility \in Visibilities
    BY <1>6, ProcOfType DEF Save, HandlerInv, NameOf, At, Shown
  <2>2. apps' \in [Names -> App \cup {None}]
    BY <1>6, <2>1 DEF TypeOK, Save, App
  <2>3. CASE Done(h)
    BY <1>6, <2>2, <2>3, DoneLeads
       DEF TypeOK, HandlerInv, Save, Idle, At, Shown, Busy, Requests
  <2>4. CASE Goto(h, "halt")
    BY <1>6, <2>2, <2>4, GotoLeads
       DEF TypeOK, HandlerInv, Save, At, Shown, Busy, Requests, SameBut, Pcs
  <2> QED
    BY <1>6, <2>3, <2>4 DEF Save
<1>7. ASSUME NEW h \in Handlers, Halt(h)
      PROVE  TypeInv'
  <2>1. AfterHalt(h) \in {"forget", "remove", "launch"}
    BY DEF AfterHalt
  <2>2. SameBut(h, AfterHalt(h), None)
    BY <1>7, <2>1, AimLeads DEF Halt, Pcs
  <2>3. handler[h].op \in Lifecycle
    BY <1>7 DEF HandlerInv, Halt, At, Busy
  <2>4. procs' \in [Procs -> Servers]
    <3> DEFINE t == handler[h].target
    <3>1. t \in Procs \cup {None} /\ procs \in [Procs -> Servers]
      BY DEF TypeOK, Servers
    <3>2. t # None => [procs EXCEPT ![t].state = "ended"] \in [Procs -> Servers]
      BY <3>1 DEF Servers
    <3> QED
      BY <1>7, <3>1, <3>2 DEF Halt
  <2>5. faults' \in 0..MaxFaults
    BY <1>7 DEF TypeOK, Halt
  <2>6. TypeOK'
    BY <1>7, <2>2, <2>4, <2>5 DEF TypeOK, Halt, SameBut, Servers, Requests
  <2>7. HandlerInv'
    BY <1>7, <2>1, <2>2, <2>3 DEF HandlerInv, Halt, SameBut, At, Shown, Busy
  <2> QED
    BY <2>6, <2>7
<1>8. ASSUME NEW h \in Handlers, Launch(h)
      PROVE  TypeInv'
  <2>1. /\ handler[h].owner \in Owners /\ NameOf(h) \in Names
        /\ handler[h].op \in Lifecycle
    BY <1>8 DEF Launch, HandlerInv, NameOf, At, Busy
  <2>2. PICK p \in Procs \cup {None} : SameBut(h, "record", p)
    BY <1>8, AimLeads DEF Launch, Pcs
  <2>3. procs' \in [Procs -> Servers]
    <3>1. \A q \in Procs : Started(h, q) \in [Procs -> Servers]
      BY <2>1 DEF TypeOK, Started, Servers
    <3>2. procs \in [Procs -> Servers]
      BY DEF TypeOK, Servers
    <3> QED
      BY <1>8, <3>1, <3>2 DEF Launch
  <2>4. faults' \in 0..MaxFaults
    BY <1>8 DEF TypeOK, Launch
  <2>5. TypeOK'
    BY <1>8, <2>2, <2>3, <2>4 DEF TypeOK, Launch, SameBut, Servers, Requests
  <2>6. HandlerInv'
    BY <1>8, <2>1, <2>2 DEF HandlerInv, Launch, SameBut, At, Shown, Busy
  <2> QED
    BY <2>5, <2>6
<1>9. ASSUME NEW h \in Handlers, Record(h) \/ Remove(h) \/ Show(h)
      PROVE  TypeInv'
  <2>1. NameOf(h) \in Names /\ (At(h, "show") => handler[h].visibility \in Visibilities)
    BY <1>9 DEF Record, Remove, Show, HandlerInv, NameOf, At, Shown
  <2>2. TypeOK'
    BY <1>9, <2>1 DEF TypeOK, Record, Remove, Show, Pcs, Idle, Done, Owns, App
  <2>3. HandlerInv'
    BY <1>9 DEF TypeOK, HandlerInv, Record, Remove, Show, Idle, Done, At, Shown, Busy
  <2> QED
    BY <2>2, <2>3
<1>10. ASSUME NEW p \in Procs, ServerExits(p)
       PROVE  TypeInv'
  BY <1>10 DEF TypeOK, HandlerInv, ServerExits, At
<1>11. CASE SetPublicApps
  BY <1>11 DEF TypeOK, HandlerInv, SetPublicApps, At
<1>12. CASE UNCHANGED appVars
  BY <1>12 DEF TypeOK, HandlerInv, appVars, At
<1> QED
  BY <1>1, <1>2, <1>3, <1>4, <1>5, <1>6, <1>7, <1>8, <1>9, <1>10, <1>11, <1>12
     DEF Next, Ops

\* The state is well formed in every behaviour: apps.json, the requests and the
\* processes of the runners stay of their kinds whatever overlaps.
THEOREM Typing == Spec => []TypeOK
<1>1. Init => TypeInv
  BY InitTyping
<1>2. TypeInv /\ [Next]_appVars => TypeInv'
  BY TypingStep
<1>3. TypeInv => TypeOK
  BY DEF TypeInv
<1> QED
  BY <1>1, <1>2, <1>3, PTL DEF Spec

-----------------------------------------------------------------------------
(* The processes of an app are its owner's.                                  *)
LEMMA OwnKept ==
  ASSUME TypeInv, OwnInv, UNCHANGED apps,
         \A p \in Procs : /\ procs'[p].owner = procs[p].owner
                          /\ procs'[p].app = procs[p].app
                          /\ procs[p].state # "unused" => procs'[p].state # "unused",
         \A h \in Handlers :
           At(h, "record")' /\ handler'[h].target # None =>
             /\ At(h, "record") /\ handler'[h].target = handler[h].target
             /\ handler'[h].owner = handler[h].owner /\ handler'[h].name = handler[h].name
  PROVE  OwnInv'
<1>1. \A n \in Names : ProcOf(n)' = ProcOf(n) /\ ProcOf(n) \in Procs \cup {None}
  BY ProcOfType DEF ProcOf, TypeInv
<1>2. \A h \in Handlers : handler[h].target \in Procs \cup {None}
  BY DEF TypeInv, TypeOK
<1> QED
  BY <1>1, <1>2 DEF OwnInv, At, NameOf

LEMMA OwnStep ==
  ASSUME TypeInv, OwnInv, [Next]_appVars
  PROVE  OwnInv'
<1> USE DEF TypeInv
<1>1. ASSUME NEW h \in Handlers, NEW o, NEW n, NEW op, NEW v, Begin(h, o, op, n, v)
      PROVE  OwnInv'
  BY <1>1, OwnKept DEF Begin, At, TypeOK
<1>2. ASSUME NEW h \in Handlers, NEW pc \in Pcs \ {"record"}, NEW p \in Procs \cup {None},
             UNCHANGED <<apps, procs>>, Done(h) \/ Goto(h, pc) \/ Aim(h, pc, p)
      PROVE  OwnInv'
  <2>1. \A g \in Handlers : g # h => handler'[g] = handler[g]
    BY <1>2, DoneLeads, GotoLeads, AimLeads DEF SameBut
  <2>2. ~At(h, "record")'
    BY <1>2, DoneLeads, GotoLeads, AimLeads DEF SameBut, At, Idle
  <2> QED
    BY <1>2, <2>1, <2>2, OwnKept DEF At
<1>3. ASSUME NEW h \in Handlers, Find(h)
      PROVE  OwnInv'
  <2>1. ProcOf(NameOf(h)) \in Procs \cup {None}
    BY <1>3, ProcOfType DEF Find, HandlerInv, NameOf, At
  <2>2. CASE handler' = [handler EXCEPT ![h].pc = "visible",
                                        ![h].visibility = apps[NameOf(h)].visibility]
    BY <1>3, <2>2, OwnKept DEF Find, At, TypeOK
  <2> QED
    BY <1>2, <1>3, <2>1, <2>2 DEF Find, Pcs
<1>4. ASSUME NEW h \in Handlers, Visible(h) \/ Exists(h)
      PROVE  OwnInv'
  BY <1>2, <1>4 DEF Visible, Exists, Pcs
<1>5. ASSUME NEW h \in Handlers, Current(h)
      PROVE  OwnInv'
  <2>1. ProcOf(NameOf(h)) \in Procs \cup {None}
    BY <1>5, ProcOfType DEF Current, HandlerInv, NameOf, At
  <2> QED
    BY <1>2, <1>5, <2>1 DEF Current, Pcs
<1>6. ASSUME NEW h \in Handlers, Save(h)
      PROVE  OwnInv'
  <2> PICK n \in Names : n = NameOf(h)
    BY <1>6 DEF Save, HandlerInv, At, NameOf
  <2>1. CASE Done(h) /\ UNCHANGED apps
    BY <1>2, <1>6, <2>1 DEF Save, Pcs
  <2>2. CASE ~Taken(h, n) /\ Goto(h, "halt")
             /\ apps' = [apps EXCEPT ![n] = [owner |-> handler[h].owner, proc |-> ProcOf(n),
                                             visibility |-> handler[h].visibility]]
    <3>1. SameBut(h, "halt", handler[h].target)
      BY <2>2, GotoLeads DEF Pcs
    <3>2. /\ handler[h].owner \in Owners /\ handler[h].visibility \in Visibilities
          /\ ProcOf(n) \in Procs \cup {None}
      BY <1>6, ProcOfType DEF Save, HandlerInv, At, Shown
    <3>3. apps'[n] = [owner |-> handler[h].owner, proc |-> ProcOf(n),
                      visibility |-> handler[h].visibility]
      BY <2>2 DEF TypeOK
    <3>4. \A m \in Names : ProcOf(m)' = ProcOf(m)
      BY <2>2, <3>2, <3>3, NoneIsNoApp DEF ProcOf, TypeOK, App
    <3>5. \A m \in Names : ProcOf(m) # None => apps'[m].owner = apps[m].owner
      BY <2>2, <3>3 DEF ProcOf, TypeOK, Taken
    <3>6. UNCHANGED procs
      BY <1>6 DEF Save
    <3> QED
      BY <3>1, <3>4, <3>5, <3>6 DEF OwnInv, SameBut, At, NameOf
  <2> QED
    BY <1>6, <2>1, <2>2 DEF Save
<1>7. ASSUME NEW h \in Handlers, Halt(h)
      PROVE  OwnInv'
  <2>1. AfterHalt(h) \in {"forget", "remove", "launch"}
    BY DEF AfterHalt
  <2>2. SameBut(h, AfterHalt(h), None)
    BY <1>7, <2>1, AimLeads DEF Halt, Pcs
  <2>3. \A p \in Procs : /\ procs'[p].owner = procs[p].owner
                         /\ procs'[p].app = procs[p].app
                         /\ procs[p].state # "unused" => procs'[p].state # "unused"
    <3> DEFINE t == handler[h].target
    <3>1. t \in Procs \cup {None}
      BY DEF TypeOK
    <3> HIDE DEF t
    <3>2. procs' = procs \/ (t # None /\ procs' = [procs EXCEPT ![t].state = "ended"])
      BY <1>7 DEF Halt, t
    <3> QED
      BY <3>1, <3>2 DEF TypeOK
  <2> QED
    BY <1>7, <2>1, <2>2, <2>3, OwnKept DEF Halt, SameBut, At
<1>8. ASSUME NEW h \in Handlers, Launch(h)
      PROVE  OwnInv'
  <2>1. PICK q \in Procs \cup {None} :
          /\ SameBut(h, "record", q)
          /\ \/ procs' = procs /\ q = None
             \/ \E p \in Procs : /\ procs[p].state = "unused" /\ procs' = Started(h, p)
                                 /\ q \in {p, None}
    BY <1>8, AimLeads DEF Launch, Pcs
  <2>2. CASE procs' = procs /\ q = None
    BY <1>8, <2>1, <2>2, OwnKept DEF Launch, SameBut, At
  <2>3. ASSUME NEW p \in Procs, procs[p].state = "unused", procs' = Started(h, p),
               q \in {p, None}
        PROVE  OwnInv'
    <3>1. procs'[p] = [state |-> "running", owner |-> handler[h].owner, app |-> NameOf(h)]
      BY <2>3 DEF Started, TypeOK
    <3>2. \A r \in Procs \ {p} : procs'[r] = procs[r]
      BY <2>3 DEF Started, TypeOK
    <3>3. \A n \in Names : ProcOf(n)' = ProcOf(n) /\ ProcOf(n) \in Procs \cup {None}
      BY <1>8, ProcOfType DEF ProcOf, Launch
    <3>4. \A n \in Names : ProcOf(n) # p
      BY <2>3, AppsAssumption DEF OwnInv
    <3>5. \A g \in Handlers : At(g, "record") => handler[g].target # p
      BY <2>3, AppsAssumption DEF OwnInv
    <3>6. \A g \in Handlers : handler[g].target \in Procs \cup {None}
      BY DEF TypeOK
    <3>7. \A n \in Names : ProcOf(n) # None => procs'[ProcOf(n)] = procs[ProcOf(n)]
      BY <3>2, <3>3, <3>4
    <3>8. \A g \in Handlers \ {h} : At(g, "record") /\ handler[g].target # None
                                      => procs'[handler[g].target] = procs[handler[g].target]
      BY <3>2, <3>5, <3>6
    <3>9. UNCHANGED apps
      BY <1>8 DEF Launch
    <3> QED
      BY <2>1, <2>3, <3>1, <3>3, <3>7, <3>8, <3>9 DEF OwnInv, SameBut, At, NameOf
  <2> QED
    BY <2>1, <2>2, <2>3
<1>9. ASSUME NEW h \in Handlers, Record(h)
      PROVE  OwnInv'
  <2> PICK n \in Names : n = NameOf(h)
    BY <1>9 DEF Record, HandlerInv, At, NameOf
  <2>1. /\ handler'[h] = Idle
        /\ \A g \in Handlers \ {h} : handler'[g] = handler[g]
    BY <1>9, DoneLeads DEF Record
  <2>2. UNCHANGED procs
    BY <1>9 DEF Record
  <2>3. CASE UNCHANGED apps
    BY <2>1, <2>2, <2>3, OwnKept DEF At, Idle
  <2>4. CASE Owns(h, n) /\ apps' = [apps EXCEPT ![n].proc = handler[h].target]
    <3>1. apps' = [apps EXCEPT ![n] = [apps[n] EXCEPT !.proc = handler[h].target]]
      BY <2>4
    <3>2. apps[n] \in App
      BY <2>4 DEF Owns, TypeOK
    <3>3. apps'[n].proc = handler[h].target /\ apps'[n].owner = handler[h].owner
      BY <2>4, <3>1, <3>2 DEF Owns, TypeOK, App
    <3>4. \A m \in Names \ {n} : apps'[m] = apps[m]
      BY <3>1 DEF TypeOK
    <3>5. ProcOf(n)' \in {handler[h].target, None}
      BY <3>3 DEF ProcOf
    <3>6. handler[h].target # None => At(h, "record")
      BY <1>9 DEF Record, HandlerInv
    <3>7. \A m \in Names \ {n} : ProcOf(m)' = ProcOf(m)
      BY <3>4 DEF ProcOf
    <3> QED
      BY <2>1, <2>2, <3>3, <3>4, <3>5, <3>6, <3>7 DEF OwnInv, At, Idle, NameOf
  <2> QED
    BY <1>9, <2>3, <2>4 DEF Record
<1>10. ASSUME NEW h \in Handlers, Remove(h) \/ Show(h)
       PROVE  OwnInv'
  <2> PICK n \in Names : n = NameOf(h)
    BY <1>10 DEF Remove, Show, HandlerInv, At, NameOf
  <2>1. /\ handler'[h] = Idle
        /\ \A g \in Handlers \ {h} : handler'[g] = handler[g]
    BY <1>10, DoneLeads DEF Remove, Show
  <2>2. UNCHANGED procs
    BY <1>10 DEF Remove, Show
  <2>3. CASE UNCHANGED apps
    BY <2>1, <2>2, <2>3, OwnKept DEF At, Idle
  <2>4. CASE apps' = [apps EXCEPT ![n] = None]
    BY <2>1, <2>2, <2>4 DEF OwnInv, At, Idle, NameOf, ProcOf, TypeOK
  <2>5. CASE Owns(h, n) /\ apps' = [apps EXCEPT ![n].visibility = handler[h].visibility]
    <3>1. apps[n] \in App
      BY <2>5 DEF Owns, TypeOK
    <3>2. apps'[n].proc = apps[n].proc /\ apps'[n].owner = apps[n].owner
      BY <2>5, <3>1 DEF TypeOK, App
    <3>3. \A m \in Names \ {n} : apps'[m] = apps[m]
      BY <2>5 DEF TypeOK
    <3>4. \A m \in Names : /\ ProcOf(m)' # None => ProcOf(m)' = ProcOf(m)
                           /\ ProcOf(m)' # None => apps'[m].owner = apps[m].owner
      BY <2>5, <3>2, <3>3 DEF ProcOf, Owns
    <3> QED
      BY <2>1, <2>2, <3>4 DEF OwnInv, At, Idle, NameOf
  <2> QED
    BY <1>10, <2>3, <2>4, <2>5 DEF Remove, Show
<1>11. ASSUME NEW p \in Procs, ServerExits(p)
       PROVE  OwnInv'
  BY <1>11, OwnKept DEF ServerExits, TypeOK, At
<1>12. CASE SetPublicApps \/ UNCHANGED appVars
  BY <1>12, OwnKept DEF SetPublicApps, appVars, At
<1> QED
  BY <1>1, <1>3, <1>4, <1>5, <1>6, <1>7, <1>8, <1>9, <1>10, <1>11, <1>12 DEF Next

LEMMA StartedStep ==
  ASSUME TypeInv, StartedInv, [Next]_appVars
  PROVE  StartedInv'
<1> USE DEF TypeInv
<1>1. ASSUME NEW h \in Handlers, Halt(h)
      PROVE  StartedInv'
  <2>1. PICK t \in Procs \cup {None} :
          procs' = procs \/ (t # None /\ procs' = [procs EXCEPT ![t].state = "ended"])
    BY <1>1 DEF Halt, TypeOK
  <2>2. \A p \in Procs : /\ procs'[p].app = procs[p].app
                         /\ procs'[p].state = "running" => procs[p].state = "running"
    BY <2>1 DEF TypeOK
  <2> QED
    BY <2>2 DEF StartedInv
<1>2. ASSUME NEW h \in Handlers, Launch(h)
      PROVE  StartedInv'
  <2>1. NameOf(h) \in Names
    BY <1>2 DEF Launch, HandlerInv, At, NameOf
  <2>2. CASE UNCHANGED procs
    BY <2>2 DEF StartedInv
  <2>3. ASSUME NEW p \in Procs, procs' = Started(h, p)
        PROVE  StartedInv'
    <3>1. procs'[p].app = NameOf(h) /\ \A q \in Procs \ {p} : procs'[q] = procs[q]
      BY <2>3 DEF Started, TypeOK
    <3> QED
      BY <2>1, <3>1 DEF StartedInv
  <2> QED
    BY <1>2, <2>2, <2>3 DEF Launch
<1>3. ASSUME NEW p \in Procs, ServerExits(p)
      PROVE  StartedInv'
  BY <1>3 DEF ServerExits, StartedInv, TypeOK
<1>4. CASE UNCHANGED procs
  BY <1>4 DEF StartedInv
<1> QED
  BY <1>1, <1>2, <1>3, <1>4
     DEF Next, Begin, Find, Visible, Exists, Current, Save, Record, Remove, Show,
         SetPublicApps, appVars

LEMMA OwnInvariance == Spec => [](TypeInv /\ OwnInv)
<1>1. Init => OwnInv
  BY DEF Init, OwnInv, ProcOf, At, Idle
<1>2. TypeInv /\ OwnInv /\ [Next]_appVars => TypeInv' /\ OwnInv'
  BY TypingStep, OwnStep
<1> QED
  BY <1>1, <1>2, InitTyping, PTL DEF Spec

\* The process an app names was started for this app in its owner's runner, although
\* a deployment looks at the record three times and launches a process in between.
THEOREM ProcessesAreOwn == Spec => []ProcessOfOwner
<1>1. TypeInv /\ OwnInv => ProcessOfOwner
  BY DEF OwnInv, ProcessOfOwner
<1> QED
  BY <1>1, OwnInvariance, PTL

-----------------------------------------------------------------------------
(* Nothing is left running.                                                  *)
LEMMA ExclusiveKept ==
  ASSUME Exclusive, NEW h \in Handlers,
         \A g \in Handlers \ {h} : handler'[g] = handler[g],
         \/ handler'[h].pc = "idle"
         \/ /\ ~At(h, "idle")
            /\ handler'[h].op = handler[h].op /\ handler'[h].name = handler[h].name
  PROVE  Exclusive'
BY DEF Exclusive, At

\* Nobody else gets past the checks for the app of a deployment, stop or removal.
LEMMA Alone ==
  ASSUME HandlerInv, Exclusive, NEW h \in Handlers, ~At(h, "idle"),
         handler[h].op \in Lifecycle,
         NEW g \in Handlers \ {h}, handler[g].pc \in Busy
  PROVE  handler[g].name # handler[h].name
BY DEF HandlerInv, Exclusive, At, Busy

\* A step of a request that changes neither the apps nor the processes.
LEMMA TrackKept ==
  ASSUME TypeInv, TrackInv, NEW h \in Handlers, ~At(h, "record"), ~At(h, "idle"),
         UNCHANGED <<apps, procs, faults, overlapped>>,
         \A g \in Handlers \ {h} : handler'[g] = handler[g],
         \/ handler'[h].pc = "idle"
         \/ /\ handler'[h].op = handler[h].op /\ handler'[h].name = handler[h].name
            /\ handler'[h].owner = handler[h].owner
            /\ handler'[h].pc \in OwnedAt => Owns(h, NameOf(h))
            /\ handler'[h].pc \in {"save", "halt"} => handler'[h].target = ProcOf(NameOf(h))
            /\ handler'[h].pc \notin HaltedAt
  PROVE  TrackInv'
<1> SUFFICES ASSUME ~overlapped
             PROVE  /\ Exclusive' /\ OwnsIt' /\ KnowsIt'
                    /\ faults = 0 =>
                         /\ NoneRuns'
                         /\ \A p \in Procs : procs[p].state = "running" => Known(p)'
  BY DEF TrackInv
<1>1. Exclusive'
  BY ExclusiveKept DEF TrackInv
<1>2. OwnsIt'
  BY DEF TrackInv, OwnsIt, OwnedAt, Owns, NameOf
<1>3. KnowsIt'
  BY DEF TrackInv, KnowsIt, ProcOf, NameOf
<1>4. faults = 0 => NoneRuns'
  BY DEF TrackInv, NoneRuns, HaltedAt, ProcOf, NameOf
<1>5. ASSUME faults = 0, NEW p \in Procs, procs[p].state = "running"
      PROVE  Known(p)'
  <2>1. Known(p)
    BY <1>5 DEF TrackInv
  <2> QED
    BY <2>1 DEF Known, ProcOf, At
<1> QED
  BY <1>1, <1>2, <1>3, <1>4, <1>5

LEMMA TrackStep ==
  ASSUME TypeInv, OwnInv, StartedInv, TrackInv, [Next]_appVars
  PROVE  TrackInv'
<1> USE DEF TypeInv
<1>1. ASSUME NEW h \in Handlers, NEW o \in Owners, NEW n \in Names, NEW op \in Ops,
             NEW v \in Visibilities \cup {None}, Begin(h, o, op, n, v)
      PROVE  TrackInv'
  <2> SUFFICES ASSUME ~overlapped'
               PROVE  TrackInv'
    BY DEF TrackInv
  <2>1. ~overlapped /\ UNCHANGED <<apps, procs, faults>>
    BY <1>1 DEF Begin, TypeOK
  <2>2. /\ \A g \in Handlers \ {h} : handler'[g] = handler[g]
        /\ handler'[h].pc \in {"visible", "find"}
        /\ handler'[h].op = op /\ handler'[h].name = n /\ At(h, "idle")
    BY <1>1 DEF Begin, TypeOK
  <2>3. op \in Lifecycle => ~\E g \in Handlers : handler[g].name = n /\ handler[g].op \in Lifecycle
    BY <1>1 DEF Begin, TypeOK
  <2>4. Exclusive'
    BY <2>1, <2>2, <2>3 DEF TrackInv, Exclusive, At
  <2>5. OwnsIt'
    BY <2>1, <2>2 DEF TrackInv, OwnsIt, OwnedAt, Owns, NameOf
  <2>6. KnowsIt'
    BY <2>1, <2>2 DEF TrackInv, KnowsIt, ProcOf, NameOf
  <2>7. faults = 0 => NoneRuns'
    BY <2>1, <2>2 DEF TrackInv, NoneRuns, HaltedAt, ProcOf, NameOf
  <2>8. \A p \in Procs : Known(p) => Known(p)'
    BY <2>1, <2>2 DEF Known, ProcOf, At
  <2> QED
    BY <2>1, <2>4, <2>5, <2>6, <2>7, <2>8 DEF TrackInv
<1>2. ASSUME NEW h \in Handlers, Find(h)
      PROVE  TrackInv'
  <2>1. /\ ProcOf(NameOf(h)) \in Procs \cup {None} /\ At(h, "find")
        /\ UNCHANGED <<apps, procs, faults, overlapped>>
    BY <1>2, ProcOfType DEF Find, HandlerInv, NameOf, At
  <2>2. CASE Done(h)
    BY <2>1, <2>2, DoneLeads, TrackKept DEF At, Idle
  <2>3. CASE Goto(h, "visible")
    BY <2>1, <2>3, GotoLeads, TrackKept DEF At, SameBut, Pcs, OwnedAt, HaltedAt
  <2>4. CASE handler' = [handler EXCEPT ![h].pc = "visible",
                                        ![h].visibility = apps[NameOf(h)].visibility]
    <3>1. /\ \A g \in Handlers \ {h} : handler'[g] = handler[g]
          /\ handler'[h].op = handler[h].op /\ handler'[h].name = handler[h].name
          /\ handler'[h].owner = handler[h].owner /\ handler'[h].pc = "visible"
      BY <2>4 DEF TypeOK
    <3> QED
      BY <2>1, <3>1, TrackKept DEF At, OwnedAt, HaltedAt
  <2>5. CASE Owns(h, NameOf(h)) /\ Aim(h, "halt", ProcOf(NameOf(h)))
    <3>1. SameBut(h, "halt", ProcOf(NameOf(h)))
      BY <2>1, <2>5, AimLeads DEF Pcs
    <3> QED
      BY <2>1, <2>5, <3>1, TrackKept DEF At, SameBut, HaltedAt
  <2> QED
    BY <1>2, <2>2, <2>3, <2>4, <2>5 DEF Find
<1>3. ASSUME NEW h \in Handlers, Visible(h) \/ Exists(h)
      PROVE  TrackInv'
  <2>1. /\ At(h, "visible") \/ At(h, "exists")
        /\ UNCHANGED <<apps, procs, faults, overlapped>>
    BY <1>3 DEF Visible, Exists
  <2>2. CASE Done(h)
    BY <2>1, <2>2, DoneLeads, TrackKept DEF At, Idle
  <2>3. ASSUME NEW pc \in {"exists", "show", "current"}, Goto(h, pc)
        PROVE  TrackInv'
    <3>1. SameBut(h, pc, handler[h].target)
      BY <2>3, GotoLeads DEF Pcs
    <3> QED
      BY <2>1, <3>1, TrackKept DEF At, SameBut, OwnedAt, HaltedAt
  <2> QED
    BY <1>3, <2>2, <2>3 DEF Visible, Exists
<1>4. ASSUME NEW h \in Handlers, Current(h)
      PROVE  TrackInv'
  <2>1. /\ ProcOf(NameOf(h)) \in Procs \cup {None} /\ At(h, "current")
        /\ UNCHANGED <<apps, procs, faults, overlapped>>
    BY <1>4, ProcOfType DEF Current, HandlerInv, NameOf, At
  <2>2. CASE Done(h)
    BY <2>1, <2>2, DoneLeads, TrackKept DEF At, Idle
  <2>3. CASE Aim(h, "save", ProcOf(NameOf(h)))
    <3>1. SameBut(h, "save", ProcOf(NameOf(h)))
      BY <2>1, <2>3, AimLeads DEF Pcs
    <3> QED
      BY <2>1, <3>1, TrackKept DEF At, SameBut, OwnedAt, HaltedAt
  <2> QED
    BY <1>4, <2>2, <2>3 DEF Current
<1>5. ASSUME NEW h \in Handlers, Save(h)
      PROVE  TrackInv'
  <2> PICK n \in Names : n = NameOf(h)
    BY <1>5 DEF Save, HandlerInv, At, NameOf
  <2>1. /\ At(h, "save") /\ UNCHANGED <<procs, faults, overlapped>>
        /\ handler[h].op \in Lifecycle
    BY <1>5 DEF Save, HandlerInv, At, Busy
  <2>2. CASE Done(h) /\ UNCHANGED apps
    BY <2>1, <2>2, DoneLeads, TrackKept DEF At, Idle
  <2>3. CASE ~Taken(h, n) /\ Goto(h, "halt")
             /\ apps' = [apps EXCEPT ![n] = [owner |-> handler[h].owner, proc |-> ProcOf(n),
                                             visibility |-> handler[h].visibility]]
    <3>1. SameBut(h, "halt", handler[h].target)
      BY <2>3, GotoLeads DEF Pcs
    <3>2. /\ handler[h].owner \in Owners /\ handler[h].visibility \in Visibilities
          /\ ProcOf(n) \in Procs \cup {None}
      BY <2>1, ProcOfType DEF HandlerInv, At, Shown
    <3>3. apps'[n] = [owner |-> handler[h].owner, proc |-> ProcOf(n),
                      visibility |-> handler[h].visibility]
      BY <2>3 DEF TypeOK
    <3>4. \A m \in Names : ProcOf(m)' = ProcOf(m)
      BY <2>3, <3>2, <3>3, NoneIsNoApp DEF ProcOf, TypeOK, App
    <3>5. \A m \in Names \ {n} : apps'[m] = apps[m]
      BY <2>3 DEF TypeOK
    <3>6. apps'[n] # None /\ apps'[n].owner = handler[h].owner
      BY <3>2, <3>3, NoneIsNoApp DEF App
    <3> SUFFICES ASSUME ~overlapped
                 PROVE  TrackInv'
      BY <2>1 DEF TrackInv
    <3>7. Exclusive'
      BY <2>1, <3>1, ExclusiveKept DEF TrackInv, SameBut, At
    <3>8. \A g \in Handlers : handler[g].pc \in Busy => handler[g].name \in Names
      BY DEF HandlerInv, At, Busy
    <3>9. OwnsIt'
      <4>1. ASSUME NEW g \in Handlers \ {h}, handler[g].pc \in OwnedAt
            PROVE  Owns(g, NameOf(g)) /\ apps'[NameOf(g)] = apps[NameOf(g)]
        BY <2>1, <3>5, <3>8, <4>1, Alone
           DEF TrackInv, OwnsIt, OwnedAt, Busy, NameOf, At
      <4> QED
        BY <3>1, <3>6, <4>1 DEF OwnsIt, Owns, NameOf, SameBut
    <3>10. KnowsIt'
      BY <2>1, <3>1, <3>4, <3>8 DEF TrackInv, KnowsIt, NameOf, SameBut, At, Busy
    <3>11. faults = 0 => NoneRuns'
      BY <2>1, <3>1, <3>4, <3>8 DEF TrackInv, NoneRuns, HaltedAt, NameOf, SameBut, Busy
    <3>12. \A p \in Procs : procs[p].state = "running" /\ Known(p) => Known(p)'
      <4> SUFFICES ASSUME NEW p \in Procs, procs[p].state = "running", Known(p)
                   PROVE  Known(p)'
        OBVIOUS
      <4>1. CASE ProcOf(procs[p].app) = p
        <5>1. PICK m : m = procs[p].app
          OBVIOUS
        <5>2. m \in Names
          BY <5>1 DEF StartedInv
        <5> QED
          BY <2>1, <3>4, <4>1, <5>1, <5>2 DEF Known
      <4>2. CASE \E g \in Handlers : At(g, "record") /\ handler[g].target = p
        BY <2>1, <3>1, <4>2 DEF Known, At, SameBut
      <4> QED
        BY <4>1, <4>2 DEF Known
    <3> QED
      BY <2>1, <3>7, <3>9, <3>10, <3>11, <3>12 DEF TrackInv
  <2> QED
    BY <1>5, <2>2, <2>3 DEF Save
<1>6. ASSUME NEW h \in Handlers, Halt(h)
      PROVE  TrackInv'
  <2>1. /\ At(h, "halt") /\ UNCHANGED <<apps, overlapped>>
        /\ handler[h].op \in Lifecycle /\ NameOf(h) \in Names
    BY <1>6 DEF Halt, HandlerInv, At, Busy, NameOf
  <2>2. AfterHalt(h) \in {"forget", "remove", "launch"}
    BY DEF AfterHalt
  <2>3. SameBut(h, AfterHalt(h), None)
    BY <1>6, <2>2, AimLeads DEF Halt, Pcs
  <2>4. PICK t \in Procs \cup {None} :
          /\ t = handler[h].target
          /\ faults' = 0 =>
               /\ faults = 0
               /\ procs' = IF t = None THEN procs ELSE [procs EXCEPT ![t].state = "ended"]
    BY <1>6 DEF Halt, TypeOK
  <2>5. faults' = 0 =>
          /\ \A p \in Procs : /\ procs'[p].app = procs[p].app
                              /\ procs'[p].state = "running" => procs[p].state = "running"
          /\ t # None => procs'[t].state # "running"
    BY <2>4 DEF TypeOK
  <2> SUFFICES ASSUME ~overlapped
               PROVE  TrackInv'
    BY <2>1 DEF TrackInv
  <2>6. Exclusive'
    BY <2>1, <2>3, ExclusiveKept DEF TrackInv, SameBut, At
  <2>7. OwnsIt'
    BY <2>1, <2>3 DEF TrackInv, OwnsIt, OwnedAt, Owns, NameOf, SameBut, At
  <2>8. KnowsIt'
    BY <2>1, <2>2, <2>3 DEF TrackInv, KnowsIt, ProcOf, NameOf, SameBut, At
  <2>9. \A m \in Names : ProcOf(m)' = ProcOf(m) /\ ProcOf(m) \in Procs \cup {None}
    BY <2>1, ProcOfType DEF ProcOf
  <2>10. ASSUME faults' = 0
         PROVE  NoneRuns'
    <3>1. ASSUME NEW g \in Handlers \ {h}, handler[g].pc \in HaltedAt,
                 ProcOf(NameOf(g)) # None
          PROVE  procs'[ProcOf(NameOf(g))].state # "running"
      <4>1. NameOf(g) \in Names
        BY <3>1 DEF HandlerInv, HaltedAt, At, NameOf
      <4>2. procs[ProcOf(NameOf(g))].state # "running"
        BY <2>4, <2>10, <3>1 DEF TrackInv, NoneRuns
      <4> QED
        BY <2>5, <2>9, <2>10, <3>1, <4>1, <4>2
    <3>2. ProcOf(NameOf(h)) # None => procs'[ProcOf(NameOf(h))].state # "running"
      BY <2>1, <2>4, <2>5, <2>10 DEF TrackInv, KnowsIt, At
    <3>3. \A g \in Handlers : handler'[g].pc \in HaltedAt => NameOf(g) \in Names
      BY <2>1, <2>3 DEF HandlerInv, HaltedAt, At, NameOf, SameBut
    <3> QED
      BY <2>3, <2>9, <3>1, <3>2, <3>3 DEF NoneRuns, NameOf, SameBut
  <2>11. ASSUME faults' = 0, NEW p \in Procs, procs'[p].state = "running"
         PROVE  Known(p)'
    <3>1. procs[p].state = "running" /\ procs'[p].app = procs[p].app
      BY <2>5, <2>11
    <3>2. procs[p].app \in Names /\ Known(p)
      BY <2>4, <2>11, <3>1 DEF StartedInv, TrackInv
    <3> QED
      BY <2>1, <2>3, <2>9, <3>1, <3>2 DEF Known, SameBut, At
  <2> QED
    BY <2>6, <2>7, <2>8, <2>10, <2>11 DEF TrackInv
<1>7. ASSUME NEW h \in Handlers, Launch(h)
      PROVE  TrackInv'
  <2>1. /\ At(h, "launch") /\ UNCHANGED <<apps, overlapped>>
        /\ handler[h].op \in Lifecycle /\ NameOf(h) \in Names
    BY <1>7 DEF Launch, HandlerInv, At, Busy, NameOf
  <2>2. PICK q \in Procs \cup {None} :
          /\ SameBut(h, "record", q)
          /\ faults' = 0 =>
               /\ faults = 0 /\ q \in Procs
               /\ procs[q].state = "unused" /\ procs' = Started(h, q)
    BY <1>7, AimLeads DEF Launch, Pcs, TypeOK
  <2> SUFFICES ASSUME ~overlapped
               PROVE  TrackInv'
    BY <2>1 DEF TrackInv
  <2>3. Exclusive'
    BY <2>1, <2>2, ExclusiveKept DEF TrackInv, SameBut, At
  <2>4. OwnsIt'
    BY <2>1, <2>2 DEF TrackInv, OwnsIt, OwnedAt, Owns, NameOf, SameBut, At
  <2>5. KnowsIt'
    BY <2>1, <2>2 DEF TrackInv, KnowsIt, ProcOf, NameOf, SameBut, At
  <2>6. \A m \in Names : ProcOf(m)' = ProcOf(m) /\ ProcOf(m) \in Procs \cup {None}
    BY <2>1, ProcOfType DEF ProcOf
  <2>7. faults' = 0 => /\ procs'[q].app = NameOf(h)
                       /\ \A p \in Procs \ {q} : procs'[p] = procs[p]
    BY <2>2 DEF Started, TypeOK
  <2>8. \A m \in Names : ProcOf(m) # None => procs[ProcOf(m)].state # "unused"
    BY DEF OwnInv
  <2>9. ASSUME faults' = 0
        PROVE  NoneRuns'
    <3>1. ASSUME NEW g \in Handlers, handler[g].pc \in HaltedAt, ProcOf(NameOf(g)) # None
          PROVE  procs'[ProcOf(NameOf(g))].state # "running"
      <4>1. NameOf(g) \in Names
        BY <3>1 DEF HandlerInv, HaltedAt, At, NameOf
      <4>2. procs[ProcOf(NameOf(g))].state # "running"
        BY <2>2, <2>9, <3>1 DEF TrackInv, NoneRuns
      <4> QED
        BY <2>2, <2>6, <2>7, <2>8, <2>9, <3>1, <4>1, <4>2
    <3>2. \A g \in Handlers : handler'[g].pc \in HaltedAt
                                => NameOf(g) \in Names /\ handler[g].pc \in HaltedAt
      BY <2>1, <2>2 DEF HandlerInv, HaltedAt, At, NameOf, SameBut
    <3> QED
      BY <2>2, <2>6, <3>1, <3>2 DEF NoneRuns, NameOf, SameBut
  <2>10. ASSUME faults' = 0, NEW p \in Procs, procs'[p].state = "running"
         PROVE  Known(p)'
    <3>1. CASE p = q
      BY <2>2, <3>1 DEF Known, SameBut, At
    <3>2. CASE p # q
      <4>1. procs'[p] = procs[p]
        BY <2>7, <2>10, <3>2
      <4>2. procs[p].app \in Names /\ Known(p)
        BY <2>2, <2>10, <4>1 DEF StartedInv, TrackInv
      <4> QED
        BY <2>1, <2>2, <2>6, <4>1, <4>2 DEF Known, SameBut, At
    <3> QED
      BY <3>1, <3>2
  <2> QED
    BY <2>3, <2>4, <2>5, <2>9, <2>10 DEF TrackInv
<1>8. ASSUME NEW h \in Handlers, Record(h) \/ Remove(h)
      PROVE  TrackInv'
  <2> PICK n \in Names : n = NameOf(h)
    BY <1>8 DEF Record, Remove, HandlerInv, At, NameOf
  <2>1. /\ UNCHANGED <<procs, faults, overlapped>> /\ handler[h].op \in Lifecycle
        /\ ~At(h, "idle") /\ handler[h].pc \in HaltedAt
    BY <1>8 DEF Record, Remove, HandlerInv, At, Busy, HaltedAt
  <2>2. /\ handler'[h] = Idle
        /\ \A g \in Handlers \ {h} : handler'[g] = handler[g]
    BY <1>8, DoneLeads DEF Record, Remove
  <2> SUFFICES ASSUME ~overlapped
               PROVE  TrackInv'
    BY <2>1 DEF TrackInv
  <2>3. Owns(h, n)
    BY <2>1 DEF TrackInv, OwnsIt, OwnedAt, HaltedAt
  <2>4. \A m \in Names \ {n} : apps'[m] = apps[m] /\ ProcOf(m)' = ProcOf(m)
    BY <1>8, <2>3 DEF Record, Remove, TypeOK, ProcOf
  <2>5. \A g \in Handlers \ {h} : handler[g].pc \in Busy => NameOf(g) \in Names \ {n}
    BY <2>1, Alone DEF TrackInv, NameOf, HandlerInv, At, Busy
  <2>6. Exclusive'
    BY <2>1, <2>2, ExclusiveKept DEF TrackInv, Idle
  <2>7. OwnsIt'
    BY <2>2, <2>4, <2>5 DEF TrackInv, OwnsIt, OwnedAt, Owns, NameOf, Idle, Busy
  <2>8. KnowsIt'
    BY <2>2, <2>4, <2>5 DEF TrackInv, KnowsIt, NameOf, Idle, Busy
  <2>9. faults = 0 => NoneRuns'
    BY <2>1, <2>2, <2>4, <2>5 DEF TrackInv, NoneRuns, NameOf, Idle, Busy, HaltedAt
  <2>10. ASSUME faults = 0, NEW p \in Procs, procs[p].state = "running"
         PROVE  Known(p)'
    <3>1. procs[p].app \in Names /\ Known(p) /\ p # None
      BY <2>10, AppsAssumption DEF StartedInv, TrackInv
    <3>2. ~(procs[p].app = n /\ ProcOf(n) = p)
      BY <2>1, <2>10, <3>1 DEF TrackInv, NoneRuns
    <3>3. CASE At(h, "record") /\ handler[h].target = p
      <4>1. procs[p].app = n
        BY <3>1, <3>3 DEF OwnInv
      <4>2. apps' = [apps EXCEPT ![n] = [apps[n] EXCEPT !.proc = p]]
        BY <1>8, <2>3, <3>3 DEF Record, Remove, At
      <4>3. apps[n] \in App
        BY <2>3 DEF Owns, TypeOK
      <4>4. [apps[n] EXCEPT !.proc = p] \in App /\ [apps[n] EXCEPT !.proc = p].proc = p
        BY <4>3 DEF App
      <4>5. apps'[n] # None /\ apps'[n].proc = p
        BY <4>2, <4>4, NoneIsNoApp DEF TypeOK
      <4>6. ProcOf(n)' = p
        BY <4>5 DEF ProcOf
      <4> QED
        BY <2>1, <4>1, <4>6 DEF Known
    <3>4. CASE ~(At(h, "record") /\ handler[h].target = p)
      BY <2>1, <2>2, <2>4, <3>1, <3>2, <3>4 DEF Known, At
    <3> QED
      BY <3>3, <3>4
  <2> QED
    BY <2>1, <2>6, <2>7, <2>8, <2>9, <2>10 DEF TrackInv
<1>9. ASSUME NEW h \in Handlers, Show(h)
      PROVE  TrackInv'
  <2> PICK n \in Names : n = NameOf(h)
    BY <1>9 DEF Show, HandlerInv, At, NameOf
  <2>1. /\ UNCHANGED <<procs, faults, overlapped>> /\ At(h, "show")
        /\ handler[h].visibility \in Visibilities
    BY <1>9 DEF Show, HandlerInv, At, Shown
  <2>2. /\ handler'[h] = Idle
        /\ \A g \in Handlers \ {h} : handler'[g] = handler[g]
    BY <1>9, DoneLeads DEF Show
  <2>3. \A m \in Names : /\ ProcOf(m)' = ProcOf(m)
                         /\ apps'[m] = None <=> apps[m] = None
                         /\ apps[m] # None => apps'[m].owner = apps[m].owner
    <3>1. CASE UNCHANGED apps
      BY <3>1 DEF ProcOf
    <3>2. CASE Owns(h, n) /\ apps' = [apps EXCEPT ![n].visibility = handler[h].visibility]
      <4> DEFINE r == [apps[n] EXCEPT !.visibility = handler[h].visibility]
      <4>1. apps[n] \in App
        BY <3>2 DEF Owns, TypeOK
      <4>2. r \in App /\ r.proc = apps[n].proc /\ r.owner = apps[n].owner
        BY <2>1, <4>1 DEF App
      <4>3. apps' = [apps EXCEPT ![n] = r]
        BY <3>2
      <4> HIDE DEF r
      <4> QED
        BY <3>2, <4>2, <4>3, NoneIsNoApp DEF Owns, ProcOf, TypeOK
    <3> QED
      BY <1>9, <3>1, <3>2 DEF Show
  <2> SUFFICES ASSUME ~overlapped
               PROVE  TrackInv'
    BY <2>1 DEF TrackInv
  <2>4. \A g \in Handlers : handler[g].pc \in Busy => NameOf(g) \in Names
    BY DEF NameOf, HandlerInv, At, Busy
  <2>5. Exclusive'
    BY <2>1, <2>2, ExclusiveKept DEF TrackInv, Idle
  <2>6. OwnsIt'
    BY <2>2, <2>3, <2>4 DEF TrackInv, OwnsIt, OwnedAt, Owns, NameOf, Idle, Busy
  <2>7. KnowsIt'
    BY <2>2, <2>3, <2>4 DEF TrackInv, KnowsIt, NameOf, Idle, Busy
  <2>8. faults = 0 => NoneRuns'
    BY <2>1, <2>2, <2>3, <2>4 DEF TrackInv, NoneRuns, NameOf, Idle, Busy, HaltedAt
  <2>9. \A p \in Procs : procs[p].state = "running" /\ Known(p) => Known(p)'
    BY <2>1, <2>2, <2>3 DEF Known, At, StartedInv
  <2> QED
    BY <2>1, <2>5, <2>6, <2>7, <2>8, <2>9 DEF TrackInv
<1>10. ASSUME NEW p \in Procs, ServerExits(p)
       PROVE  TrackInv'
  <2>1. /\ UNCHANGED <<apps, handler, faults, overlapped>>
        /\ \A q \in Procs : /\ procs'[q].app = procs[q].app
                            /\ procs'[q].state = "running" => procs[q].state = "running"
    BY <1>10 DEF ServerExits, TypeOK
  <2>2. \A m \in Names : ProcOf(m)' = ProcOf(m) /\ ProcOf(m) \in Procs \cup {None}
    BY <2>1, ProcOfType DEF ProcOf
  <2>3. \A g \in Handlers : handler[g].pc \in HaltedAt => NameOf(g) \in Names
    BY DEF NameOf, HandlerInv, At, HaltedAt
  <2>4. Exclusive => Exclusive'
    BY <2>1 DEF Exclusive, At
  <2>5. OwnsIt => OwnsIt'
    BY <2>1 DEF OwnsIt, Owns, NameOf
  <2>6. KnowsIt => KnowsIt'
    BY <2>1 DEF KnowsIt, ProcOf, NameOf
  <2>7. NoneRuns => NoneRuns'
    BY <2>1, <2>2, <2>3 DEF NoneRuns, NameOf
  <2>8. \A q \in Procs : procs[q].state = "running" /\ Known(q) => Known(q)'
    BY <2>1, <2>2 DEF Known, At, StartedInv
  <2> QED
    BY <2>1, <2>4, <2>5, <2>6, <2>7, <2>8 DEF TrackInv
<1>11. CASE SetPublicApps \/ UNCHANGED appVars
  BY <1>11 DEF SetPublicApps, appVars, TrackInv, Exclusive, OwnsIt, KnowsIt, NoneRuns, Known,
               At, Owns, NameOf, ProcOf
<1> QED
  BY <1>1, <1>2, <1>3, <1>4, <1>5, <1>6, <1>7, <1>8, <1>9, <1>10, <1>11 DEF Next, Ops

\* Redeploying, stopping and removing leave no server running that its app does not
\* know, unless a call to a runner failed or two of them overlapped on one app.
THEOREM NoServerIsLost == Spec => []ServersAreTracked
<1> DEFINE IInv == TypeInv /\ OwnInv /\ StartedInv /\ TrackInv
<1>1. Init => IInv
  <2>1. Init => StartedInv
    BY DEF Init, StartedInv
  <2>2. Init => TrackInv
    BY DEF Init, TrackInv, Exclusive, OwnsIt, KnowsIt, NoneRuns, Idle, At, OwnedAt, HaltedAt
  <2>3. Init => OwnInv
    BY DEF Init, OwnInv, ProcOf, At, Idle
  <2> QED
    BY <2>1, <2>2, <2>3, InitTyping
<1>2. IInv /\ [Next]_appVars => IInv'
  BY TypingStep, OwnStep, StartedStep, TrackStep
<1>3. IInv => ServersAreTracked
  BY DEF TrackInv, ServersAreTracked, Known
<1> QED
  BY <1>1, <1>2, <1>3, PTL DEF Spec
=============================================================================
