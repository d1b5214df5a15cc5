------------------------ MODULE Provisioner_proofs ------------------------
(***************************************************************************)
(* Proofs about the provisioner: type correctness, that a request is       *)
(* carried out on the MCP container at most once and on the development    *)
(* container again only after two later ones, that no replacement loses    *)
(* the MCP container, that a request is reported as applied only when it   *)
(* was carried out, that what was stopped stays stopped, and what an       *)
(* undisturbed pass settles, for any number of requests, failing commands, *)
(* crashes and changes of the account.                                     *)
(***************************************************************************)
EXTENDS Provisioner, TLAPS

\* The revision journalled is the same in memory and in status.json, and is
\* never ahead of the request read; a request about to be carried out was just
\* journalled, and what was carried out is not later than the journal.
JournalInv ==
    /\ status.rev = file.rev
    /\ file.rev <= control.rev
    /\ ~At("idle") => file.rev <= pass.req.rev /\ pass.req.rev <= control.rev
    /\ \A r \in Rev : sent["mcp"][r] <= (IF r <= file.rev THEN 1 ELSE 0)
    /\ pass.pc \in {"hold", "mcp"} =>
        /\ pass.req.rev \in Rev /\ pass.req.rev = file.rev
        /\ sent["mcp"][pass.req.rev] = 0

\* Where the MCP container is at each step of a replacement, and that the
\* development container is only made beside it.
NeedMcp == {"rename", "drop", "start", "again", "devrename", "devmake", "devboot",
            "devback", "devdrop", "devstart"}
NeedOld == {"provision", "start", "rollback", "restore"}

ReplacementInv ==
    /\ mcpOld # NoOld => mcpOld.state # "absent"
    /\ pass.pc \in NeedMcp => mcp # "absent"
    /\ pass.pc \in NeedOld => mcpOld # NoOld
    /\ At("sync") /\ pass.then = "devdone" => Active
    /\ dev # "absent" \/ devOld => mcp # "absent" \/ mcpOld # NoOld

-----------------------------------------------------------------------------
(* Where a throw, the return of sync and the end of a request lead.         *)
LEMMA ThrownTo ==
  ASSUME TypeOK
  PROVE  /\ Thrown \in Passes /\ Thrown.req = pass.req
         /\ Thrown.pc \in {"finish", "devdone", "combine", "dev"}
BY DEF TypeOK, Passes, Places, Thrown

LEMMA SyncedTo ==
  ASSUME TypeOK
  PROVE  /\ Synced \in Passes /\ Synced.req = pass.req
         /\ Synced.pc \in {"finish", "devstart", "combine"}
         /\ Synced.pc = "devstart" => pass.then = "devdone"
BY DEF TypeOK, Passes, Places, Synced

LEMMA SettledTo ==
  ASSUME TypeOK
  PROVE  /\ Settled \in Passes /\ Settled.req = pass.req
         /\ Settled.pc \in {"combine", "sync"} /\ Settled.then = "combine"
<1> DEFINE pc == IF WorkspaceRequest.action = "stop" THEN "combine" ELSE "sync"
<1>1. Settled = [pass EXCEPT !.bad = FALSE, !.user = account, !.pc = pc, !.then = "combine"]
  BY DEF Settled
<1>2. pc \in {"combine", "sync"} /\ pc \in Places
  BY DEF Places
<1> HIDE DEF pc
<1>3. pass \in Passes /\ account \in {"active", "disabled"}
  BY DEF TypeOK
<1>4. Settled \in Passes
  BY <1>1, <1>2, <1>3 DEF Passes
<1>5. Settled.req = pass.req /\ Settled.pc = pc /\ Settled.then = "combine"
  BY <1>1, <1>3 DEF Passes
<1> QED
  BY <1>2, <1>4, <1>5

LEMMA RequestRev ==
  ASSUME NEW r \in Request
  PROVE  /\ r.rev \in 0..MaxRev /\ (r # None => r.rev \in Rev)
         /\ (r.rev \in Rev => r # None)
BY BoundsAssumption DEF Request, Rev, None

LEMMA InitPass == NoPass \in Passes
<1>1. None \in Request
  BY DEF Request
<1> QED
  BY <1>1 DEF NoPass, Passes, Places

LEMMA InitTyping == Init => TypeOK
<1> SUFFICES ASSUME Init PROVE TypeOK
  OBVIOUS
<1>1. None \in Request
  BY DEF Request
<1>2. NoStatus \in Statuses
  BY BoundsAssumption DEF NoStatus, Statuses, Phases
<1>3. NoPass \in Passes
  BY InitPass
<1>4. NoOld \in [state : Containers, stale : BOOLEAN]
  BY DEF NoOld, Containers
<1>5. "absent" \in Containers
  BY DEF Containers
<1>6. sent \in [{"mcp", "dev"} -> [Rev -> 0..2]]
  BY DEF Init
<1> QED
  BY <1>1, <1>2, <1>3, <1>4, <1>5, <1>6 DEF Init, TypeOK

LEMMA PassGoto ==
  ASSUME TypeOK, NEW pc \in Places
  PROVE  [pass EXCEPT !.pc = pc] \in Passes
BY DEF TypeOK, Passes

LEMMA PassUp ==
  ASSUME NEW p \in Passes, NEW b \in BOOLEAN
  PROVE  [p EXCEPT !.up = b] \in Passes
BY DEF Passes

(* Where the steps with several assignments lead.                           *)
LEMMA FinishLeads ==
  ASSUME TypeOK, Finish
  PROVE  /\ pass' \in Passes /\ pass'.req = pass.req
         /\ pass'.pc = "tidy" \/ (pass'.pc = "sync" /\ pass'.then = "resume")
<1>1. pass \in Passes
  BY DEF TypeOK
<1>2. CASE pass' = [pass EXCEPT !.pc = "sync", !.then = "resume"]
  <2>1. pass' \in Passes
    BY <1>1, <1>2 DEF Passes, Places
  <2>2. pass'.req = pass.req /\ pass'.pc = "sync" /\ pass'.then = "resume"
    BY <1>1, <1>2 DEF Passes
  <2> QED
    BY <2>1, <2>2
<1>3. CASE pass' = [pass EXCEPT !.pc = "tidy", !.then = "none", !.bad = FALSE]
  <2>1. pass' \in Passes
    BY <1>1, <1>3 DEF Passes, Places
  <2>2. pass'.req = pass.req
    BY <1>1, <1>3 DEF Passes
  <2>3. pass'.pc = "tidy"
    BY <1>1, <1>3 DEF Passes
  <2> QED
    BY <2>1, <2>2, <2>3
<1> QED
  BY <1>2, <1>3 DEF Finish

LEMMA UserLeads ==
  ASSUME TypeOK, UserBegin
  PROVE  pass' \in Passes /\ pass'.pc \in {"dev", "hold", "tidy"}
<1>1. pass \in Passes
  BY DEF TypeOK
<1>2. account \in {"active", "disabled"}
  BY DEF TypeOK
<1>3. CASE pass' = [pass EXCEPT !.pc = "dev", !.user = account]
  <2>1. pass' \in Passes
    BY <1>1, <1>2, <1>3 DEF Passes, Places
  <2> QED
    BY <1>1, <1>3, <2>1 DEF Passes
<1>4. CASE pass' = [pass EXCEPT !.pc = "hold", !.user = account, !.then = "finish"]
  <2>1. pass' \in Passes
    BY <1>1, <1>2, <1>4 DEF Passes, Places
  <2> QED
    BY <1>1, <1>4, <2>1 DEF Passes
<1>5. CASE pass' = [pass EXCEPT !.pc = "tidy", !.user = account]
  <2>1. pass' \in Passes
    BY <1>1, <1>2, <1>5 DEF Passes, Places
  <2> QED
    BY <1>1, <1>5, <2>1 DEF Passes
<1> QED
  BY <1>3, <1>4, <1>5 DEF UserBegin

LEMMA HoldLeads ==
  ASSUME TypeOK, Hold
  PROVE  pass'.pc = "mcp" \/ pass' = Thrown
<1>1. pass \in Passes
  BY DEF TypeOK
<1>2. CASE pass' = [pass EXCEPT !.pc = "mcp"]
  BY <1>1, <1>2 DEF Passes
<1>3. CASE pass' = [pass EXCEPT !.pc = "mcp", !.resume = TRUE]
  BY <1>1, <1>3 DEF Passes
<1> QED
  BY <1>2, <1>3 DEF Hold, Goto

LEMMA DevLeads ==
  ASSUME TypeOK, DevBegin
  PROVE  pass'.pc \in {"combine", "devapply"} \/ pass' = Settled
<1>1. pass \in Passes
  BY DEF TypeOK
<1>2. CASE pass' = [pass EXCEPT !.pc = "combine"]
  BY <1>1, <1>2 DEF Passes
<1>3. CASE pass' = [pass EXCEPT !.pc = "devapply", !.user = account, !.then = "devdone"]
  BY <1>1, <1>3 DEF Passes
<1> QED
  BY <1>2, <1>3 DEF DevBegin

LEMMA RanTyping ==
  ASSUME TypeOK, NEW ok \in Outcomes, Ran(ok)
  PROVE  calm' \in BOOLEAN /\ ok \in BOOLEAN
BY DEF TypeOK, Ran, Outcomes

LEMMA SentTyping ==
  ASSUME TypeOK, NEW c \in {"mcp", "dev"}, NEW r, Sent(c, r)
  PROVE  sent' \in [{"mcp", "dev"} -> [Rev -> 0..2]]
<1>1. \A n \in 0..2 : (IF n = 2 THEN 2 ELSE n + 1) \in 0..2
  OBVIOUS
<1> QED
  BY <1>1 DEF Sent, TypeOK

(* The new status of the containers, the pass and the files, action by      *)
(* action.                                                                  *)
LEMMA StepTyping ==
  ASSUME TypeOK, [Next]_vars
  PROVE  TypeOK'
<1>1. ASSUME NEW action \in AdminActions, AdminRequest(action) PROVE TypeOK'
  BY <1>1 DEF AdminRequest, Request, TypeOK, journal, docker, history
<1>2. ASSUME NEW action \in LifecycleActions, PersonalRequest(action) PROVE TypeOK'
  <2>1. action \in AdminActions
    BY DEF AdminActions
  <2> QED
    BY <1>2, <2>1 DEF PersonalRequest, Request, TypeOK, journal, docker, history
<1>3. CASE SetStatus
  BY <1>3 DEF SetStatus, TypeOK, journal, docker
<1>4. CASE PassBegin
  <2>1. pass' \in Passes
    BY <1>4 DEF PassBegin, TypeOK, Passes, NoPass, Places
  <2>2. calm' \in BOOLEAN
    BY <1>4 DEF PassBegin
  <2> QED
    BY <1>4, <2>1, <2>2 DEF PassBegin, TypeOK, gateway, journal, docker, history
<1>5. CASE UserBegin
  <2>1. PICK ok \in Outcomes : UserBegin!2!(ok)
    BY <1>5 DEF UserBegin
  <2>2. pass.req.rev \in 0..MaxRev
    BY RequestRev DEF TypeOK, Passes
  <2>3. status' \in Statuses /\ file' \in Statuses
    <3>1. /\ [status EXCEPT !.rev = pass.req.rev, !.phase = "applying",
                            !.runtime = "applying"] \in Statuses
          /\ [status EXCEPT !.phase = "failed"] \in Statuses
      BY <2>2 DEF TypeOK, Statuses, Phases
    <3> QED
      BY <2>1, <3>1 DEF TypeOK, Journaled
  <2>5. pass' \in Passes
    BY <1>5, UserLeads
  <2>6. calm' \in BOOLEAN
    BY <2>1, RanTyping
  <2> QED
    BY <1>5, <2>3, <2>5, <2>6 DEF UserBegin, TypeOK, gateway, docker
<1>6. CASE Hold
  <2>1. {"mcp", "finish"} \subseteq Places
    BY DEF Places
  <2>2. [pass EXCEPT !.pc = "mcp", !.resume = TRUE] \in Passes
    BY <2>1 DEF TypeOK, Passes
  <2>3. pass' \in Passes
    BY <1>6, <2>1, <2>2, PassGoto, ThrownTo DEF Hold, Goto
  <2>4. dev' \in Containers
    BY <1>6 DEF Hold, TypeOK, Becomes, Containers, Present
  <2>5. calm' \in BOOLEAN
    BY <1>6, RanTyping DEF Hold, TypeOK
  <2> QED
    BY <1>6, <2>3, <2>4, <2>5 DEF Hold, TypeOK, gateway, journal
<1>7. CASE ApplyCommand
  <2>1. pass' \in Passes
    BY <1>7, PassGoto, ThrownTo DEF ApplyCommand, Places
  <2>2. mcp' \in Containers /\ stale' \in BOOLEAN
    BY <1>7 DEF ApplyCommand, TypeOK, Becomes, Stopped, Containers, Present, docker
  <2>3. calm' \in BOOLEAN
    BY <1>7, RanTyping DEF ApplyCommand, TypeOK
  <2>4. sent' \in [{"mcp", "dev"} -> [Rev -> 0..2]]
    BY <1>7, SentTyping DEF ApplyCommand, Dispatch
  <2> QED
    BY <1>7, <2>1, <2>2, <2>3, <2>4
    DEF ApplyCommand, Dispatch, TypeOK, gateway, journal, docker, history
<1>8. CASE ApplyNothing
  <2>1. pass' \in Passes
    BY <1>8, PassGoto, ThrownTo DEF ApplyNothing, Goto, Places
  <2>2. sent' \in [{"mcp", "dev"} -> [Rev -> 0..2]]
    BY <1>8, SentTyping DEF ApplyNothing, Dispatch
  <2> QED
    BY <1>8, <2>1, <2>2 DEF ApplyNothing, Dispatch, TypeOK, gateway, journal, docker, history
<1>9. CASE ApplyInPlace
  <2>1. pass' \in Passes
    BY <1>9, PassGoto, ThrownTo DEF ApplyInPlace, Places
  <2>2. mcp' \in Containers /\ stale' \in BOOLEAN
    BY <1>9 DEF ApplyInPlace, TypeOK, Becomes, Stopped, Containers, Present, docker
  <2>3. calm' \in BOOLEAN
    BY <1>9, RanTyping DEF ApplyInPlace, TypeOK
  <2>4. sent' \in [{"mcp", "dev"} -> [Rev -> 0..2]]
    BY <1>9, SentTyping DEF ApplyInPlace, Dispatch
  <2> QED
    BY <1>9, <2>1, <2>2, <2>3, <2>4
    DEF ApplyInPlace, Dispatch, TypeOK, gateway, journal, docker, history
<1>10. CASE ApplyReplace
  <2>1. PICK ok \in Outcomes : ApplyReplace!4!(ok)
    BY <1>10 DEF ApplyReplace
  <2>2. {"rename", "revive"} \subseteq Places
    BY DEF Places
  <2>3. DEFINE next == IF ok THEN [pass EXCEPT !.pc = "rename"]
                       ELSE IF pass.req.action = "workspace"
                       THEN [pass EXCEPT !.pc = "revive"] ELSE Thrown
  <2>4. next \in Passes
    BY <2>2, PassGoto, ThrownTo
  <2>5. pass' = [next EXCEPT !.up = (mcp = "running")]
    BY <2>1
  <2>6. pass' \in Passes
    BY <2>4, <2>5, PassUp
  <2>7. mcp' \in Containers
    BY <2>1 DEF TypeOK, Becomes, Containers, Present
  <2>8. calm' \in BOOLEAN
    BY <2>1, RanTyping
  <2>9. sent' \in [{"mcp", "dev"} -> [Rev -> 0..2]]
    BY <1>10, SentTyping DEF ApplyReplace, Dispatch
  <2> QED
    BY <1>10, <2>6, <2>7, <2>8, <2>9
    DEF ApplyReplace, Dispatch, TypeOK, gateway, journal
<1>11. CASE Rename
  <2>1. pass' \in Passes
    BY <1>11, PassGoto, ThrownTo DEF Rename, Places
  <2>2. /\ mcp' \in Containers /\ stale' \in BOOLEAN
       /\ mcpOld' \in [state : Containers, stale : BOOLEAN]
    BY <1>11 DEF Rename, TypeOK, SetAside, NoOld, Containers, docker
  <2>3. calm' \in BOOLEAN
    BY <1>11, RanTyping DEF Rename, TypeOK
  <2> QED
    BY <1>11, <2>1, <2>2, <2>3 DEF Rename, TypeOK, gateway, journal, docker, history
<1>12. CASE Provision
  <2>1. pass' \in Passes
    BY <1>12, PassGoto DEF Provision, Goto, Places
  <2>2. mcp' \in Containers /\ stale' \in BOOLEAN
    BY <1>12 DEF Provision, TypeOK, Becomes, Stopped, Containers, Present, docker
  <2>3. calm' \in BOOLEAN
    BY <1>12, RanTyping DEF Provision, TypeOK
  <2> QED
    BY <1>12, <2>1, <2>2, <2>3 DEF Provision, TypeOK, gateway, journal, docker, history
<1>13. CASE Start
  <2>1. pass' \in Passes
    BY <1>13, PassGoto, ThrownTo DEF Start, At, Places
  <2>2. mcp' \in Containers /\ stale' \in BOOLEAN
    BY <1>13 DEF Start, TypeOK, Becomes, Stopped, Containers, Present, docker
  <2>3. calm' \in BOOLEAN
    BY <1>13, RanTyping DEF Start, TypeOK
  <2> QED
    BY <1>13, <2>1, <2>2, <2>3 DEF Start, TypeOK, gateway, journal, docker, history
<1>14. CASE Rollback
  <2>1. pass' \in Passes
    BY <1>14, PassGoto, ThrownTo DEF Rollback, Places
  <2>2. mcp' \in Containers /\ stale' \in BOOLEAN
    BY <1>14 DEF Rollback, TypeOK, Becomes, Stopped, Containers, Present, docker
  <2>3. calm' \in BOOLEAN
    BY <1>14, RanTyping DEF Rollback, TypeOK
  <2> QED
    BY <1>14, <2>1, <2>2, <2>3 DEF Rollback, TypeOK, gateway, journal, docker, history
<1>15. CASE Restore
  <2>1. PICK ok \in Outcomes, renamed \in BOOLEAN : Restore!2!(ok, renamed)
    BY <1>15 DEF Restore
  <2>2. "revive" \in Places
    BY DEF Places
  <2>3. pass' \in Passes
    BY <2>1, <2>2, PassGoto, ThrownTo
  <2>4. NoOld \in [state : Containers, stale : BOOLEAN]
    BY DEF NoOld, Containers
  <2>5. /\ mcp' \in Containers /\ stale' \in BOOLEAN
        /\ mcpOld' \in [state : Containers, stale : BOOLEAN]
    BY <2>1, <2>4 DEF TypeOK
  <2>6. calm' \in BOOLEAN
    BY <2>1, RanTyping
  <2> QED
    BY <1>15, <2>3, <2>5, <2>6 DEF Restore, TypeOK, gateway, journal
<1>16. CASE Revive
  <2>1. pass' \in Passes
    BY <1>16, ThrownTo DEF Revive
  <2>2. mcp' \in Containers /\ stale' \in BOOLEAN
    BY <1>16 DEF Revive, TypeOK, Becomes, Stopped, Containers, Present, docker
  <2> QED
    BY <1>16, <2>1, <2>2 DEF Revive, TypeOK, gateway, journal, docker, history
<1>17. CASE Drop
  <2>1. PICK ok \in Outcomes : Drop!2!(ok)
    BY <1>17 DEF Drop
  <2>2. "finish" \in Places
    BY DEF Places
  <2>3. pass' \in Passes
    BY <2>1, <2>2, PassGoto, ThrownTo
  <2>4. NoOld \in [state : Containers, stale : BOOLEAN]
    BY DEF NoOld, Containers
  <2>5. mcpOld' \in [state : Containers, stale : BOOLEAN]
    BY <2>1, <2>4 DEF TypeOK, Becomes
  <2>6. calm' \in BOOLEAN
    BY <2>1, RanTyping
  <2> QED
    BY <1>17, <2>3, <2>5, <2>6 DEF Drop, TypeOK, gateway, journal
<1>18. CASE Make
  <2>1. pass' \in Passes
    BY <1>18, PassGoto, ThrownTo DEF Make, Places
  <2>2. mcp' \in Containers /\ stale' \in BOOLEAN
    BY <1>18 DEF Make, TypeOK, Becomes, Stopped, Containers, Present, docker
  <2>3. calm' \in BOOLEAN
    BY <1>18, RanTyping DEF Make, TypeOK
  <2> QED
    BY <1>18, <2>1, <2>2, <2>3 DEF Make, TypeOK, gateway, journal, docker, history
<1>19. CASE Boot
  <2>1. pass' \in Passes
    BY <1>19, PassGoto, ThrownTo DEF Boot, Places
  <2>2. mcp' \in Containers /\ stale' \in BOOLEAN
    BY <1>19 DEF Boot, TypeOK, Becomes, Stopped, Containers, Present, docker
  <2>3. calm' \in BOOLEAN
    BY <1>19, RanTyping DEF Boot, TypeOK
  <2> QED
    BY <1>19, <2>1, <2>2, <2>3 DEF Boot, TypeOK, gateway, journal, docker, history
<1>20. CASE Finish
  <2>2. pass' \in Passes
    BY <1>20, FinishLeads
  <2>3. status' \in Statuses
    BY <1>20 DEF Finish, TypeOK, Statuses, Phases
  <2>4. pass.req.rev \in 0..MaxRev
    BY RequestRev DEF TypeOK, Passes
  <2>5. done' \in [{"mcp", "dev"} -> SUBSET (0..MaxRev)]
    BY <1>20, <2>4 DEF Finish, TypeOK
  <2> QED
    BY <1>20, <2>2, <2>3, <2>5 DEF Finish, TypeOK, gateway, docker
<1>21. CASE Tidy
  <2>1. pass' \in Passes
    BY <1>21, PassGoto DEF Tidy, Goto, Places
  <2>2. mcp' \in Containers /\ stale' \in BOOLEAN
    BY <1>21 DEF Tidy, TypeOK, Becomes, Stopped, Containers, Present, docker
  <2>3. calm' \in BOOLEAN
    BY <1>21, RanTyping DEF Tidy, TypeOK
  <2> QED
    BY <1>21, <2>1, <2>2, <2>3 DEF Tidy, TypeOK, gateway, journal, docker, history
<1>22. CASE DevBegin
  <2>1. WorkspaceRequest.rev \in 0..MaxRev
    BY RequestRev DEF WorkspaceRequest, WorkspaceLifecycleControl, TypeOK, Passes
  <2>2. {"combine", "devapply"} \subseteq Places
    BY DEF Places
  <2>3. pass' \in Passes
    <3>1. [pass EXCEPT !.pc = "devapply", !.user = account, !.then = "devdone"] \in Passes
      BY <2>2 DEF TypeOK, Passes
    <3> QED
      BY <1>22, <2>2, <3>1, PassGoto, SettledTo DEF DevBegin
  <2>4. status' \in Statuses /\ file' \in Statuses
    <3>1. \A w \in {"applying", "failed"} :
            /\ [status EXCEPT !.wrev = WorkspaceRequest.rev, !.wphase = w] \in Statuses
            /\ [status EXCEPT !.wphase = w] \in Statuses
      BY <2>1 DEF TypeOK, Statuses, Phases
    <3> QED
      BY <1>22, <3>1 DEF DevBegin, TypeOK, Journaled
  <2>5. dev' \in Containers
    BY <1>22 DEF DevBegin, TypeOK, Becomes, Stopped, Containers, Present
  <2>6. calm' \in BOOLEAN
    BY <1>22, RanTyping DEF DevBegin, TypeOK
  <2> QED
    BY <1>22, <2>3, <2>4, <2>5, <2>6 DEF DevBegin, TypeOK, gateway
<1>23. CASE DevApply
  <2>1. pass' \in Passes
    BY <1>23, PassGoto, ThrownTo DEF DevApply, Places
  <2>2. dev' \in Containers /\ devOld' \in BOOLEAN /\ stale' \in BOOLEAN
    BY <1>23 DEF DevApply, TypeOK, Becomes, Stopped, Containers, Present
  <2>3. calm' \in BOOLEAN
    BY <1>23, RanTyping DEF DevApply, TypeOK
  <2>4. sent' \in [{"mcp", "dev"} -> [Rev -> 0..2]]
    BY <1>23, SentTyping DEF DevApply
  <2> QED
    BY <1>23, <2>1, <2>2, <2>3, <2>4 DEF DevApply, TypeOK, gateway, journal, docker, history
<1>24. CASE Sync
  <2>1. {"devmake", "devrename"} \subseteq Places
    BY DEF Places
  <2>2. /\ [pass EXCEPT !.pc = "devmake", !.swap = FALSE,
              !.up = Resuming \/ (AutoStart /\ mcp = "running")] \in Passes
        /\ [pass EXCEPT !.pc = "devrename", !.swap = TRUE,
              !.up = (dev = "running") \/ Resuming] \in Passes
    BY <2>1 DEF TypeOK, Passes, Resuming, AutoStart
  <2>3. pass' \in Passes
    BY <1>24, <2>2, SyncedTo, ThrownTo DEF Sync
  <2>4. dev' \in Containers
    BY <1>24 DEF Sync, TypeOK, Becomes, Stopped, Containers, Present
  <2>5. calm' \in BOOLEAN
    BY <1>24, RanTyping DEF Sync, TypeOK
  <2> QED
    BY <1>24, <2>3, <2>4, <2>5 DEF Sync, TypeOK, gateway, journal
<1>25. CASE DevRename
  <2>1. pass' \in Passes
    BY <1>25, PassGoto, ThrownTo DEF DevRename, Places
  <2>2. dev' \in Containers /\ devOld' \in BOOLEAN /\ stale' \in BOOLEAN
    BY <1>25 DEF DevRename, TypeOK, Becomes, Stopped, Containers, Present
  <2>3. calm' \in BOOLEAN
    BY <1>25, RanTyping DEF DevRename, TypeOK
  <2> QED
    BY <1>25, <2>1, <2>2, <2>3 DEF DevRename, TypeOK, gateway, journal, docker, history
<1>26. CASE DevMake
  <2>1. pass' \in Passes
    BY <1>26, PassGoto, SyncedTo, ThrownTo DEF DevMake, Places
  <2>2. dev' \in Containers /\ devOld' \in BOOLEAN /\ stale' \in BOOLEAN
    BY <1>26 DEF DevMake, TypeOK, Becomes, Stopped, Containers, Present
  <2>3. calm' \in BOOLEAN
    BY <1>26, RanTyping DEF DevMake, TypeOK
  <2> QED
    BY <1>26, <2>1, <2>2, <2>3 DEF DevMake, TypeOK, gateway, journal, docker, history
<1>27. CASE DevBoot
  <2>1. pass' \in Passes
    BY <1>27, PassGoto, SyncedTo, ThrownTo DEF DevBoot, Places
  <2>2. dev' \in Containers /\ devOld' \in BOOLEAN /\ stale' \in BOOLEAN
    BY <1>27 DEF DevBoot, TypeOK, Becomes, Stopped, Containers, Present
  <2>3. calm' \in BOOLEAN
    BY <1>27, RanTyping DEF DevBoot, TypeOK
  <2> QED
    BY <1>27, <2>1, <2>2, <2>3 DEF DevBoot, TypeOK, gateway, journal, docker, history
<1>28. CASE DevBack
  <2>1. pass' \in Passes
    BY <1>28, ThrownTo DEF DevBack
  <2>2. dev' \in Containers /\ devOld' \in BOOLEAN /\ stale' \in BOOLEAN
    BY <1>28 DEF DevBack, TypeOK, Becomes, Stopped, Containers, Present
  <2>3. calm' \in BOOLEAN
    BY <1>28, RanTyping DEF DevBack, TypeOK
  <2> QED
    BY <1>28, <2>1, <2>2, <2>3 DEF DevBack, TypeOK, gateway, journal, docker, history
<1>29. CASE DevDrop
  <2>1. pass' \in Passes
    BY <1>29, SyncedTo, ThrownTo DEF DevDrop
  <2>2. devOld' \in BOOLEAN
    BY <1>29 DEF DevDrop, TypeOK, Becomes
  <2>3. calm' \in BOOLEAN
    BY <1>29, RanTyping DEF DevDrop, TypeOK
  <2> QED
    BY <1>29, <2>1, <2>2, <2>3 DEF DevDrop, TypeOK, gateway, journal, docker, history
<1>30. CASE DevStart
  <2>1. pass' \in Passes
    BY <1>30, PassGoto, ThrownTo DEF DevStart, Places
  <2>2. dev' \in Containers /\ devOld' \in BOOLEAN /\ stale' \in BOOLEAN
    BY <1>30 DEF DevStart, TypeOK, Becomes, Stopped, Containers, Present
  <2>3. calm' \in BOOLEAN
    BY <1>30, RanTyping DEF DevStart, TypeOK
  <2> QED
    BY <1>30, <2>1, <2>2, <2>3 DEF DevStart, TypeOK, gateway, journal, docker, history
<1>31. CASE DevDone
  <2>1. pass' \in Passes
    BY <1>31, SettledTo DEF DevDone, TypeOK, Passes
  <2>2. status' \in Statuses /\ file' \in Statuses
    BY <1>31 DEF DevDone, TypeOK, Statuses, Phases
  <2>3. done' \in [{"mcp", "dev"} -> SUBSET (0..MaxRev)]
    BY <1>31 DEF DevDone, TypeOK, Statuses
  <2> QED
    BY <1>31, <2>1, <2>2, <2>3 DEF DevDone, TypeOK, gateway, journal, docker, history
<1>32. CASE Combine
  <2>1. Outcome \in Phases
    BY DEF Outcome, TypeOK, Statuses, Phases
  <2>2. status' \in Statuses /\ file' \in Statuses
    BY <1>32, <2>1 DEF Combine, TypeOK, Statuses, Journaled
  <2>3. pass' \in Passes
    BY <1>32, InitPass DEF Combine
  <2> QED
    BY <1>32, <2>1, <2>2, <2>3 DEF Combine, TypeOK, gateway, journal, docker, history
<1>33. CASE Crash
  BY <1>33, InitPass DEF Crash, TypeOK, gateway, docker
<1>34. CASE UNCHANGED vars
  BY <1>34 DEF vars, gateway, journal, docker, history, TypeOK
<1> QED
  BY <1>1, <1>2, <1>3, <1>4, <1>5, <1>6, <1>7, <1>8, <1>9, <1>10, <1>11, <1>12,
     <1>13, <1>14, <1>15, <1>16, <1>17, <1>18, <1>19, <1>20, <1>21, <1>22,
     <1>23, <1>24, <1>25, <1>26, <1>27, <1>28, <1>29, <1>30, <1>31, <1>32, <1>33, <1>34
  DEF Next, Reconcile

(* The types hold in every reachable state.                                 *)
THEOREM Typing == Spec => []TypeOK
<1> QED
  BY InitTyping, StepTyping, PTL DEF Spec

-----------------------------------------------------------------------------
(* Carried out at most once.  Most steps write no journal entry for the     *)
(* runner, carry nothing out on it and lead to no place that would.         *)
Plain ==
  /\ file'.rev = file.rev /\ status'.rev = status.rev /\ control' = control
  /\ sent'["mcp"] = sent["mcp"]
  /\ pass'.pc # "idle" => pass.pc # "idle" /\ pass'.req = pass.req
  /\ pass'.pc \notin {"hold", "mcp"}

LEMMA PlainKeepsJournal ==
  ASSUME JournalInv, Plain
  PROVE  JournalInv'
BY DEF JournalInv, Plain, At

(* What an assignment to the place of a pass changes, and to the outcome.   *)
LEMMA GotoKeeps ==
  ASSUME TypeOK, NEW pc \in Places
  PROVE  [pass EXCEPT !.pc = pc].pc = pc /\ [pass EXCEPT !.pc = pc].req = pass.req
BY DEF TypeOK, Passes

LEMMA StatusKeeps ==
  ASSUME TypeOK, NEW p, NEW q
  PROVE  /\ [status EXCEPT !.phase = p].rev = status.rev
         /\ [status EXCEPT !.runtime = p].rev = status.rev
         /\ [status EXCEPT !.wphase = p].rev = status.rev
         /\ [status EXCEPT !.wrev = p, !.wphase = q].rev = status.rev
BY DEF TypeOK, Statuses

(* Carrying a request out counts it once.                                   *)
LEMMA DispatchKeepsJournal ==
  ASSUME TypeOK, JournalInv, Dispatch, pass'.req = pass.req,
         pass'.pc \notin {"idle", "hold", "mcp"}
  PROVE  JournalInv'
<1> DEFINE n == pass.req.rev
<1>1. n \in Rev /\ n = file.rev /\ sent["mcp"][n] = 0 /\ pass.pc = "mcp"
  BY DEF JournalInv, Dispatch, At
<1>2. sent'["mcp"] = [sent["mcp"] EXCEPT ![n] = 1]
  BY <1>1 DEF Dispatch, Sent, TypeOK
<1>3. sent'["mcp"][n] = 1 /\ \A r \in Rev : r # n => sent'["mcp"][r] = sent["mcp"][r]
  BY <1>1, <1>2 DEF TypeOK
<1>4. UNCHANGED <<file, status, control>>
  BY DEF Dispatch, gateway, journal
<1> QED
  BY <1>1, <1>3, <1>4 DEF JournalInv, At

LEMMA InitJournal == Init => JournalInv
BY BoundsAssumption DEF Init, JournalInv, At, NoStatus, NoPass, None, Rev

LEMMA StepJournal ==
  ASSUME TypeOK, JournalInv, [Next]_vars
  PROVE  JournalInv'
<1> {"user", "dev", "tidy", "hold", "mcp", "finish", "make", "again", "rename",
     "revive", "provision", "rollback", "start", "drop", "restore", "boot",
     "sync", "combine", "devapply", "devmake", "devrename", "devstart", "devdrop",
     "devback", "devboot", "devdone"} \subseteq Places
  BY DEF Places
<1>1. ASSUME NEW action \in AdminActions, AdminRequest(action) PROVE JournalInv'
  <2>1. control.rev \in 0..MaxRev /\ personal.rev \in 0..MaxRev
    BY RequestRev DEF TypeOK
  <2>2. control'.rev >= control.rev
    BY <1>1, <2>1, BoundsAssumption DEF AdminRequest, NextRev
  <2>3. file.rev \in 0..MaxRev /\ pass.req.rev \in 0..MaxRev /\ control'.rev \in 0..MaxRev
    BY <1>1, RequestRev, BoundsAssumption DEF AdminRequest, TypeOK, Statuses, Passes, Rev
  <2> QED
    BY <1>1, <2>1, <2>2, <2>3, BoundsAssumption
    DEF AdminRequest, JournalInv, At, journal, history
<1>2. ASSUME NEW action \in LifecycleActions, PersonalRequest(action) PROVE JournalInv'
  BY <1>2 DEF PersonalRequest, JournalInv, At, journal, history
<1>3. CASE SetStatus
  BY <1>3 DEF SetStatus, JournalInv, At, journal
<1>4. CASE PassBegin
  <2>1. /\ pass'.pc = "user" /\ pass'.req = control /\ status' = file
        /\ UNCHANGED <<file, control, sent>>
    BY <1>4 DEF PassBegin, NoPass, gateway
  <2>2. control.rev \in 0..MaxRev
    BY RequestRev DEF TypeOK
  <2> QED
    BY <2>1, <2>2, BoundsAssumption DEF JournalInv, At
<1>5. CASE UserBegin
  <2>1. PICK ok \in Outcomes : UserBegin!2!(ok)
    BY <1>5 DEF UserBegin
  <2>2. UNCHANGED <<control, sent>> /\ pass.pc = "user" /\ pass'.req = pass.req
    BY <1>5, <2>1 DEF UserBegin, gateway, At, TypeOK, Passes
  <2>3. CASE pass'.pc = "hold"
    <3>1. /\ pass.req # None /\ status.rev # pass.req.rev
          /\ status'.rev = pass.req.rev /\ file' = status'
      BY <2>1, <2>3 DEF TypeOK, Passes, Statuses, Journaled
    <3>2. pass.req.rev \in Rev /\ file.rev \in 0..MaxRev
      BY <3>1, RequestRev DEF TypeOK, Passes, Statuses
    <3>3. file.rev < pass.req.rev /\ pass.req.rev <= control.rev
      BY <2>2, <3>1, <3>2, BoundsAssumption DEF JournalInv, At, Rev
    <3>4. sent["mcp"] \in [Rev -> 0..2]
      BY DEF TypeOK
    <3>5. sent["mcp"][pass.req.rev] <= 0
      BY <3>2, <3>3, BoundsAssumption DEF JournalInv, Rev
    <3>6. sent["mcp"][pass.req.rev] = 0
      BY <3>2, <3>4, <3>5
    <3>7. \A r \in Rev : sent["mcp"][r] <= (IF r <= pass.req.rev THEN 1 ELSE 0)
      BY <3>2, <3>3, <3>4, BoundsAssumption DEF JournalInv, Rev
    <3>8. pass.req.rev <= pass.req.rev
      BY <3>2, BoundsAssumption DEF Rev
    <3> QED
      BY <2>2, <2>3, <3>1, <3>2, <3>3, <3>6, <3>7, <3>8 DEF JournalInv, At
  <2>4. CASE pass'.pc # "hold"
    <3>1. \/ pass' = [pass EXCEPT !.pc = "dev", !.user = account] /\ UNCHANGED <<file, status>>
          \/ /\ status' \in {status, [status EXCEPT !.phase = "failed"]}
             /\ pass' = [pass EXCEPT !.pc = "tidy", !.user = account]
             /\ UNCHANGED file
      <4>1. [pass EXCEPT !.pc = "hold", !.user = account, !.then = "finish"].pc = "hold"
        BY DEF TypeOK, Passes
      <4> QED
        BY <2>1, <2>4, <4>1
    <3>2. pass'.pc \in {"dev", "tidy"}
      BY <3>1 DEF TypeOK, Passes
    <3>3. file' = file /\ status'.rev = status.rev
      BY <3>1, StatusKeeps
    <3> QED
      BY <2>2, <3>2, <3>3, PlainKeepsJournal DEF Plain
  <2> QED
    BY <2>3, <2>4
<1>6. CASE Hold
  <2>1. /\ pass'.req = pass.req /\ pass'.pc \notin {"idle", "hold"} /\ pass.pc = "hold"
    BY <1>6, ThrownTo DEF Hold, Goto, At, TypeOK, Passes
  <2>2. UNCHANGED <<file, status, control, sent>>
    BY <1>6 DEF Hold, gateway, journal
  <2> QED
    BY <2>1, <2>2 DEF JournalInv, At
<1>7. CASE ApplyCommand
  <2>1. pass'.req = pass.req /\ pass'.pc \notin {"idle", "hold", "mcp"}
    BY <1>7, GotoKeeps, ThrownTo DEF ApplyCommand
  <2> QED
    BY <1>7, <2>1, DispatchKeepsJournal DEF ApplyCommand
<1>8. CASE ApplyNothing
  <2>1. pass'.req = pass.req /\ pass'.pc \notin {"idle", "hold", "mcp"}
    BY <1>8, GotoKeeps, ThrownTo DEF ApplyNothing, Goto, TypeOK, Passes
  <2> QED
    BY <1>8, <2>1, DispatchKeepsJournal DEF ApplyNothing
<1>9. CASE ApplyInPlace
  <2>1. pass'.req = pass.req /\ pass'.pc \notin {"idle", "hold", "mcp"}
    BY <1>9, GotoKeeps, ThrownTo DEF ApplyInPlace, TypeOK, Passes
  <2> QED
    BY <1>9, <2>1, DispatchKeepsJournal DEF ApplyInPlace
<1>10. CASE ApplyReplace
  <2>1. pass'.req = pass.req /\ pass'.pc \notin {"idle", "hold", "mcp"}
    BY <1>10, GotoKeeps, ThrownTo DEF ApplyReplace, TypeOK, Passes
  <2> QED
    BY <1>10, <2>1, DispatchKeepsJournal DEF ApplyReplace
<1>11. CASE Rename
  <2>1. pass'.req = pass.req /\ pass'.pc \notin {"idle", "hold", "mcp"}
    BY <1>11, GotoKeeps, ThrownTo, SyncedTo, SettledTo DEF Rename
  <2>2. file' = file /\ status'.rev = status.rev
    BY <1>11 DEF Rename, journal, history
  <2>3. sent'["mcp"] = sent["mcp"]
    BY <1>11 DEF Rename, history
  <2> QED
    BY <1>11, <2>1, <2>2, <2>3, PlainKeepsJournal DEF Rename, At, Plain, gateway
<1>12. CASE Provision
  <2>1. pass'.req = pass.req /\ pass'.pc \notin {"idle", "hold", "mcp"}
    BY <1>12, GotoKeeps, ThrownTo, SyncedTo, SettledTo DEF Provision, Goto
  <2>2. file' = file /\ status'.rev = status.rev
    BY <1>12 DEF Provision, journal, history
  <2>3. sent'["mcp"] = sent["mcp"]
    BY <1>12 DEF Provision, history
  <2> QED
    BY <1>12, <2>1, <2>2, <2>3, PlainKeepsJournal DEF Provision, At, Plain, gateway
<1>13. CASE Start
  <2>1. pass'.req = pass.req /\ pass'.pc \notin {"idle", "hold", "mcp"}
    BY <1>13, GotoKeeps, ThrownTo, SyncedTo, SettledTo DEF Start
  <2>2. file' = file /\ status'.rev = status.rev
    BY <1>13 DEF Start, journal, history
  <2>3. sent'["mcp"] = sent["mcp"]
    BY <1>13 DEF Start, history
  <2> QED
    BY <1>13, <2>1, <2>2, <2>3, PlainKeepsJournal DEF Start, At, Plain, gateway
<1>14. CASE Rollback
  <2>1. pass'.req = pass.req /\ pass'.pc \notin {"idle", "hold", "mcp"}
    BY <1>14, GotoKeeps, ThrownTo, SyncedTo, SettledTo DEF Rollback
  <2>2. file' = file /\ status'.rev = status.rev
    BY <1>14 DEF Rollback, journal, history
  <2>3. sent'["mcp"] = sent["mcp"]
    BY <1>14 DEF Rollback, history
  <2> QED
    BY <1>14, <2>1, <2>2, <2>3, PlainKeepsJournal DEF Rollback, At, Plain, gateway
<1>15. CASE Restore
  <2>1. pass'.req = pass.req /\ pass'.pc \notin {"idle", "hold", "mcp"}
    BY <1>15, GotoKeeps, ThrownTo, SyncedTo, SettledTo DEF Restore
  <2>2. file' = file /\ status'.rev = status.rev
    BY <1>15 DEF Restore, journal, history
  <2>3. sent'["mcp"] = sent["mcp"]
    BY <1>15 DEF Restore, history
  <2> QED
    BY <1>15, <2>1, <2>2, <2>3, PlainKeepsJournal DEF Restore, At, Plain, gateway
<1>16. CASE Revive
  <2>1. pass'.req = pass.req /\ pass'.pc \notin {"idle", "hold", "mcp"}
    BY <1>16, GotoKeeps, ThrownTo, SyncedTo, SettledTo DEF Revive
  <2>2. file' = file /\ status'.rev = status.rev
    BY <1>16 DEF Revive, journal, history
  <2>3. sent'["mcp"] = sent["mcp"]
    BY <1>16 DEF Revive, history
  <2> QED
    BY <1>16, <2>1, <2>2, <2>3, PlainKeepsJournal DEF Revive, At, Plain, gateway
<1>17. CASE Drop
  <2>1. pass'.req = pass.req /\ pass'.pc \notin {"idle", "hold", "mcp"}
    BY <1>17, GotoKeeps, ThrownTo, SyncedTo, SettledTo DEF Drop
  <2>2. file' = file /\ status'.rev = status.rev
    BY <1>17 DEF Drop, journal, history
  <2>3. sent'["mcp"] = sent["mcp"]
    BY <1>17 DEF Drop, history
  <2> QED
    BY <1>17, <2>1, <2>2, <2>3, PlainKeepsJournal DEF Drop, At, Plain, gateway
<1>18. CASE Make
  <2>1. pass'.req = pass.req /\ pass'.pc \notin {"idle", "hold", "mcp"}
    BY <1>18, GotoKeeps, ThrownTo, SyncedTo, SettledTo DEF Make, TypeOK, Passes
  <2>2. file' = file /\ status'.rev = status.rev
    BY <1>18 DEF Make, journal, history
  <2>3. sent'["mcp"] = sent["mcp"]
    BY <1>18 DEF Make, history
  <2> QED
    BY <1>18, <2>1, <2>2, <2>3, PlainKeepsJournal DEF Make, At, Plain, gateway
<1>19. CASE Boot
  <2>1. pass'.req = pass.req /\ pass'.pc \notin {"idle", "hold", "mcp"}
    BY <1>19, GotoKeeps, ThrownTo, SyncedTo, SettledTo DEF Boot
  <2>2. file' = file /\ status'.rev = status.rev
    BY <1>19 DEF Boot, journal, history
  <2>3. sent'["mcp"] = sent["mcp"]
    BY <1>19 DEF Boot, history
  <2> QED
    BY <1>19, <2>1, <2>2, <2>3, PlainKeepsJournal DEF Boot, At, Plain, gateway
<1>20. CASE Finish
  <2>1. pass'.req = pass.req /\ pass'.pc \notin {"idle", "hold", "mcp"}
    BY <1>20, FinishLeads
  <2>2. file' = file /\ status'.rev = status.rev
    BY <1>20, StatusKeeps DEF Finish
  <2>3. sent'["mcp"] = sent["mcp"]
    BY <1>20 DEF Finish, history
  <2> QED
    BY <1>20, <2>1, <2>2, <2>3, PlainKeepsJournal DEF Finish, At, Plain, gateway
<1>21. CASE Tidy
  <2>1. pass'.req = pass.req /\ pass'.pc \notin {"idle", "hold", "mcp"}
    BY <1>21, GotoKeeps, ThrownTo, SyncedTo, SettledTo DEF Tidy, Goto, TypeOK, Passes
  <2>2. file' = file /\ status'.rev = status.rev
    BY <1>21 DEF Tidy, journal, history
  <2>3. sent'["mcp"] = sent["mcp"]
    BY <1>21 DEF Tidy, history
  <2> QED
    BY <1>21, <2>1, <2>2, <2>3, PlainKeepsJournal DEF Tidy, At, Plain, gateway
<1>22. CASE DevBegin
  <2>1. pass'.req = pass.req /\ pass'.pc \notin {"idle", "hold", "mcp"}
    BY <1>22, GotoKeeps, SettledTo DEF DevBegin, TypeOK, Passes
  <2>2. \/ UNCHANGED file /\ status' \in {status, [status EXCEPT !.wphase = "failed"],
              [status EXCEPT !.wrev = WorkspaceRequest.rev, !.wphase = "failed"]}
        \/ /\ status' = [status EXCEPT !.wrev = WorkspaceRequest.rev, !.wphase = "applying"]
           /\ file' = status'
    BY <1>22 DEF DevBegin, Journaled
  <2>3. status'.rev = status.rev /\ file'.rev = status.rev
    BY <2>2 DEF JournalInv, TypeOK, Statuses
  <2> QED
    BY <1>22, <2>1, <2>3, PlainKeepsJournal DEF DevBegin, At, Plain, gateway, JournalInv
<1>23. CASE DevApply
  <2>1. pass'.req = pass.req /\ pass'.pc \notin {"idle", "hold", "mcp"}
    BY <1>23, GotoKeeps, ThrownTo, SyncedTo, SettledTo DEF DevApply, TypeOK, Passes
  <2>2. file' = file /\ status'.rev = status.rev
    BY <1>23 DEF DevApply, journal, history
  <2>3. sent'["mcp"] = sent["mcp"]
    BY <1>23 DEF DevApply, Sent, TypeOK
  <2> QED
    BY <1>23, <2>1, <2>2, <2>3, PlainKeepsJournal DEF DevApply, At, Plain, gateway
<1>24. CASE Sync
  <2>1. \/ pass' \in {Synced, Thrown}
        \/ pass' = [pass EXCEPT !.pc = "devmake", !.swap = FALSE,
                       !.up = Resuming \/ (AutoStart /\ mcp = "running")]
        \/ pass' = [pass EXCEPT !.pc = "devrename", !.swap = TRUE,
                       !.up = (dev = "running") \/ Resuming]
    BY <1>24 DEF Sync
  <2>2. pass'.req = pass.req /\ pass'.pc \notin {"idle", "hold", "mcp"}
    BY <2>1, ThrownTo, SyncedTo DEF TypeOK, Passes
  <2> QED
    BY <1>24, <2>2, PlainKeepsJournal DEF Sync, At, Plain, gateway, journal
<1>25. CASE DevRename
  <2>1. pass'.req = pass.req /\ pass'.pc \notin {"idle", "hold", "mcp"}
    BY <1>25, GotoKeeps, ThrownTo, SyncedTo, SettledTo DEF DevRename
  <2>2. file' = file /\ status'.rev = status.rev
    BY <1>25 DEF DevRename, journal, history
  <2>3. sent'["mcp"] = sent["mcp"]
    BY <1>25 DEF DevRename, history
  <2> QED
    BY <1>25, <2>1, <2>2, <2>3, PlainKeepsJournal DEF DevRename, At, Plain, gateway
<1>26. CASE DevMake
  <2>1. pass'.req = pass.req /\ pass'.pc \notin {"idle", "hold", "mcp"}
    BY <1>26, GotoKeeps, ThrownTo, SyncedTo, SettledTo DEF DevMake
  <2>2. file' = file /\ status'.rev = status.rev
    BY <1>26 DEF DevMake, journal, history
  <2>3. sent'["mcp"] = sent["mcp"]
    BY <1>26 DEF DevMake, history
  <2> QED
    BY <1>26, <2>1, <2>2, <2>3, PlainKeepsJournal DEF DevMake, At, Plain, gateway
<1>27. CASE DevBoot
  <2>1. pass'.req = pass.req /\ pass'.pc \notin {"idle", "hold", "mcp"}
    BY <1>27, GotoKeeps, ThrownTo, SyncedTo, SettledTo DEF DevBoot
  <2>2. file' = file /\ status'.rev = status.rev
    BY <1>27 DEF DevBoot, journal, history
  <2>3. sent'["mcp"] = sent["mcp"]
    BY <1>27 DEF DevBoot, history
  <2> QED
    BY <1>27, <2>1, <2>2, <2>3, PlainKeepsJournal DEF DevBoot, At, Plain, gateway
<1>28. CASE DevBack
  <2>1. pass'.req = pass.req /\ pass'.pc \notin {"idle", "hold", "mcp"}
    BY <1>28, GotoKeeps, ThrownTo, SyncedTo, SettledTo DEF DevBack
  <2>2. file' = file /\ status'.rev = status.rev
    BY <1>28 DEF DevBack, journal, history
  <2>3. sent'["mcp"] = sent["mcp"]
    BY <1>28 DEF DevBack, history
  <2> QED
    BY <1>28, <2>1, <2>2, <2>3, PlainKeepsJournal DEF DevBack, At, Plain, gateway
<1>29. CASE DevDrop
  <2>1. pass'.req = pass.req /\ pass'.pc \notin {"idle", "hold", "mcp"}
    BY <1>29, GotoKeeps, ThrownTo, SyncedTo, SettledTo DEF DevDrop
  <2>2. file' = file /\ status'.rev = status.rev
    BY <1>29 DEF DevDrop, journal, history
  <2>3. sent'["mcp"] = sent["mcp"]
    BY <1>29 DEF DevDrop, history
  <2> QED
    BY <1>29, <2>1, <2>2, <2>3, PlainKeepsJournal DEF DevDrop, At, Plain, gateway
<1>30. CASE DevStart
  <2>1. pass'.req = pass.req /\ pass'.pc \notin {"idle", "hold", "mcp"}
    BY <1>30, GotoKeeps, ThrownTo, SyncedTo, SettledTo DEF DevStart
  <2>2. file' = file /\ status'.rev = status.rev
    BY <1>30 DEF DevStart, journal, history
  <2>3. sent'["mcp"] = sent["mcp"]
    BY <1>30 DEF DevStart, history
  <2> QED
    BY <1>30, <2>1, <2>2, <2>3, PlainKeepsJournal DEF DevStart, At, Plain, gateway
<1>31. CASE DevDone
  <2>1. pass'.req = pass.req /\ pass'.pc \notin {"idle", "hold", "mcp"}
    BY <1>31, GotoKeeps, ThrownTo, SyncedTo, SettledTo DEF DevDone, TypeOK, Passes
  <2>2. file' = file /\ status'.rev = status.rev
    BY <1>31, StatusKeeps DEF DevDone
  <2>3. sent'["mcp"] = sent["mcp"]
    BY <1>31 DEF DevDone, history
  <2> QED
    BY <1>31, <2>1, <2>2, <2>3, PlainKeepsJournal DEF DevDone, At, Plain, gateway
<1>32. CASE Combine
  <2>1. pass'.pc = "idle"
    BY <1>32 DEF Combine, NoPass
  <2>2. status'.rev = status.rev /\ file'.rev = status.rev
    BY <1>32, StatusKeeps DEF Combine, Journaled
  <2> QED
    BY <1>32, <2>1, <2>2 DEF Combine, JournalInv, At, gateway, history
<1>33. CASE Crash
  BY <1>33 DEF Crash, JournalInv, At, NoPass, gateway
<1>34. CASE UNCHANGED vars
  BY <1>34 DEF vars, gateway, journal, history, JournalInv, At
<1> QED
  BY <1>1, <1>2, <1>3, <1>4, <1>5, <1>6, <1>7, <1>8, <1>9, <1>10, <1>11, <1>12,
     <1>13, <1>14, <1>15, <1>16, <1>17, <1>18, <1>19, <1>20, <1>21, <1>22,
     <1>23, <1>24, <1>25, <1>26, <1>27, <1>28, <1>29, <1>30, <1>31, <1>32, <1>33, <1>34
  DEF Next, Reconcile

(* A request is carried out on the MCP container at most once, whatever     *)
(* fails and wherever the provisioner crashes.                              *)
THEOREM NeverReplayed == Spec => []McpAppliesOnce
<1>1. TypeOK /\ JournalInv => McpAppliesOnce
  BY DEF TypeOK, JournalInv, McpAppliesOnce
<1> QED
  BY <1>1, InitTyping, StepTyping, InitJournal, StepJournal, PTL DEF Spec

-----------------------------------------------------------------------------
(* The MCP container is kept.  A step that removes neither container, makes  *)
(* no development container where there was none, and leads to no place     *)
(* that relies on one, changes nothing of it.                               *)
Harmless ==
  /\ mcpOld' = mcpOld
  /\ mcp # "absent" => mcp' # "absent"
  /\ dev' # "absent" \/ devOld' => dev # "absent" \/ devOld
  /\ pass'.pc \notin NeedMcp \cup NeedOld
  /\ pass'.pc = "sync" => pass'.then # "devdone" \/ pass'.user = "active"

LEMMA HarmlessKeeps ==
  ASSUME ReplacementInv, Harmless
  PROVE  ReplacementInv'
BY DEF ReplacementInv, Harmless, At, Active

LEMMA Leads ==
  ASSUME TypeOK
  PROVE  /\ Thrown.pc \notin NeedMcp \cup NeedOld /\ Thrown.pc # "sync"
         /\ Synced.pc \notin NeedOld /\ Synced.pc # "sync"
         /\ Synced.pc \in NeedMcp => Synced.pc = "devstart" /\ pass.then = "devdone"
         /\ Settled.pc \notin NeedMcp \cup NeedOld /\ Settled.then = "combine"
BY ThrownTo, SyncedTo, SettledTo DEF NeedMcp, NeedOld

LEMMA InitReplacement == Init => ReplacementInv
BY DEF Init, ReplacementInv, NoPass, NeedMcp, NeedOld, At

LEMMA StepReplacement ==
  ASSUME TypeOK, ReplacementInv, [Next]_vars
  PROVE  ReplacementInv'
<1>1. ASSUME NEW action \in AdminActions, AdminRequest(action) PROVE ReplacementInv'
  BY <1>1 DEF AdminRequest, ReplacementInv, At, Active, docker
<1>2. ASSUME NEW action \in LifecycleActions, PersonalRequest(action) PROVE ReplacementInv'
  BY <1>2 DEF PersonalRequest, ReplacementInv, At, Active, docker
<1>3. CASE SetStatus
  BY <1>3 DEF SetStatus, ReplacementInv, At, Active, docker
<1>4. CASE PassBegin
  <2>1. /\ pass'.pc \notin NeedMcp \cup NeedOld
        /\ pass'.pc = "sync" => pass'.then # "devdone" \/ pass'.user = "active"
    BY <1>4, Leads DEF PassBegin, NeedMcp, NeedOld, NoPass
  <2>2. /\ mcpOld' = mcpOld /\ (mcp # "absent" => mcp' # "absent")
        /\ dev' # "absent" \/ devOld' => dev # "absent" \/ devOld
    BY <1>4 DEF PassBegin, docker
  <2> QED
    BY <2>1, <2>2, HarmlessKeeps DEF Harmless
<1>5. CASE UserBegin
  <2>3. pass'.pc \notin NeedMcp \cup NeedOld /\ pass'.pc # "sync"
    BY <1>5, UserLeads DEF NeedMcp, NeedOld
  <2> QED
    BY <1>5, <2>3, HarmlessKeeps DEF UserBegin, Harmless, docker
<1>6. CASE Hold
  <2>1. /\ pass'.pc \notin NeedMcp \cup NeedOld
        /\ pass'.pc = "sync" => pass'.then # "devdone" \/ pass'.user = "active"
    BY <1>6, HoldLeads, Leads DEF NeedMcp, NeedOld
  <2>2. /\ mcpOld' = mcpOld /\ (mcp # "absent" => mcp' # "absent")
        /\ dev' # "absent" \/ devOld' => dev # "absent" \/ devOld
    BY <1>6 DEF Hold, Becomes
  <2> QED
    BY <2>1, <2>2, HarmlessKeeps DEF Harmless
<1>7. CASE ApplyCommand
  <2>1. /\ pass'.pc \notin NeedMcp \cup NeedOld
        /\ pass'.pc = "sync" => pass'.then # "devdone" \/ pass'.user = "active"
    BY <1>7, Leads DEF ApplyCommand, NeedMcp, NeedOld, TypeOK, Passes
  <2>2. /\ mcpOld' = mcpOld /\ (mcp # "absent" => mcp' # "absent")
        /\ dev' # "absent" \/ devOld' => dev # "absent" \/ devOld
    BY <1>7 DEF ApplyCommand, Dispatch, Becomes, Stopped
  <2> QED
    BY <2>1, <2>2, HarmlessKeeps DEF Harmless
<1>8. CASE ApplyNothing
  <2>1. /\ pass'.pc \notin NeedMcp \cup NeedOld
        /\ pass'.pc = "sync" => pass'.then # "devdone" \/ pass'.user = "active"
    BY <1>8, Leads DEF ApplyNothing, NeedMcp, NeedOld, Goto, TypeOK, Passes
  <2>2. /\ mcpOld' = mcpOld /\ (mcp # "absent" => mcp' # "absent")
        /\ dev' # "absent" \/ devOld' => dev # "absent" \/ devOld
    BY <1>8 DEF ApplyNothing, Dispatch
  <2> QED
    BY <2>1, <2>2, HarmlessKeeps DEF Harmless
<1>9. CASE ApplyInPlace
  <2>1. /\ mcp # "absent" /\ mcp' # "absent"
        /\ UNCHANGED <<mcpOld, dev, devOld>>
    BY <1>9 DEF ApplyInPlace, Dispatch, Becomes
  <2>2. pass'.pc \in {"again", "finish"} \/ pass' = Thrown
    BY <1>9 DEF ApplyInPlace, TypeOK, Passes
  <2>3. pass'.pc \notin NeedOld /\ pass'.pc # "sync"
    BY <2>2, Leads DEF NeedOld
  <2> QED
    BY <2>1, <2>3 DEF ReplacementInv, At, Active
<1>10. CASE ApplyReplace
  <2>1. PICK ok \in Outcomes : ApplyReplace!4!(ok)
    BY <1>10 DEF ApplyReplace
  <2>2. /\ mcp # "absent" /\ mcp' # "absent"
        /\ UNCHANGED <<mcpOld, dev, devOld>>
    BY <1>10 DEF ApplyReplace, Dispatch, Becomes
  <2>3. DEFINE next == IF ok THEN [pass EXCEPT !.pc = "rename"]
                       ELSE IF pass.req.action = "workspace"
                       THEN [pass EXCEPT !.pc = "revive"] ELSE Thrown
  <2>4. next \in Passes /\ next.pc \notin NeedOld /\ next.pc # "sync"
    <3>1. {"rename", "revive"} \subseteq Places
      BY DEF Places
    <3> QED
      BY <3>1, PassGoto, GotoKeeps, ThrownTo, Leads DEF NeedOld
  <2>5. pass' = [next EXCEPT !.up = (mcp = "running")]
    BY <2>1
  <2>6. pass'.pc = next.pc
    BY <2>4, <2>5 DEF Passes
  <2> QED
    BY <2>2, <2>4, <2>6 DEF ReplacementInv, At, Active
<1>11. CASE Rename
  <2>1. PICK ok \in Outcomes, renamed \in BOOLEAN : Rename!2!(ok, renamed)
    BY <1>11 DEF Rename
  <2>2. mcp # "absent" /\ UNCHANGED <<dev, devOld>>
    BY <1>11 DEF Rename, ReplacementInv, NeedMcp, At
  <2>3. CASE renamed
    <3>1. mcpOld' # NoOld /\ mcpOld'.state # "absent"
      BY <2>1, <2>2, <2>3 DEF SetAside, NoOld
    <3>2. pass'.pc \notin NeedMcp /\ pass'.pc # "sync"
      BY <2>1, <2>3, Leads DEF TypeOK, Passes, NeedMcp, NeedOld
    <3> QED
      BY <3>1, <3>2 DEF ReplacementInv, At
  <2>4. CASE ~renamed
    <3>1. UNCHANGED <<mcp, mcpOld>> /\ ~ok
      BY <2>1, <2>4
    <3>2. pass'.pc \notin NeedMcp \cup NeedOld /\ pass'.pc # "sync"
      BY <2>1, <3>1, Leads DEF TypeOK, Passes, NeedMcp, NeedOld
    <3> QED
      BY <2>2, <3>1, <3>2, HarmlessKeeps DEF Harmless
  <2> QED
    BY <2>3, <2>4
<1>12. CASE Provision
  <2>1. PICK ok \in Outcomes : Provision!2!(ok)
    BY <1>12 DEF Provision
  <2>2. mcpOld # NoOld /\ UNCHANGED <<mcpOld, dev, devOld>>
    BY <1>12 DEF Provision, ReplacementInv, NeedOld, At
  <2>3. pass'.pc \in NeedMcp => ok
    BY <2>1 DEF Goto, NeedMcp, TypeOK, Passes
  <2>4. ok => mcp' # "absent"
    BY <2>1 DEF Becomes
  <2>5. pass'.pc # "sync"
    BY <2>1 DEF Goto, TypeOK, Passes
  <2> QED
    BY <2>2, <2>3, <2>4, <2>5 DEF ReplacementInv, At
<1>13. CASE Start
  <2>1. PICK ok \in Outcomes : Start!2!(ok)
    BY <1>13 DEF Start
  <2>2. mcp # "absent" /\ UNCHANGED <<mcpOld, dev, devOld>>
    BY <1>13 DEF Start, ReplacementInv, NeedMcp, At
  <2>3. mcp' # "absent"
    BY <2>1, <2>2 DEF Becomes
  <2>4. pass'.pc \in NeedOld => pass.pc \in NeedOld
    BY <2>1, <1>13, Leads DEF Start, At, NeedOld, NeedMcp, TypeOK, Passes
  <2>5. pass'.pc # "sync"
    BY <2>1, Leads DEF TypeOK, Passes
  <2> QED
    BY <2>2, <2>3, <2>4, <2>5 DEF ReplacementInv, At
<1>14. CASE Rollback
  <2>1. mcpOld # NoOld /\ UNCHANGED <<mcpOld, dev, devOld>>
    BY <1>14 DEF Rollback, ReplacementInv, NeedOld, At
  <2>2. pass'.pc \notin NeedMcp /\ pass'.pc # "sync"
    BY <1>14, Leads DEF Rollback, NeedMcp, TypeOK, Passes
  <2> QED
    BY <2>1, <2>2 DEF ReplacementInv, At
<1>15. CASE Restore
  <2>1. PICK ok \in Outcomes, renamed \in BOOLEAN : Restore!2!(ok, renamed)
    BY <1>15 DEF Restore
  <2>2. mcpOld # NoOld /\ mcpOld.state # "absent" /\ UNCHANGED <<dev, devOld>>
    BY <1>15 DEF Restore, ReplacementInv, NeedOld, At
  <2>3. pass'.pc \notin NeedMcp \cup NeedOld /\ pass'.pc # "sync"
    BY <2>1, Leads DEF NeedMcp, NeedOld, TypeOK, Passes
  <2>4. \/ mcp' # "absent" /\ mcpOld' = NoOld
        \/ UNCHANGED <<mcp, mcpOld>>
    BY <2>1, <2>2
  <2> QED
    BY <2>2, <2>3, <2>4 DEF ReplacementInv, At
<1>16. CASE Revive
  <2>1. /\ pass'.pc \notin NeedMcp \cup NeedOld
        /\ pass'.pc = "sync" => pass'.then # "devdone" \/ pass'.user = "active"
    BY <1>16, Leads DEF Revive, NeedMcp, NeedOld
  <2>2. /\ mcpOld' = mcpOld /\ (mcp # "absent" => mcp' # "absent")
        /\ dev' # "absent" \/ devOld' => dev # "absent" \/ devOld
    BY <1>16 DEF Revive, Becomes
  <2> QED
    BY <2>1, <2>2, HarmlessKeeps DEF Harmless
<1>17. CASE Drop
  <2>1. mcp # "absent" /\ UNCHANGED <<mcp, dev, devOld>> /\ mcpOld' \in {mcpOld, NoOld}
    BY <1>17 DEF Drop, ReplacementInv, NeedMcp, At, Becomes
  <2>2. pass'.pc \notin NeedOld /\ pass'.pc # "sync"
    BY <1>17, Leads DEF Drop, NeedOld, TypeOK, Passes
  <2> QED
    BY <2>1, <2>2 DEF ReplacementInv, At
<1>18. CASE Make
  <2>1. /\ pass'.pc \notin NeedMcp \cup NeedOld
        /\ pass'.pc = "sync" => pass'.then # "devdone" \/ pass'.user = "active"
    BY <1>18, Leads DEF Make, NeedMcp, NeedOld, TypeOK, Passes
  <2>2. /\ mcpOld' = mcpOld /\ (mcp # "absent" => mcp' # "absent")
        /\ dev' # "absent" \/ devOld' => dev # "absent" \/ devOld
    BY <1>18 DEF Make, Becomes
  <2> QED
    BY <2>1, <2>2, HarmlessKeeps DEF Harmless
<1>19. CASE Boot
  <2>1. /\ pass'.pc \notin NeedMcp \cup NeedOld
        /\ pass'.pc = "sync" => pass'.then # "devdone" \/ pass'.user = "active"
    BY <1>19, Leads DEF Boot, NeedMcp, NeedOld, TypeOK, Passes
  <2>2. /\ mcpOld' = mcpOld /\ (mcp # "absent" => mcp' # "absent")
        /\ dev' # "absent" \/ devOld' => dev # "absent" \/ devOld
    BY <1>19 DEF Boot, Becomes
  <2> QED
    BY <2>1, <2>2, HarmlessKeeps DEF Harmless
<1>20. CASE Finish
  <2>1. /\ pass'.pc \notin NeedMcp \cup NeedOld
        /\ pass'.pc = "sync" => pass'.then # "devdone" \/ pass'.user = "active"
    BY <1>20, FinishLeads DEF NeedMcp, NeedOld
  <2>2. /\ mcpOld' = mcpOld /\ (mcp # "absent" => mcp' # "absent")
        /\ dev' # "absent" \/ devOld' => dev # "absent" \/ devOld
    BY <1>20 DEF Finish, docker
  <2> QED
    BY <2>1, <2>2, HarmlessKeeps DEF Harmless
<1>21. CASE Tidy
  <2>1. /\ pass'.pc \notin NeedMcp \cup NeedOld
        /\ pass'.pc = "sync" => pass'.then # "devdone" \/ pass'.user = "active"
    BY <1>21, Leads DEF Tidy, NeedMcp, NeedOld, Goto, TypeOK, Passes
  <2>2. /\ mcpOld' = mcpOld /\ (mcp # "absent" => mcp' # "absent")
        /\ dev' # "absent" \/ devOld' => dev # "absent" \/ devOld
    BY <1>21 DEF Tidy, Becomes
  <2> QED
    BY <2>1, <2>2, HarmlessKeeps DEF Harmless
<1>22. CASE DevBegin
  <2>2. /\ pass'.pc \notin NeedMcp \cup NeedOld
        /\ pass'.pc = "sync" => pass'.then # "devdone"
    BY <1>22, DevLeads, Leads DEF NeedMcp, NeedOld
  <2>3. UNCHANGED <<mcp, mcpOld, devOld>> /\ (dev' # "absent" => dev # "absent")
    BY <1>22 DEF DevBegin, Becomes, Stopped
  <2> QED
    BY <2>2, <2>3, HarmlessKeeps DEF Harmless
<1>23. CASE DevApply
  <2>1. /\ pass'.pc \notin NeedMcp \cup NeedOld
        /\ pass'.pc = "sync" => pass'.then # "devdone" \/ pass'.user = "active"
    BY <1>23, Leads DEF DevApply, NeedMcp, NeedOld, Active, TypeOK, Passes
  <2>2. /\ mcpOld' = mcpOld /\ (mcp # "absent" => mcp' # "absent")
        /\ dev' # "absent" \/ devOld' => dev # "absent" \/ devOld
    BY <1>23 DEF DevApply, Becomes, Stopped
  <2> QED
    BY <2>1, <2>2, HarmlessKeeps DEF Harmless
<1>24. CASE Sync
  <2>1. UNCHANGED <<mcp, mcpOld, devOld>> /\ pass.pc = "sync"
    BY <1>24 DEF Sync, At
  <2>2. dev' # "absent" => dev # "absent"
    BY <1>24 DEF Sync, Becomes, Stopped
  <2>3. \/ pass' = Thrown
        \/ pass' = Synced
        \/ /\ mcp # "absent"
           /\ \/ pass' = [pass EXCEPT !.pc = "devmake", !.swap = FALSE,
                            !.up = Resuming \/ (AutoStart /\ mcp = "running")]
              \/ pass' = [pass EXCEPT !.pc = "devrename", !.swap = TRUE,
                            !.up = (dev = "running") \/ Resuming]
    BY <1>24 DEF Sync
  <2>4. pass' = Synced => ~Active \/ mcp # "absent" \/ pass' = Thrown
    BY <1>24 DEF Sync
  <2>5. pass'.pc \notin NeedOld /\ pass'.pc # "sync"
    BY <2>3, Leads DEF NeedOld, TypeOK, Passes
  <2>6. pass'.pc \in NeedMcp => mcp # "absent"
    BY <2>1, <2>3, <2>4, Leads DEF ReplacementInv, At
  <2> QED
    BY <2>1, <2>2, <2>5, <2>6 DEF ReplacementInv, At
<1>25. CASE DevRename
  <2>1. mcp # "absent" /\ UNCHANGED <<mcp, mcpOld>>
    BY <1>25 DEF DevRename, ReplacementInv, NeedMcp, At
  <2>2. pass'.pc \notin NeedOld /\ pass'.pc # "sync"
    BY <1>25, Leads DEF DevRename, NeedOld, TypeOK, Passes
  <2> QED
    BY <2>1, <2>2 DEF ReplacementInv, At
<1>26. CASE DevMake
  <2>1. mcp # "absent" /\ UNCHANGED <<mcp, mcpOld>>
    BY <1>26 DEF DevMake, ReplacementInv, NeedMcp, At
  <2>2. pass'.pc \notin NeedOld /\ pass'.pc # "sync"
    BY <1>26, Leads DEF DevMake, NeedOld, TypeOK, Passes
  <2> QED
    BY <2>1, <2>2 DEF ReplacementInv, At
<1>27. CASE DevBoot
  <2>1. mcp # "absent" /\ UNCHANGED <<mcp, mcpOld>>
    BY <1>27 DEF DevBoot, ReplacementInv, NeedMcp, At
  <2>2. pass'.pc \notin NeedOld /\ pass'.pc # "sync"
    BY <1>27, Leads DEF DevBoot, NeedOld, TypeOK, Passes
  <2> QED
    BY <2>1, <2>2 DEF ReplacementInv, At
<1>28. CASE DevBack
  <2>1. mcp # "absent" /\ UNCHANGED <<mcp, mcpOld>>
    BY <1>28 DEF DevBack, ReplacementInv, NeedMcp, At
  <2>2. pass'.pc \notin NeedOld /\ pass'.pc # "sync"
    BY <1>28, Leads DEF DevBack, NeedOld, TypeOK, Passes
  <2> QED
    BY <2>1, <2>2 DEF ReplacementInv, At
<1>29. CASE DevDrop
  <2>1. mcp # "absent" /\ UNCHANGED <<mcp, mcpOld>>
    BY <1>29 DEF DevDrop, ReplacementInv, NeedMcp, At
  <2>2. pass'.pc \notin NeedOld /\ pass'.pc # "sync"
    BY <1>29, Leads DEF DevDrop, NeedOld, TypeOK, Passes
  <2> QED
    BY <2>1, <2>2 DEF ReplacementInv, At
<1>30. CASE DevStart
  <2>1. mcp # "absent" /\ UNCHANGED <<mcp, mcpOld>>
    BY <1>30 DEF DevStart, ReplacementInv, NeedMcp, At
  <2>2. pass'.pc \notin NeedOld /\ pass'.pc # "sync"
    BY <1>30, Leads DEF DevStart, NeedOld, TypeOK, Passes
  <2> QED
    BY <2>1, <2>2 DEF ReplacementInv, At
<1>31. CASE DevDone
  <2>1. pass'.pc = Settled.pc /\ pass'.then = "combine"
    BY <1>31, SettledTo DEF DevDone, Passes
  <2> QED
    BY <1>31, <2>1, Leads, HarmlessKeeps DEF DevDone, Harmless, docker
<1>32. CASE Combine
  <2>1. /\ pass'.pc \notin NeedMcp \cup NeedOld
        /\ pass'.pc = "sync" => pass'.then # "devdone" \/ pass'.user = "active"
    BY <1>32, Leads DEF Combine, NeedMcp, NeedOld, NoPass
  <2>2. /\ mcpOld' = mcpOld /\ (mcp # "absent" => mcp' # "absent")
        /\ dev' # "absent" \/ devOld' => dev # "absent" \/ devOld
    BY <1>32 DEF Combine, docker
  <2> QED
    BY <2>1, <2>2, HarmlessKeeps DEF Harmless
<1>33. CASE Crash
  <2>1. /\ pass'.pc \notin NeedMcp \cup NeedOld
        /\ pass'.pc = "sync" => pass'.then # "devdone" \/ pass'.user = "active"
    BY <1>33, Leads DEF Crash, NeedMcp, NeedOld, NoPass
  <2>2. /\ mcpOld' = mcpOld /\ (mcp # "absent" => mcp' # "absent")
        /\ dev' # "absent" \/ devOld' => dev # "absent" \/ devOld
    BY <1>33 DEF Crash, docker
  <2> QED
    BY <2>1, <2>2, HarmlessKeeps DEF Harmless
<1>34. CASE UNCHANGED vars
  BY <1>34 DEF vars, docker, ReplacementInv, At, Active
<1> QED
  BY <1>1, <1>2, <1>3, <1>4, <1>5, <1>6, <1>7, <1>8, <1>9, <1>10, <1>11, <1>12,
     <1>13, <1>14, <1>15, <1>16, <1>17, <1>18, <1>19, <1>20, <1>21, <1>22,
     <1>23, <1>24, <1>25, <1>26, <1>27, <1>28, <1>29, <1>30, <1>31, <1>32, <1>33, <1>34
  DEF Next, Reconcile

(* Wherever a replacement fails or is cut short, the account keeps an MCP   *)
(* container.                                                               *)
THEOREM NeverLost == Spec => []ContainerIsKept
<1>1. ReplacementInv => ContainerIsKept
  BY DEF ReplacementInv, ContainerIsKept
<1> QED
  BY <1>1, InitTyping, StepTyping, InitReplacement, StepReplacement, PTL DEF Spec

-----------------------------------------------------------------------------
(***************************************************************************)
(* What is reported was done, and what was stopped stays stopped.  The     *)
(* status file tells of a request by its revision alone; the invariant     *)
(* relates the file and the pass's copy of it to what the containers did,  *)
(* to the requests the pass read and to those the gateway accepted since.  *)
(***************************************************************************)
RunnerPlaces == {"rename", "provision", "start", "again", "rollback", "restore",
                 "revive", "drop"}
DevPlaces == {"sync", "devrename", "devmake", "devboot", "devback", "devdrop"}

\* The request that governs the development container in the pass p.
Governing(p) == WorkspaceLifecycleControl(p.req, p.preq)

\* What follows an operation is known by its place, so that a throw leads
\* where it should.
WellPlaced(p) ==
  /\ p.pc \in {"idle", "user", "tidy", "dev"} => p.then = "none"
  /\ p.pc \in RunnerPlaces \cup {"hold", "mcp"} => p.then = "finish"
  /\ p.pc = "finish" => p.then \in {"finish", "resume"}
  /\ p.pc \in {"make", "boot"} => p.then \in {"finish", "none"}
  /\ p.pc \in DevPlaces => p.then \in {"resume", "devdone", "combine"}
  /\ p.pc \in {"devapply", "devstart", "devdone"} => p.then = "devdone"
  /\ p.pc = "combine" => p.then \in {"none", "combine"}

\* A pass with a stop comes to no place that starts the container.
StopsOnly(p) ==
  /\ p.req.action = "stop" =>
       p.pc \notin RunnerPlaces \cup {"make", "boot"} /\ ~p.resume /\ p.then # "resume"
  /\ Governing(p).action = "stop" /\ p.pc \in DevPlaces \cup {"devstart"} =>
       p.then = "resume"

\* The journal in memory is about the request in progress, and about the one
\* that governs the development container once that was settled.
NotedInv ==
  /\ pass.then \in {"finish", "resume"} =>
       status.rev = pass.req.rev /\ status.runtime # "applied"
  /\ pass.then = "devdone" => status.wphase = "applying"
  /\ pass.then \in {"devdone", "combine"} \/ At("combine") =>
       \/ status.phase = "failed"
       \/ Governing(pass) = None
       \/ status.wrev = Governing(pass).rev

\* A stop carried out without an error has stopped the container.
StoppedInv ==
  /\ At("finish") /\ pass.req.action = "stop" /\ ~pass.bad => mcp # "running"
  /\ At("devdone") /\ Governing(pass).action = "stop" /\ ~pass.bad => dev # "running"

\* The requests a pass read are the last ones, or older than those.
RequestsInv ==
  /\ control.rev # personal.rev \/ (control = None /\ personal = None)
  /\ ~At("idle") =>
       /\ pass.req = control \/ (pass.req.rev < control.rev /\ pass.preq.rev < control.rev)
       /\ pass.preq = personal
            \/ (pass.req.rev < personal.rev /\ pass.preq.rev < personal.rev)
       /\ status.wrev <= pass.req.rev \/ status.wrev <= pass.preq.rev
       /\ file.wrev <= pass.req.rev \/ file.wrev <= pass.preq.rev
  /\ At("idle") =>
       /\ status = file
       /\ file.wrev <= control.rev \/ file.wrev <= personal.rev

\* The status s tells of the last request that it was applied, and the request
\* governs the development container.
Told(s) ==
  /\ s.runtime = "applied" /\ s.rev = control.rev
  /\ control.action \in LifecycleActions /\ personal.rev < control.rev

StatusInv(s) ==
  /\ s.phase = "applied" => s.rev \in done["mcp"]
  /\ s.wphase = "applied" => s.wrev \in done["dev"]
  /\ s.runtime = "applied" => s.phase = "applied"
  /\ Told(s) => s.wphase = "applied" /\ s.wrev = control.rev
  /\ control.action = "stop" /\ s.rev = control.rev /\ s.phase = "applied" =>
       mcp # "running"
  /\ control.action = "stop" /\ s.wrev = control.rev /\ s.wphase = "applied"
       /\ personal.rev < control.rev => dev # "running"

ReportInv ==
  /\ WellPlaced(pass) /\ StopsOnly(pass) /\ NotedInv /\ StoppedInv /\ RequestsInv
  /\ StatusInv(status) /\ StatusInv(file)

(* It says what the two properties do.                                      *)
LEMMA RevsAreNumbers ==
  ASSUME TypeOK
  PROVE  /\ control.rev \in Nat /\ personal.rev \in Nat /\ pass.req.rev \in Nat
         /\ pass.preq.rev \in Nat /\ status.rev \in Nat /\ file.rev \in Nat
         /\ status.wrev \in Nat /\ file.wrev \in Nat
<1>1. \A r \in Request : r.rev \in Nat
  BY RequestRev, BoundsAssumption
<1>2. \A s \in Statuses : s.rev \in Nat /\ s.wrev \in Nat
  BY BoundsAssumption DEF Statuses
<1> QED
  BY <1>1, <1>2 DEF TypeOK, Passes

LEMMA ReportSays ==
  ASSUME TypeOK, ReportInv
  PROVE  ReportedIsDone /\ StoppedStaysStopped
<1>1. ASSUME Reported
      PROVE  /\ file.phase = "applied" /\ file.rev = control.rev /\ file.runtime = "applied"
             /\ personal.rev > control.rev \/ personal.rev < control.rev
  BY <1>1, RevsAreNumbers DEF Reported, ReportInv, StatusInv, RequestsInv
<1>2. ReportedIsDone
  BY <1>1 DEF ReportedIsDone, ReportInv, StatusInv, Told
<1>3. "stop" \in LifecycleActions
  BY DEF LifecycleActions
<1>4. StoppedStaysStopped
  BY <1>1, <1>3 DEF StoppedStaysStopped, ReportInv, StatusInv, Told
<1> QED
  BY <1>2, <1>4

LEMMA InitReport == Init => ReportInv
<1> SUFFICES ASSUME Init PROVE ReportInv
  OBVIOUS
<1>1. /\ pass = NoPass /\ status = NoStatus /\ file = NoStatus
      /\ control = None /\ personal = None
  BY DEF Init
<1>2. WellPlaced(pass) /\ StopsOnly(pass)
  BY <1>1 DEF WellPlaced, StopsOnly, NoPass, RunnerPlaces, DevPlaces, None
<1>3. NotedInv /\ StoppedInv
  BY <1>1 DEF NotedInv, StoppedInv, NoPass, At
<1>4. RequestsInv
  BY <1>1 DEF RequestsInv, NoPass, NoStatus, At, None
<1>5. StatusInv(status) /\ StatusInv(file)
  BY <1>1 DEF StatusInv, Told, NoStatus
<1> QED
  BY <1>2, <1>3, <1>4, <1>5 DEF ReportInv

(* A step of the pass on the containers leaves the requests, the journal    *)
(* and what was done as they are, and goes onward within the operation.     *)
Onward(q) ==
  /\ q.req = pass.req /\ q.preq = pass.preq /\ q.then = pass.then /\ q.pc # "idle"
  /\ WellPlaced(q) /\ StopsOnly(q)
  /\ q.pc = "combine" => pass.then = "combine"

\* Unless there is a request for it, no container is running afterwards that
\* was not before.
StartsAsked ==
  /\ mcp' = "running" => mcp = "running" \/ pass.req.action # "stop"
  /\ dev' = "running" => \/ dev = "running"
                         \/ pass.req.action # "stop" /\ pass.then = "resume"
                         \/ Governing(pass).action # "stop"

LEMMA OnwardKeeps ==
  ASSUME TypeOK, JournalInv, ReportInv, ~At("idle"), Onward(pass'), StoppedInv', StartsAsked,
         UNCHANGED <<gateway, journal, done>>
  PROVE  ReportInv'
<1>1. UNCHANGED <<control, personal, file, status, done>>
  BY DEF gateway, journal
<1>2. Governing(pass)' = Governing(pass)
  BY DEF Onward, Governing, WorkspaceLifecycleControl
<1>3. WellPlaced(pass)' /\ StopsOnly(pass)'
  BY DEF Onward, WellPlaced, StopsOnly, Governing, WorkspaceLifecycleControl
<1>4. NotedInv'
  BY <1>1, <1>2 DEF Onward, ReportInv, NotedInv, At
<1>5. RequestsInv'
  BY <1>1 DEF Onward, ReportInv, RequestsInv, At
<1>6. ASSUME control.action = "stop", file.rev = control.rev
      PROVE  pass.req = control
  BY <1>6, RevsAreNumbers DEF ReportInv, RequestsInv, JournalInv, At
<1>7. ASSUME control.action = "stop", personal.rev < control.rev,
             status.wrev = control.rev \/ file.wrev = control.rev
      PROVE  pass.req = control /\ Governing(pass) = control
  <2>1. pass.req.rev <= control.rev /\ pass.preq.rev <= personal.rev
    BY RevsAreNumbers DEF ReportInv, RequestsInv, JournalInv, At
  <2>2. pass.req = control
    BY <1>7, <2>1, RevsAreNumbers DEF ReportInv, RequestsInv, At
  <2> QED
    BY <1>7, <2>1, <2>2, RevsAreNumbers DEF Governing, WorkspaceLifecycleControl, LifecycleActions
<1>8. ASSUME control.action = "stop", file.rev = control.rev, mcp' = "running"
      PROVE  mcp = "running"
  BY <1>6, <1>8 DEF StartsAsked
<1>9. ASSUME control.action = "stop", personal.rev < control.rev, dev' = "running",
             status.wrev = control.rev \/ file.wrev = control.rev
      PROVE  dev = "running"
  BY <1>7, <1>9 DEF StartsAsked
<1>10. status.rev = file.rev
  BY DEF JournalInv
<1>11. StatusInv(status)'
  BY <1>1, <1>8, <1>9, <1>10 DEF ReportInv, StatusInv, Told
<1>12. StatusInv(file)'
  BY <1>1, <1>8, <1>9 DEF ReportInv, StatusInv, Told
<1> QED
  BY <1>3, <1>4, <1>5, <1>11, <1>12 DEF ReportInv

(* Where a throw, the return of sync and a next place lead.                 *)
LEMMA ThrownOnward ==
  ASSUME TypeOK, ReportInv
  PROVE  Onward(Thrown) /\ (Thrown.pc \in {"finish", "devdone"} => Thrown.bad)
<1>1. /\ Thrown.req = pass.req /\ Thrown.preq = pass.preq /\ Thrown.then = pass.then
      /\ Thrown.resume => pass.resume
      /\ Thrown.pc \in {"finish", "devdone"} => Thrown.bad
      /\ \/ Thrown.pc = "finish" /\ pass.then \in {"finish", "resume"}
         \/ Thrown.pc = "devdone" /\ pass.then = "devdone"
         \/ Thrown.pc = "combine" /\ pass.then = "combine"
         \/ Thrown.pc = "dev" /\ pass.then = "none"
  BY DEF TypeOK, Passes, Thrown
<1>2. WellPlaced(Thrown)
  BY <1>1 DEF WellPlaced, RunnerPlaces, DevPlaces
<1>3. StopsOnly(Thrown)
  BY <1>1 DEF ReportInv, StopsOnly, RunnerPlaces, DevPlaces
<1> QED
  BY <1>1, <1>2, <1>3 DEF Onward

LEMMA SyncedOnward ==
  ASSUME TypeOK, ReportInv, pass.pc \in DevPlaces
  PROVE  Onward(Synced)
<1>1. /\ Synced.req = pass.req /\ Synced.preq = pass.preq /\ Synced.then = pass.then
      /\ Synced.resume => pass.resume
      /\ \/ Synced.pc = "finish" /\ pass.then = "resume"
         \/ Synced.pc = "devstart" /\ pass.then = "devdone"
         \/ Synced.pc = "combine" /\ pass.then = "combine"
  BY DEF ReportInv, WellPlaced, TypeOK, Passes, Synced
<1>2. WellPlaced(Synced)
  BY <1>1 DEF WellPlaced, RunnerPlaces, DevPlaces
<1>3. Governing(Synced) = Governing(pass)
  BY <1>1 DEF Governing, WorkspaceLifecycleControl
<1>4. StopsOnly(Synced)
  BY <1>1, <1>3 DEF ReportInv, StopsOnly, RunnerPlaces, DevPlaces
<1> QED
  BY <1>1, <1>2, <1>4 DEF Onward

\* The next place is pc; up, swap and the like do not matter here.
GoesTo(pc) ==
  /\ pass'.pc = pc /\ pass'.req = pass.req /\ pass'.preq = pass.preq
  /\ pass'.then = pass.then /\ pass'.resume = pass.resume

LEMMA GoesOnward ==
  ASSUME TypeOK, ReportInv, NEW pc, GoesTo(pc),
         \/ /\ pass.then = "finish" /\ pc \in RunnerPlaces \cup {"make", "boot"}
            /\ pass.req.action # "stop"
         \/ pass.then \in {"finish", "resume"} /\ pc = "finish"
         \/ pass.then = "finish" /\ pc = "mcp"
         \/ pass.then = "none" /\ pc \in {"make", "boot"} /\ pass.req.action # "stop"
         \/ pass.then = "none" /\ pc = "dev"
         \/ pass.pc \in DevPlaces /\ pc \in DevPlaces
         \/ pass.then = "devdone" /\ pc = "devdone"
         \/ pass.then = "devdone" /\ pc \in DevPlaces /\ Governing(pass).action # "stop"
  PROVE  Onward(pass')
<1>1. WellPlaced(pass')
  BY DEF GoesTo, ReportInv, WellPlaced, RunnerPlaces, DevPlaces
<1>2. Governing(pass') = Governing(pass)
  BY DEF GoesTo, Governing, WorkspaceLifecycleControl
<1>3. StopsOnly(pass')
  BY <1>2 DEF GoesTo, ReportInv, StopsOnly, RunnerPlaces, DevPlaces
<1> QED
  BY <1>1, <1>3 DEF Onward, GoesTo, RunnerPlaces, DevPlaces

LEMMA GotoGoes ==
  ASSUME TypeOK, NEW pc, pass' = [pass EXCEPT !.pc = pc]
  PROVE  GoesTo(pc)
BY DEF TypeOK, Passes, GoesTo

(* A pass whose request of the administrator is no stop, on its way through *)
(* the operation on the MCP container, and any pass on its way through sync. *)
LEMMA NoStopKeeps ==
  ASSUME TypeOK, JournalInv, ReportInv, ~At("idle"), Onward(pass'),
         pass.req.action # "stop", pass.then # "devdone",
         dev' = "running" => dev = "running",
         UNCHANGED <<gateway, journal, done>>
  PROVE  ReportInv'
<1>1. StartsAsked
  BY DEF StartsAsked
<1>2. StoppedInv'
  BY DEF StoppedInv, Onward, WellPlaced, At
<1> QED
  BY <1>1, <1>2, OnwardKeeps

LEMMA SyncKeeps ==
  ASSUME TypeOK, JournalInv, ReportInv, pass.pc \in DevPlaces \cup {"devstart"},
         Onward(pass'), mcp' = mcp, UNCHANGED <<gateway, journal, done>>
  PROVE  ReportInv'
<1>1. /\ pass.then \in {"resume", "devdone", "combine"}
      /\ pass.then = "resume" => pass.req.action # "stop"
      /\ pass.then # "resume" => Governing(pass).action # "stop"
  BY DEF ReportInv, WellPlaced, StopsOnly, DevPlaces
<1>2. StartsAsked
  BY <1>1 DEF StartsAsked
<1>3. Governing(pass)' = Governing(pass)
  BY DEF Onward, Governing, WorkspaceLifecycleControl
<1>4. StoppedInv'
  BY <1>1, <1>3 DEF StoppedInv, Onward, WellPlaced, At
<1>5. ~At("idle")
  BY DEF At, DevPlaces
<1> QED
  BY <1>2, <1>4, <1>5, OnwardKeeps

(* The operation on the MCP container.                                      *)
LEMMA HoldKeeps ==
  ASSUME TypeOK, JournalInv, ReportInv, Hold
  PROVE  ReportInv'
<1>1. /\ pass.pc = "hold" /\ pass.then = "finish" /\ ~At("idle")
      /\ UNCHANGED <<gateway, journal, mcp, done>>
  BY DEF Hold, At, ReportInv, WellPlaced
<1>2. CASE Goto("mcp") /\ UNCHANGED <<dev, fails, calm>>
  <2>1. GoesTo("mcp") /\ Onward(pass')
    BY <1>1, <1>2, GotoGoes, GoesOnward DEF Goto
  <2>2. StartsAsked /\ StoppedInv'
    BY <1>1, <1>2, <2>1 DEF StartsAsked, StoppedInv, GoesTo, At
  <2> QED
    BY <1>1, <2>1, <2>2, OnwardKeeps
<1>3. CASE pass.req.action \in {"create", "apply", "workspace"} /\ dev = "running"
  <2>1. CASE pass' = [pass EXCEPT !.pc = "mcp", !.resume = TRUE]
    <3>1. /\ pass'.req = pass.req /\ pass'.preq = pass.preq /\ pass'.then = pass.then
          /\ pass'.pc = "mcp"
      BY <2>1 DEF TypeOK, Passes
    <3>2. WellPlaced(pass')
      BY <1>1, <3>1 DEF WellPlaced, RunnerPlaces, DevPlaces
    <3>3. StopsOnly(pass')
      BY <1>3, <3>1 DEF StopsOnly, DevPlaces
    <3>4. Onward(pass')
      BY <3>1, <3>2, <3>3 DEF Onward
    <3> QED
      BY <1>1, <1>3, <3>4, NoStopKeeps
  <2>2. CASE pass' = Thrown
    BY <1>1, <1>3, <2>2, ThrownOnward, NoStopKeeps
  <2>3. CASE Goto("mcp") /\ UNCHANGED <<dev, fails, calm>>
    BY <1>2, <2>3
  <2> QED
    BY <2>1, <2>2, <2>3 DEF Hold
<1> QED
  BY <1>2, <1>3 DEF Hold

LEMMA DispatchedFrom ==
  ASSUME TypeOK, ReportInv, Dispatch
  PROVE  /\ pass.pc = "mcp" /\ pass.then = "finish" /\ ~At("idle")
         /\ UNCHANGED <<gateway, journal, dev, done>>
BY DEF Dispatch, At, ReportInv, WellPlaced

LEMMA ApplyCommandKeeps ==
  ASSUME TypeOK, JournalInv, ReportInv, ApplyCommand
  PROVE  ReportInv'
<1>1. /\ pass.pc = "mcp" /\ pass.then = "finish" /\ ~At("idle")
      /\ UNCHANGED <<gateway, journal, dev, done>>
  BY DispatchedFrom DEF ApplyCommand
<1>2. PICK ok \in Outcomes :
        /\ mcp' \in Becomes(ok, mcp, IF pass.req.action = "stop"
                                     THEN Stopped(mcp) ELSE "running")
        /\ pass' = IF ok THEN [pass EXCEPT !.pc = "finish"] ELSE Thrown
  BY DEF ApplyCommand
<1>3. ok => GoesTo("finish") /\ Onward(pass')
  BY <1>1, <1>2, GotoGoes, GoesOnward
<1>4. ~ok => Onward(pass') /\ (pass'.pc = "finish" => pass'.bad) /\ pass'.pc # "devdone"
  <2>1. Thrown.pc # "devdone"
    BY <1>1 DEF Thrown, TypeOK, Passes
  <2> QED
    BY <1>2, <2>1, ThrownOnward
<1>5. CASE pass.req.action # "stop"
  BY <1>1, <1>3, <1>4, <1>5, NoStopKeeps
<1>6. CASE pass.req.action = "stop"
  <2>1. mcp' \in {mcp, Stopped(mcp)} /\ (ok => mcp' = Stopped(mcp))
    BY <1>2, <1>6 DEF Becomes
  <2>2. StartsAsked
    BY <1>1, <2>1 DEF StartsAsked, Stopped
  <2>3. StoppedInv'
    BY <1>3, <1>4, <2>1 DEF StoppedInv, GoesTo, Stopped, At
  <2> QED
    BY <1>1, <1>3, <1>4, <2>2, <2>3, OnwardKeeps
<1> QED
  BY <1>5, <1>6

LEMMA ApplyNothingKeeps ==
  ASSUME TypeOK, JournalInv, ReportInv, ApplyNothing
  PROVE  ReportInv'
<1>1. /\ pass.pc = "mcp" /\ pass.then = "finish" /\ ~At("idle")
      /\ UNCHANGED <<gateway, journal, dev, done, mcp>>
  BY DispatchedFrom DEF ApplyNothing
<1>2. CASE pass' = Thrown /\ pass.req.action # "stop"
  BY <1>1, <1>2, ThrownOnward, NoStopKeeps
<1>3. CASE Goto("make") /\ pass.req.action # "stop"
  <2>1. Onward(pass')
    BY <1>1, <1>3, GotoGoes, GoesOnward DEF Goto
  <2> QED
    BY <1>1, <1>3, <2>1, NoStopKeeps
<1>4. CASE Goto("finish") /\ (pass.req.action = "stop" => mcp = "absent")
  <2>1. GoesTo("finish") /\ Onward(pass')
    BY <1>1, <1>4, GotoGoes, GoesOnward DEF Goto
  <2>2. StartsAsked /\ StoppedInv'
    BY <1>1, <1>4, <2>1 DEF StartsAsked, StoppedInv, GoesTo, At
  <2> QED
    BY <1>1, <2>1, <2>2, OnwardKeeps
<1> QED
  BY <1>2, <1>3, <1>4 DEF ApplyNothing

LEMMA ApplyInPlaceKeeps ==
  ASSUME TypeOK, JournalInv, ReportInv, ApplyInPlace
  PROVE  ReportInv'
<1>1. /\ pass.pc = "mcp" /\ pass.then = "finish" /\ ~At("idle")
      /\ UNCHANGED <<gateway, journal, dev, done>> /\ pass.req.action # "stop"
  BY DispatchedFrom DEF ApplyInPlace
<1>2. \/ pass' = [pass EXCEPT !.pc = "again"]
      \/ pass' = [pass EXCEPT !.pc = "finish"]
      \/ pass' = Thrown
  BY DEF ApplyInPlace
<1>3. Onward(pass')
  BY <1>1, <1>2, GotoGoes, GoesOnward, ThrownOnward DEF RunnerPlaces
<1> QED
  BY <1>1, <1>3, NoStopKeeps

LEMMA ApplyReplaceKeeps ==
  ASSUME TypeOK, JournalInv, ReportInv, ApplyReplace
  PROVE  ReportInv'
<1>1. /\ pass.pc = "mcp" /\ pass.then = "finish" /\ ~At("idle")
      /\ UNCHANGED <<gateway, journal, dev, done>> /\ pass.req.action # "stop"
  BY DispatchedFrom DEF ApplyReplace
<1>2. PICK ok \in Outcomes :
        pass' = [(IF ok THEN [pass EXCEPT !.pc = "rename"]
                  ELSE IF pass.req.action = "workspace"
                  THEN [pass EXCEPT !.pc = "revive"] ELSE Thrown)
                 EXCEPT !.up = (mcp = "running")]
  BY DEF ApplyReplace
<1>3. CASE ok \/ pass.req.action = "workspace"
  <2>1. PICK pc \in {"rename", "revive"} :
          pass' = [[pass EXCEPT !.pc = pc] EXCEPT !.up = (mcp = "running")]
    BY <1>2, <1>3
  <2>2. GoesTo(pc)
    BY <2>1 DEF GoesTo, TypeOK, Passes
  <2>3. Onward(pass')
    BY <1>1, <2>2, GoesOnward DEF RunnerPlaces
  <2> QED
    BY <1>1, <2>3, NoStopKeeps
<1>4. CASE ~ok /\ pass.req.action # "workspace"
  <2>1. pass' = [Thrown EXCEPT !.up = (mcp = "running")]
    BY <1>2, <1>4
  <2>2. Thrown.pc = "finish" /\ Thrown.resume = pass.resume
    BY <1>1 DEF Thrown, TypeOK, Passes
  <2>3. GoesTo("finish")
    BY <2>1, <2>2, ThrownTo, ThrownOnward DEF GoesTo, Onward, Passes
  <2>4. Onward(pass')
    BY <1>1, <2>3, GoesOnward
  <2> QED
    BY <1>1, <2>4, NoStopKeeps
<1> QED
  BY <1>3, <1>4

(* The steps of a replacement.                                              *)
Replacing == Rename \/ Provision \/ Start \/ Rollback \/ Restore \/ Revive \/ Drop

LEMMA ReplacingFrom ==
  ASSUME TypeOK, ReportInv, Replacing
  PROVE  /\ pass.pc \in RunnerPlaces /\ pass.then = "finish" /\ pass.req.action # "stop"
         /\ ~At("idle") /\ UNCHANGED <<gateway, journal, dev, done>>
         /\ pass' = Thrown \/ \E pc \in RunnerPlaces \cup {"finish"} :
                                 pass' = [pass EXCEPT !.pc = pc]
<1>1. pass.pc \in RunnerPlaces
  BY DEF Replacing, Rename, Provision, Start, Rollback, Restore, Revive, Drop, At, RunnerPlaces
<1>2. pass.then = "finish" /\ pass.req.action # "stop" /\ ~At("idle")
  BY <1>1 DEF ReportInv, WellPlaced, StopsOnly, At, RunnerPlaces
<1>3. UNCHANGED <<gateway, journal, dev, done>>
  BY DEF Replacing, Rename, Provision, Start, Rollback, Restore, Revive, Drop, docker, history
<1>4. pass' = Thrown \/ \E pc \in RunnerPlaces \cup {"finish"} : pass' = [pass EXCEPT !.pc = pc]
  BY DEF Replacing, Rename, Provision, Start, Rollback, Restore, Revive, Drop, Goto, RunnerPlaces
<1> QED
  BY <1>1, <1>2, <1>3, <1>4

LEMMA ReplacingKeeps ==
  ASSUME TypeOK, JournalInv, ReportInv, Replacing
  PROVE  ReportInv'
<1>1. /\ pass.pc \in RunnerPlaces /\ pass.then = "finish" /\ pass.req.action # "stop"
      /\ ~At("idle") /\ UNCHANGED <<gateway, journal, dev, done>>
  BY ReplacingFrom
<1>2. CASE pass' = Thrown
  BY <1>1, <1>2, ThrownOnward, NoStopKeeps
<1>3. ASSUME NEW pc \in RunnerPlaces \cup {"finish"}, pass' = [pass EXCEPT !.pc = pc]
      PROVE  ReportInv'
  <2>1. GoesTo(pc)
    BY <1>3, GotoGoes
  <2>2. Onward(pass')
    BY <1>1, <1>3, <2>1, GoesOnward
  <2> QED
    BY <1>1, <2>2, NoStopKeeps
<1> QED
  BY <1>2, <1>3, ReplacingFrom

LEMMA CreatingKeeps ==
  ASSUME TypeOK, JournalInv, ReportInv, Make \/ Boot
  PROVE  ReportInv'
<1>1. pass.pc \in {"make", "boot"} /\ UNCHANGED <<gateway, journal, dev, done>>
  BY DEF Make, Boot, At
<1>2. pass.then \in {"finish", "none"} /\ pass.req.action # "stop" /\ ~At("idle")
  BY <1>1 DEF ReportInv, WellPlaced, StopsOnly, At
<1>3. \/ pass' = Thrown
      \/ pass' = [pass EXCEPT !.pc = "boot"]
      \/ pass.then = "finish" /\ pass' = [pass EXCEPT !.pc = "finish"]
      \/ pass.then = "none" /\ pass' = [pass EXCEPT !.pc = "dev"]
  BY <1>2 DEF Make, Boot
<1>4. Onward(pass')
  BY <1>2, <1>3, GotoGoes, GoesOnward, ThrownOnward
<1> QED
  BY <1>1, <1>2, <1>4, NoStopKeeps

LEMMA TidyKeeps ==
  ASSUME TypeOK, JournalInv, ReportInv, Tidy
  PROVE  ReportInv'
<1>1. /\ pass.pc = "tidy" /\ pass.then = "none" /\ ~At("idle")
      /\ UNCHANGED <<gateway, journal, dev, done>> /\ mcp' \in {mcp, "exited"}
  BY DEF Tidy, At, ReportInv, WellPlaced, Becomes
<1>2. \/ pass' = [pass EXCEPT !.pc = "dev"]
      \/ pass' = [pass EXCEPT !.pc = "make"] /\ pass.req.action # "stop"
  BY DEF Tidy, Goto, MayCreate
<1>3. Onward(pass') /\ pass'.pc \in {"dev", "make"}
  BY <1>1, <1>2, GotoGoes, GoesOnward DEF GoesTo
<1>4. StartsAsked /\ StoppedInv'
  BY <1>1, <1>3 DEF StartsAsked, StoppedInv, At
<1> QED
  BY <1>1, <1>3, <1>4, OnwardKeeps

(* The operation on the development container.                              *)
LEMMA DevApplyKeeps ==
  ASSUME TypeOK, JournalInv, ReportInv, DevApply
  PROVE  ReportInv'
<1>1. /\ pass.pc = "devapply" /\ pass.then = "devdone" /\ ~At("idle")
      /\ UNCHANGED <<gateway, journal, mcp, done>>
  BY DEF DevApply, At, ReportInv, WellPlaced
<1>2. WorkspaceRequest = Governing(pass)
  BY DEF WorkspaceRequest, Governing
<1>3. CASE pass' = Thrown /\ dev' # "running"
  <2>1. StartsAsked /\ StoppedInv'
    BY <1>1, <1>3, ThrownOnward DEF StartsAsked, StoppedInv, At
  <2> QED
    BY <1>1, <1>3, <2>1, ThrownOnward, OnwardKeeps
<1>4. CASE pass' = Thrown /\ dev' = dev
  <2>1. StartsAsked /\ StoppedInv'
    BY <1>1, <1>4, ThrownOnward DEF StartsAsked, StoppedInv, At
  <2> QED
    BY <1>1, <1>4, <2>1, ThrownOnward, OnwardKeeps
<1>5. CASE pass' = [pass EXCEPT !.pc = "devdone"] /\ dev' # "running"
  <2>1. GoesTo("devdone") /\ Onward(pass')
    BY <1>1, <1>5, GotoGoes, GoesOnward
  <2>2. StartsAsked /\ StoppedInv'
    BY <1>1, <1>5, <2>1 DEF StartsAsked, StoppedInv, At, GoesTo
  <2> QED
    BY <1>1, <2>1, <2>2, OnwardKeeps
<1>6. CASE pass' = [pass EXCEPT !.pc = "sync"] /\ WorkspaceRequest.action # "stop" /\ dev' = dev
  <2>1. GoesTo("sync") /\ Onward(pass')
    BY <1>1, <1>2, <1>6, GotoGoes, GoesOnward DEF DevPlaces
  <2>2. StartsAsked /\ StoppedInv'
    BY <1>1, <1>6, <2>1 DEF StartsAsked, StoppedInv, At, GoesTo
  <2> QED
    BY <1>1, <2>1, <2>2, OnwardKeeps
<1> QED
  BY <1>3, <1>4, <1>5, <1>6 DEF DevApply, Becomes, Stopped

Syncing == Sync \/ DevRename \/ DevMake \/ DevBoot \/ DevBack \/ DevDrop

LEMMA SyncingFrom ==
  ASSUME Syncing
  PROVE  /\ pass.pc \in DevPlaces /\ UNCHANGED <<gateway, journal, mcp, done>>
         /\ \/ pass' = Thrown \/ pass' = Synced
            \/ \E pc \in DevPlaces : pass' = [pass EXCEPT !.pc = pc]
            \/ \E pc \in DevPlaces, swap \in BOOLEAN, up \in BOOLEAN :
                  pass' = [pass EXCEPT !.pc = pc, !.swap = swap, !.up = up]
<1>1. pass.pc \in DevPlaces /\ UNCHANGED <<gateway, journal, mcp, done>>
  BY DEF Syncing, Sync, DevRename, DevMake, DevBoot, DevBack, DevDrop, At, DevPlaces, docker,
         history
<1> DEFINE Led == \/ pass' = Thrown \/ pass' = Synced
                  \/ \E pc \in DevPlaces : pass' = [pass EXCEPT !.pc = pc]
                  \/ \E pc \in DevPlaces, swap \in BOOLEAN, up \in BOOLEAN :
                        pass' = [pass EXCEPT !.pc = pc, !.swap = swap, !.up = up]
<1> HIDE DEF Led
<1>2. ASSUME Sync PROVE Led
  <2>1. ASSUME NEW pc \in DevPlaces, NEW swap \in BOOLEAN, NEW up \in BOOLEAN,
               pass' = [pass EXCEPT !.pc = pc, !.swap = swap, !.up = up]
        PROVE  Led
    BY <2>1 DEF Led
  <2>2. {"devmake", "devrename"} \subseteq DevPlaces
    BY DEF DevPlaces
  <2>3. ASSUME pass' = [pass EXCEPT !.pc = "devmake", !.swap = FALSE,
                         !.up = Resuming \/ (AutoStart /\ mcp = "running")]
        PROVE  Led
    <3> DEFINE up == Resuming \/ (AutoStart /\ mcp = "running")
    <3>1. up \in BOOLEAN
      OBVIOUS
    <3>2. pass' = [pass EXCEPT !.pc = "devmake", !.swap = FALSE, !.up = up]
      BY <2>3
    <3> HIDE DEF up
    <3> QED
      BY <2>1, <2>2, <3>1, <3>2
  <2>4. ASSUME pass' = [pass EXCEPT !.pc = "devrename", !.swap = TRUE,
                         !.up = (dev = "running") \/ Resuming]
        PROVE  Led
    <3> DEFINE up == (dev = "running") \/ Resuming
    <3>1. up \in BOOLEAN
      OBVIOUS
    <3>2. pass' = [pass EXCEPT !.pc = "devrename", !.swap = TRUE, !.up = up]
      BY <2>4
    <3> HIDE DEF up
    <3> QED
      BY <2>1, <2>2, <3>1, <3>2
  <2> QED
    BY <1>2, <2>3, <2>4 DEF Sync, Led
<1>3. ASSUME DevRename \/ DevMake \/ DevBoot \/ DevBack \/ DevDrop
      PROVE  Led
  <2>1. {"devmake", "devboot", "devback", "devdrop"} \subseteq DevPlaces
    BY DEF DevPlaces
  <2> QED
    BY <1>3, <2>1 DEF DevRename, DevMake, DevBoot, DevBack, DevDrop, Led
<1> QED
  BY <1>1, <1>2, <1>3 DEF Syncing, Led

LEMMA SyncingKeeps ==
  ASSUME TypeOK, JournalInv, ReportInv, Syncing
  PROVE  ReportInv'
<1>1. pass.pc \in DevPlaces /\ UNCHANGED <<gateway, journal, mcp, done>>
  BY SyncingFrom
<1>2. CASE pass' = Thrown \/ pass' = Synced
  BY <1>1, <1>2, ThrownOnward, SyncedOnward, SyncKeeps
<1>3. ASSUME NEW pc \in DevPlaces, GoesTo(pc)
      PROVE  ReportInv'
  BY <1>1, <1>3, GoesOnward, SyncKeeps
<1>4. ASSUME NEW pc \in DevPlaces, NEW swap \in BOOLEAN, NEW up \in BOOLEAN,
             pass' = [pass EXCEPT !.pc = pc, !.swap = swap, !.up = up]
      PROVE  GoesTo(pc)
  BY <1>4 DEF TypeOK, Passes, GoesTo
<1> QED
  BY <1>2, <1>3, <1>4, GotoGoes, SyncingFrom

LEMMA DevStartKeeps ==
  ASSUME TypeOK, JournalInv, ReportInv, DevStart
  PROVE  ReportInv'
<1>1. /\ pass.pc = "devstart" /\ pass.then = "devdone"
      /\ UNCHANGED <<gateway, journal, mcp, done>>
      /\ pass' = Thrown \/ pass' = [pass EXCEPT !.pc = "devdone"]
  BY DEF DevStart, At, ReportInv, WellPlaced
<1>2. Onward(pass')
  BY <1>1, GotoGoes, GoesOnward, ThrownOnward
<1> QED
  BY <1>1, <1>2, SyncKeeps

(* A new request is later than every request before it.                     *)
LEMMA RequestKeeps ==
  ASSUME TypeOK, JournalInv, ReportInv,
         \/ \E action \in AdminActions : AdminRequest(action)
         \/ \E action \in LifecycleActions : PersonalRequest(action)
  PROVE  ReportInv'
<1> DEFINE n == NextRev
<1>1. n \in Nat /\ n > control.rev /\ n > personal.rev /\ n # 0
  BY RevsAreNumbers DEF NextRev
<1>2. UNCHANGED <<journal, pass, mcp, dev, done>> /\ UNCHANGED <<file, status>>
  BY DEF AdminRequest, PersonalRequest, journal, docker, history
<1>3. \/ control'.rev = n /\ personal' = personal
      \/ personal'.rev = n /\ control' = control
  BY DEF AdminRequest, PersonalRequest
<1> HIDE DEF n
<1>4. /\ ~At("idle") => /\ pass.req.rev <= control.rev /\ pass.preq.rev <= personal.rev
      /\ status.rev = file.rev /\ file.rev <= control.rev
      /\ status.wrev <= control.rev \/ status.wrev <= personal.rev
      /\ file.wrev <= control.rev \/ file.wrev <= personal.rev
  <2>1. ~At("idle") => pass.req.rev <= control.rev /\ pass.preq.rev <= personal.rev
    BY RevsAreNumbers DEF ReportInv, RequestsInv, JournalInv
  <2> QED
    BY <2>1, RevsAreNumbers DEF ReportInv, RequestsInv, JournalInv
<1>5. WellPlaced(pass)' /\ StopsOnly(pass)' /\ NotedInv' /\ StoppedInv'
  BY <1>2 DEF ReportInv, WellPlaced, StopsOnly, NotedInv, StoppedInv, Governing, At,
              WorkspaceLifecycleControl
<1>6. RequestsInv'
  <2>1. control'.rev # personal'.rev
    BY <1>1, <1>3, RevsAreNumbers
  <2>2. ~At("idle") =>
          \/ pass.req = control' /\ control' = control
          \/ pass.req.rev < control'.rev /\ pass.preq.rev < control'.rev
    BY <1>1, <1>3, <1>4, RevsAreNumbers DEF ReportInv, RequestsInv
  <2>3. ~At("idle") =>
          \/ pass.preq = personal' /\ personal' = personal
          \/ pass.req.rev < personal'.rev /\ pass.preq.rev < personal'.rev
    BY <1>1, <1>3, <1>4, RevsAreNumbers DEF ReportInv, RequestsInv
  <2>4. file.wrev <= control'.rev \/ file.wrev <= personal'.rev
    BY <1>1, <1>3, <1>4, RevsAreNumbers
  <2> QED
    BY <1>2, <2>1, <2>2, <2>3, <2>4 DEF ReportInv, RequestsInv, At
<1>7. ASSUME NEW s \in {status, file}
      PROVE  /\ s.rev = control'.rev => control' = control
             /\ s.wrev = control'.rev /\ personal'.rev < control'.rev =>
                  control' = control /\ personal' = personal
             /\ personal'.rev < control'.rev /\ s.rev = control'.rev => personal' = personal
  BY <1>1, <1>3, <1>4, RevsAreNumbers
<1>8. StatusInv(status)'
  BY <1>2, <1>7 DEF ReportInv, StatusInv, Told
<1>9. StatusInv(file)'
  BY <1>2, <1>7 DEF ReportInv, StatusInv, Told
<1> QED
  BY <1>5, <1>6, <1>8, <1>9 DEF ReportInv

(* The beginning of a pass, a crash and the account.                        *)
LEMMA NoPassPlaced ==
  ASSUME NEW p, p.then = "none", p.pc \in {"idle", "user"}, ~p.resume
  PROVE  WellPlaced(p) /\ StopsOnly(p)
BY DEF WellPlaced, StopsOnly, RunnerPlaces, DevPlaces

LEMMA RestartKeeps ==
  ASSUME TypeOK, JournalInv, ReportInv, PassBegin \/ Crash
  PROVE  ReportInv'
<1>1. /\ status' = file /\ UNCHANGED <<control, personal, file, mcp, dev, done>>
      /\ pass'.then = "none" /\ ~pass'.resume
      /\ \/ pass'.pc = "user" /\ At("idle") /\ pass'.req = control /\ pass'.preq = personal
         \/ pass'.pc = "idle" /\ ~At("idle")
  <2>1. CASE PassBegin
    <3>1. pass' = [NoPass EXCEPT !.pc = "user", !.req = control, !.preq = personal]
      BY <2>1 DEF PassBegin
    <3>2. /\ pass'.then = "none" /\ ~pass'.resume
          /\ pass'.pc = "user" /\ pass'.req = control /\ pass'.preq = personal
      BY <3>1 DEF NoPass
    <3> QED
      BY <2>1, <3>2 DEF PassBegin, gateway, docker
  <2>2. CASE Crash
    <3>1. pass'.then = "none" /\ ~pass'.resume /\ pass'.pc = "idle"
      BY <2>2 DEF Crash, NoPass
    <3> QED
      BY <2>2, <3>1 DEF Crash, gateway, docker
  <2> QED
    BY <2>1, <2>2
<1>2. WellPlaced(pass)' /\ StopsOnly(pass)'
  <2>1. WellPlaced(pass') /\ StopsOnly(pass')
    BY <1>1, NoPassPlaced
  <2> QED
    BY <2>1 DEF WellPlaced, StopsOnly, Governing, WorkspaceLifecycleControl
<1>3. NotedInv' /\ StoppedInv'
  BY <1>1 DEF NotedInv, StoppedInv, At
<1>4. file.wrev <= control.rev \/ file.wrev <= personal.rev
  <2>1. ~At("idle") => pass.req.rev <= control.rev /\ pass.preq.rev <= personal.rev
    BY RevsAreNumbers DEF ReportInv, RequestsInv, JournalInv
  <2> QED
    BY <2>1, RevsAreNumbers DEF ReportInv, RequestsInv
<1>5. RequestsInv'
  BY <1>1, <1>4 DEF ReportInv, RequestsInv, At
<1>6. StatusInv(status)' /\ StatusInv(file)'
  BY <1>1 DEF ReportInv, StatusInv, Told
<1> QED
  BY <1>2, <1>3, <1>5, <1>6 DEF ReportInv

LEMMA NothingKeeps ==
  ASSUME ReportInv, SetStatus \/ UNCHANGED vars
  PROVE  ReportInv'
<1>1. UNCHANGED <<control, personal, file, status, pass, mcp, dev, done>>
  BY DEF SetStatus, vars, gateway, journal, docker, history
<1>2. WellPlaced(pass)' /\ StopsOnly(pass)' /\ NotedInv' /\ StoppedInv' /\ RequestsInv'
  BY <1>1 DEF ReportInv, WellPlaced, StopsOnly, NotedInv, StoppedInv, RequestsInv,
              Governing, At, WorkspaceLifecycleControl
<1>3. StatusInv(status)' /\ StatusInv(file)'
  BY <1>1 DEF ReportInv, StatusInv, Told
<1> QED
  BY <1>2, <1>3 DEF ReportInv

(* The last request governs the development container in a pass that finds  *)
(* it journalled.                                                           *)
LEMMA GovernedByLast ==
  ASSUME TypeOK, JournalInv, ReportInv, ~At("idle"),
         control.action \in LifecycleActions, personal.rev < control.rev,
         status.rev = control.rev \/ status.wrev = control.rev
  PROVE  pass.req = control /\ Governing(pass) = control
<1>1. pass.req.rev <= control.rev /\ pass.preq.rev <= personal.rev
  BY RevsAreNumbers DEF ReportInv, RequestsInv, JournalInv
<1>2. pass.req = control
  BY <1>1, RevsAreNumbers DEF ReportInv, RequestsInv, JournalInv
<1> QED
  BY <1>1, <1>2, RevsAreNumbers DEF Governing, WorkspaceLifecycleControl

LEMMA GoverningRev ==
  ASSUME TypeOK
  PROVE  Governing(pass) \in {pass.req, pass.preq}
BY DEF Governing, WorkspaceLifecycleControl

(* The beginning of the runner's half.                                      *)
LEMMA UserBeginKeeps ==
  ASSUME TypeOK, JournalInv, ReportInv, UserBegin
  PROVE  ReportInv'
<1>1. /\ pass.pc = "user" /\ pass.then = "none" /\ ~At("idle")
      /\ UNCHANGED <<gateway, mcp, dev, done>> /\ UNCHANGED <<control, personal>>
  BY DEF UserBegin, At, ReportInv, WellPlaced, docker, gateway
<1>2. CASE pass' = [pass EXCEPT !.pc = "dev", !.user = account] /\ UNCHANGED <<file, status>>
  <2>1. GoesTo("dev")
    BY <1>2 DEF TypeOK, Passes, GoesTo
  <2>2. Onward(pass')
    BY <1>1, <2>1, GoesOnward
  <2>3. StartsAsked /\ StoppedInv'
    BY <1>1, <2>1 DEF StartsAsked, StoppedInv, GoesTo, At
  <2> QED
    BY <1>1, <1>2, <2>2, <2>3, OnwardKeeps DEF journal
<1>3. CASE /\ Journaled([status EXCEPT !.rev = pass.req.rev, !.phase = "applying",
                                       !.runtime = "applying"])
           /\ pass' = [pass EXCEPT !.pc = "hold", !.user = account, !.then = "finish"]
  <2>1. /\ file' = status' /\ status'.rev = pass.req.rev /\ status'.phase = "applying"
        /\ status'.runtime = "applying" /\ status'.wrev = status.wrev
        /\ status'.wphase = status.wphase
    BY <1>3 DEF Journaled, TypeOK, Statuses
  <2>2. /\ pass'.pc = "hold" /\ pass'.then = "finish" /\ pass'.req = pass.req
        /\ pass'.preq = pass.preq /\ pass'.resume = pass.resume
    BY <1>3 DEF TypeOK, Passes
  <2>3. WellPlaced(pass)' /\ StopsOnly(pass)'
    BY <2>2 DEF ReportInv, WellPlaced, StopsOnly, RunnerPlaces, DevPlaces, Governing,
                WorkspaceLifecycleControl
  <2>4. NotedInv' /\ StoppedInv'
    BY <2>1, <2>2 DEF NotedInv, StoppedInv, At
  <2>5. RequestsInv'
    BY <1>1, <2>1, <2>2 DEF ReportInv, RequestsInv, At
  <2>6. StatusInv(status)' /\ StatusInv(file)'
    BY <1>1, <2>1 DEF ReportInv, StatusInv, Told
  <2> QED
    BY <2>3, <2>4, <2>5, <2>6 DEF ReportInv
<1>4. CASE /\ status' = IF pass.req # None /\ status.phase = "applying"
                        THEN [status EXCEPT !.phase = "failed"] ELSE status
           /\ pass' = [pass EXCEPT !.pc = "tidy", !.user = account]
           /\ UNCHANGED file
  <2>1. /\ file' = file /\ status'.rev = status.rev /\ status'.runtime = status.runtime
        /\ status'.wrev = status.wrev /\ status'.wphase = status.wphase
        /\ \/ status'.phase = status.phase
           \/ status.phase = "applying" /\ status'.phase = "failed"
    BY <1>4 DEF TypeOK, Statuses
  <2>2. /\ pass'.pc = "tidy" /\ pass'.then = "none" /\ pass'.req = pass.req
        /\ pass'.preq = pass.preq /\ pass'.resume = pass.resume
    BY <1>1, <1>4 DEF TypeOK, Passes
  <2>3. WellPlaced(pass)' /\ StopsOnly(pass)'
    BY <2>2 DEF ReportInv, WellPlaced, StopsOnly, RunnerPlaces, DevPlaces, Governing,
                WorkspaceLifecycleControl
  <2>4. NotedInv' /\ StoppedInv'
    BY <2>2 DEF NotedInv, StoppedInv, At
  <2>5. RequestsInv'
    BY <1>1, <2>1, <2>2 DEF ReportInv, RequestsInv, At
  <2>6. StatusInv(status)'
    BY <1>1, <2>1 DEF ReportInv, StatusInv, Told
  <2>7. StatusInv(file)'
    BY <1>1, <2>1 DEF ReportInv, StatusInv, Told
  <2> QED
    BY <2>3, <2>4, <2>5, <2>6, <2>7 DEF ReportInv
<1> QED
  BY <1>2, <1>3, <1>4 DEF UserBegin

(* The end of the operation on the MCP container.                           *)
LEMMA FinishKeeps ==
  ASSUME TypeOK, JournalInv, ReportInv, Finish
  PROVE  ReportInv'
<1>1. /\ pass.pc = "finish" /\ pass.then \in {"finish", "resume"} /\ ~At("idle")
      /\ UNCHANGED <<control, personal, file, mcp, dev>>
  BY DEF Finish, At, ReportInv, WellPlaced, docker, gateway
<1>2. status.rev = pass.req.rev /\ status.runtime # "applied"
  BY <1>1 DEF ReportInv, NotedInv
<1>3. CASE /\ pass.resume
           /\ pass' = [pass EXCEPT !.pc = "sync", !.then = "resume"]
           /\ UNCHANGED <<status, done>>
  <2>1. /\ pass'.pc = "sync" /\ pass'.then = "resume" /\ pass'.req = pass.req
        /\ pass'.preq = pass.preq
    BY <1>3 DEF TypeOK, Passes
  <2>2. pass.req.action # "stop"
    BY <1>3 DEF ReportInv, StopsOnly
  <2>3. WellPlaced(pass)' /\ StopsOnly(pass)'
    BY <2>1, <2>2 DEF WellPlaced, StopsOnly, RunnerPlaces, DevPlaces, Governing,
                      WorkspaceLifecycleControl
  <2>4. NotedInv' /\ StoppedInv'
    BY <1>2, <1>3, <2>1 DEF NotedInv, StoppedInv, At
  <2>5. RequestsInv'
    BY <1>1, <1>3, <2>1 DEF ReportInv, RequestsInv, At
  <2>6. StatusInv(status)' /\ StatusInv(file)'
    BY <1>1, <1>3 DEF ReportInv, StatusInv, Told
  <2> QED
    BY <2>3, <2>4, <2>5, <2>6 DEF ReportInv
<1>4. CASE /\ ~pass.resume
           /\ pass' = [pass EXCEPT !.pc = "tidy", !.then = "none", !.bad = FALSE]
           /\ status' = [status EXCEPT !.phase = IF pass.bad THEN "failed" ELSE "applied"]
           /\ done' = IF pass.bad THEN done
                      ELSE [done EXCEPT !["mcp"] = @ \cup {pass.req.rev}]
  <2>1. /\ pass'.pc = "tidy" /\ pass'.then = "none" /\ pass'.req = pass.req
        /\ pass'.preq = pass.preq /\ pass'.resume = pass.resume
    BY <1>4 DEF TypeOK, Passes
  <2>2. /\ status'.rev = status.rev /\ status'.runtime = status.runtime
        /\ status'.wrev = status.wrev /\ status'.wphase = status.wphase
        /\ status'.phase = IF pass.bad THEN "failed" ELSE "applied"
    BY <1>4 DEF TypeOK, Statuses
  <2>3. /\ done["mcp"] \subseteq done'["mcp"] /\ done'["dev"] = done["dev"]
        /\ ~pass.bad => pass.req.rev \in done'["mcp"]
    BY <1>4 DEF TypeOK
  <2>4. WellPlaced(pass)' /\ StopsOnly(pass)'
    BY <1>4, <2>1 DEF WellPlaced, StopsOnly, RunnerPlaces, DevPlaces, Governing,
                      WorkspaceLifecycleControl
  <2>5. NotedInv' /\ StoppedInv'
    BY <2>1 DEF NotedInv, StoppedInv, At
  <2>6. RequestsInv'
    BY <1>1, <2>1, <2>2 DEF ReportInv, RequestsInv, At
  <2>7. control.action = "stop" /\ status.rev = control.rev /\ ~pass.bad => mcp # "running"
    <3>1. status.rev = control.rev => pass.req = control
      BY <1>1, <1>2, RevsAreNumbers DEF ReportInv, RequestsInv
    <3> QED
      BY <1>1, <3>1 DEF ReportInv, StoppedInv, At
  <2>8. StatusInv(status)'
    BY <1>1, <1>2, <2>2, <2>3, <2>7 DEF ReportInv, StatusInv, Told
  <2>9. StatusInv(file)'
    BY <1>1, <2>3 DEF ReportInv, StatusInv, Told
  <2> QED
    BY <2>4, <2>5, <2>6, <2>8, <2>9 DEF ReportInv
<1> QED
  BY <1>3, <1>4 DEF Finish

(* The development container's half.                                        *)
LEMMA DevBeginKeeps ==
  ASSUME TypeOK, JournalInv, ReportInv, DevBegin
  PROVE  ReportInv'
<1> DEFINE g == Governing(pass)
<1>1. /\ pass.pc = "dev" /\ pass.then = "none" /\ ~At("idle")
      /\ UNCHANGED <<control, personal, mcp, done>>
      /\ dev' = "running" => dev = "running"
  BY DEF DevBegin, At, ReportInv, WellPlaced, gateway, Becomes, Stopped
<1>2. WorkspaceRequest = g /\ g \in {pass.req, pass.preq}
  BY GoverningRev DEF WorkspaceRequest, Governing
<1>3. g.rev <= pass.req.rev \/ g.rev <= pass.preq.rev
  BY <1>2, RevsAreNumbers
<1>4. Told(status) => status.wrev = g.rev /\ status.wphase = "applied"
  <2>1. Told(status) => status.rev = control.rev /\ personal.rev < control.rev
                        /\ control.action \in LifecycleActions
    BY DEF Told
  <2> QED
    BY <1>1, <2>1, GovernedByLast DEF ReportInv, StatusInv
<1> HIDE DEF g
<1>5. CASE /\ status.phase = "failed" /\ pass' = [pass EXCEPT !.pc = "combine"]
           /\ status' \in {status, [status EXCEPT !.wrev = g.rev, !.wphase = "failed"]}
           /\ UNCHANGED file
  <2>1. /\ pass'.pc = "combine" /\ pass'.then = "none" /\ pass'.req = pass.req
        /\ pass'.preq = pass.preq /\ pass'.resume = pass.resume
    BY <1>1, <1>5 DEF TypeOK, Passes
  <2>2. /\ status'.rev = status.rev /\ status'.runtime = status.runtime
        /\ status'.phase = "failed"
        /\ \/ status'.wrev = status.wrev /\ status'.wphase = status.wphase
           \/ status'.wrev = g.rev /\ status'.wphase = "failed"
    BY <1>5 DEF TypeOK, Statuses
  <2>3. WellPlaced(pass)' /\ StopsOnly(pass)'
    BY <2>1 DEF ReportInv, WellPlaced, StopsOnly, RunnerPlaces, DevPlaces, Governing,
                WorkspaceLifecycleControl
  <2>4. NotedInv' /\ StoppedInv'
    BY <2>1, <2>2 DEF NotedInv, StoppedInv, At
  <2>5. RequestsInv'
    BY <1>1, <1>3, <1>5, <2>1, <2>2 DEF ReportInv, RequestsInv, At
  <2>6. status.runtime # "applied"
    BY <1>5 DEF ReportInv, StatusInv
  <2>7. StatusInv(status)'
    BY <1>1, <2>2, <2>6 DEF ReportInv, StatusInv, Told
  <2>8. StatusInv(file)'
    BY <1>1, <1>5 DEF ReportInv, StatusInv, Told
  <2> QED
    BY <2>3, <2>4, <2>5, <2>7, <2>8 DEF ReportInv
<1>6. CASE /\ status.wrev # g.rev
           /\ Journaled([status EXCEPT !.wrev = g.rev, !.wphase = "applying"])
           /\ pass' = [pass EXCEPT !.pc = "devapply", !.user = account, !.then = "devdone"]
  <2>1. /\ pass'.pc = "devapply" /\ pass'.then = "devdone" /\ pass'.req = pass.req
        /\ pass'.preq = pass.preq /\ pass'.resume = pass.resume
    BY <1>6 DEF TypeOK, Passes
  <2>2. /\ file' = status' /\ status'.rev = status.rev /\ status'.runtime = status.runtime
        /\ status'.phase = status.phase /\ status'.wrev = g.rev
        /\ status'.wphase = "applying"
    BY <1>6 DEF Journaled, TypeOK, Statuses
  <2>3. WellPlaced(pass)' /\ StopsOnly(pass)'
    BY <2>1 DEF ReportInv, WellPlaced, StopsOnly, RunnerPlaces, DevPlaces, Governing,
                WorkspaceLifecycleControl
  <2>4. Governing(pass)' = g
    BY <2>1 DEF g, Governing, WorkspaceLifecycleControl
  <2>5. NotedInv' /\ StoppedInv'
    BY <2>1, <2>2, <2>4 DEF NotedInv, StoppedInv, At
  <2>6. RequestsInv'
    BY <1>1, <1>3, <2>1, <2>2 DEF ReportInv, RequestsInv, At
  <2>7. ~Told(status)
    BY <1>4, <1>6
  <2>8. StatusInv(status)' /\ StatusInv(file)'
    BY <1>1, <2>2, <2>7 DEF ReportInv, StatusInv, Told
  <2> QED
    BY <2>3, <2>5, <2>6, <2>8 DEF ReportInv
<1>7. CASE /\ g = None \/ status.wrev = g.rev
           /\ status' = IF status.wphase = "applying"
                        THEN [status EXCEPT !.wphase = "failed"] ELSE status
           /\ pass' = Settled /\ UNCHANGED file
  <2>1. /\ pass'.then = "combine" /\ pass'.req = pass.req /\ pass'.preq = pass.preq
        /\ pass'.resume = pass.resume /\ pass'.pc \in {"combine", "sync"}
        /\ g.action = "stop" => pass'.pc = "combine"
    BY <1>2, <1>7 DEF Settled, TypeOK, Passes
  <2>2. /\ status'.rev = status.rev /\ status'.runtime = status.runtime
        /\ status'.phase = status.phase /\ status'.wrev = status.wrev
        /\ \/ status'.wphase = status.wphase
           \/ status.wphase = "applying" /\ status'.wphase = "failed"
    BY <1>7 DEF TypeOK, Statuses
  <2>3. Governing(pass)' = g /\ Governing(pass') = g
    BY <2>1 DEF g, Governing, WorkspaceLifecycleControl
  <2>4. WellPlaced(pass)' /\ StopsOnly(pass)'
    BY <2>1, <2>3 DEF ReportInv, WellPlaced, StopsOnly, RunnerPlaces, DevPlaces
  <2>5. NotedInv' /\ StoppedInv'
    BY <1>7, <2>1, <2>2, <2>3 DEF NotedInv, StoppedInv, At
  <2>6. RequestsInv'
    BY <1>1, <1>7, <2>1, <2>2 DEF ReportInv, RequestsInv, At
  <2>7. StatusInv(status)'
    BY <1>1, <1>4, <2>2 DEF ReportInv, StatusInv, Told
  <2>8. StatusInv(file)'
    BY <1>1, <1>7 DEF ReportInv, StatusInv, Told
  <2> QED
    BY <2>4, <2>5, <2>6, <2>7, <2>8 DEF ReportInv
<1> QED
  BY <1>2, <1>5, <1>6, <1>7 DEF DevBegin

LEMMA DevDoneKeeps ==
  ASSUME TypeOK, JournalInv, ReportInv, DevDone
  PROVE  ReportInv'
<1> DEFINE g == Governing(pass)
<1>1. /\ pass.pc = "devdone" /\ pass.then = "devdone" /\ ~At("idle")
      /\ UNCHANGED <<control, personal, file, mcp, dev>>
  BY DEF DevDone, At, ReportInv, WellPlaced, docker, gateway
<1>2. /\ status.wphase = "applying"
      /\ status.phase = "failed" \/ g = None \/ status.wrev = g.rev
  BY <1>1 DEF ReportInv, NotedInv
<1>3. WorkspaceRequest = g
  BY DEF WorkspaceRequest, Governing
<1> HIDE DEF g
<1>4. /\ pass'.then = "combine" /\ pass'.req = pass.req /\ pass'.preq = pass.preq
      /\ pass'.resume = pass.resume /\ pass'.pc \in {"combine", "sync"}
      /\ g.action = "stop" => pass'.pc = "combine"
  <2>1. /\ Settled.then = "combine" /\ Settled.req = pass.req /\ Settled.preq = pass.preq
        /\ Settled.resume = pass.resume /\ Settled.pc \in {"combine", "sync"}
        /\ g.action = "stop" => Settled.pc = "combine"
    BY <1>3 DEF Settled, TypeOK, Passes
  <2>2. pass' = [Settled EXCEPT !.user = pass.user] /\ Settled \in Passes
    BY SettledTo DEF DevDone
  <2> QED
    BY <2>1, <2>2 DEF Passes
<1>5. /\ status'.rev = status.rev /\ status'.runtime = status.runtime
      /\ status'.phase = status.phase /\ status'.wrev = status.wrev
      /\ status'.wphase = IF pass.bad THEN "failed" ELSE "applied"
  BY DEF DevDone, TypeOK, Statuses
<1>6. /\ done["dev"] \subseteq done'["dev"] /\ done'["mcp"] = done["mcp"]
      /\ ~pass.bad => status.wrev \in done'["dev"]
  BY DEF DevDone, TypeOK
<1>7. Governing(pass)' = g /\ Governing(pass') = g
  BY <1>4 DEF g, Governing, WorkspaceLifecycleControl
<1>8. WellPlaced(pass)' /\ StopsOnly(pass)'
  <2>1. pass.req.action = "stop" => ~pass.resume
    BY DEF ReportInv, StopsOnly
  <2> QED
    BY <1>4, <1>7, <2>1 DEF WellPlaced, StopsOnly, RunnerPlaces, DevPlaces
<1>9. NotedInv' /\ StoppedInv'
  BY <1>2, <1>4, <1>5, <1>7 DEF NotedInv, StoppedInv, At
<1>10. RequestsInv'
  BY <1>1, <1>4, <1>5 DEF ReportInv, RequestsInv, At
<1>11. ~Told(status)
  BY <1>2 DEF ReportInv, StatusInv
<1>12. ASSUME control.action = "stop", status.wrev = control.rev,
              personal.rev < control.rev, ~pass.bad
       PROVE  dev # "running"
  <2>1. Governing(pass) = control
    BY <1>1, <1>12, GovernedByLast DEF LifecycleActions
  <2> QED
    BY <1>1, <1>12, <2>1 DEF ReportInv, StoppedInv, At
<1>13. StatusInv(status)'
  BY <1>1, <1>5, <1>6, <1>11, <1>12 DEF ReportInv, StatusInv, Told
<1>14. StatusInv(file)'
  BY <1>1, <1>6 DEF ReportInv, StatusInv, Told
<1> QED
  BY <1>8, <1>9, <1>10, <1>13, <1>14 DEF ReportInv

(* The outcome told is about the request that was carried out.              *)
LEMMA CombineKeeps ==
  ASSUME TypeOK, JournalInv, ReportInv, Combine
  PROVE  ReportInv'
<1>1. /\ At("combine") /\ ~At("idle") /\ UNCHANGED <<control, personal, mcp, dev, done>>
      /\ pass' = NoPass
  BY DEF Combine, At, gateway, docker, history
<1>2. /\ file' = status' /\ status'.rev = status.rev /\ status'.runtime = Outcome
      /\ status'.phase = status.phase /\ status'.wrev = status.wrev
      /\ status'.wphase = status.wphase
  BY DEF Combine, Journaled, TypeOK, Statuses
<1>3. pass'.pc = "idle" /\ pass'.then = "none" /\ ~pass'.resume
  BY <1>1 DEF NoPass
<1>4. WellPlaced(pass)' /\ StopsOnly(pass)'
  <2>1. WellPlaced(pass') /\ StopsOnly(pass')
    BY <1>3, NoPassPlaced
  <2> QED
    BY <2>1 DEF WellPlaced, StopsOnly, Governing, WorkspaceLifecycleControl
<1>5. NotedInv' /\ StoppedInv'
  BY <1>3 DEF NotedInv, StoppedInv, At
<1>6. RequestsInv'
  <2>1. pass.req.rev <= control.rev /\ pass.preq.rev <= personal.rev
    BY <1>1, RevsAreNumbers DEF ReportInv, RequestsInv, JournalInv
  <2>2. status.wrev <= control.rev \/ status.wrev <= personal.rev
    BY <1>1, <2>1, RevsAreNumbers DEF ReportInv, RequestsInv
  <2> QED
    BY <1>1, <1>2, <1>3, <2>2 DEF ReportInv, RequestsInv, At
<1>7. Outcome = "applied" => status.phase = "applied"
  BY DEF Outcome
<1>8. ASSUME Outcome = "applied", status.rev = control.rev, personal.rev < control.rev,
             control.action \in LifecycleActions
      PROVE  status.wphase = "applied" /\ status.wrev = control.rev
  <2>1. pass.req = control /\ Governing(pass) = control
    BY <1>1, <1>8, GovernedByLast
  <2>2. control # None
    BY <1>8 DEF None, LifecycleActions
  <2>3. OfRunner
    BY <2>1, <2>2 DEF OfRunner, WorkspaceRequest, Governing
  <2>4. status.wphase = "applied"
    BY <1>8, <2>3 DEF Outcome
  <2>5. status.wrev = control.rev
    BY <1>1, <1>7, <1>8, <2>1, <2>2 DEF ReportInv, NotedInv
  <2> QED
    BY <2>4, <2>5
<1>9. StatusInv(status)' /\ StatusInv(file)'
  BY <1>1, <1>2, <1>7, <1>8 DEF ReportInv, StatusInv, Told
<1> QED
  BY <1>4, <1>5, <1>6, <1>9 DEF ReportInv

LEMMA StepReport ==
  ASSUME TypeOK, JournalInv, ReportInv, [Next]_vars
  PROVE  ReportInv'
<1>1. CASE \/ \E action \in AdminActions : AdminRequest(action)
           \/ \E action \in LifecycleActions : PersonalRequest(action)
  BY <1>1, RequestKeeps
<1>2. CASE SetStatus \/ UNCHANGED vars
  BY <1>2, NothingKeeps
<1>3. CASE PassBegin \/ Crash
  BY <1>3, RestartKeeps
<1>4. CASE UserBegin \/ Hold \/ Finish \/ Tidy
  BY <1>4, UserBeginKeeps, HoldKeeps, FinishKeeps, TidyKeeps
<1>5. CASE ApplyCommand \/ ApplyNothing \/ ApplyInPlace \/ ApplyReplace
  BY <1>5, ApplyCommandKeeps, ApplyNothingKeeps, ApplyInPlaceKeeps, ApplyReplaceKeeps
<1>6. CASE Replacing \/ Make \/ Boot
  BY <1>6, ReplacingKeeps, CreatingKeeps
<1>7. CASE DevBegin \/ DevApply \/ Syncing
  BY <1>7, DevBeginKeeps, DevApplyKeeps, SyncingKeeps
<1>8. CASE DevStart \/ DevDone \/ Combine
  BY <1>8, DevStartKeeps, DevDoneKeeps, CombineKeeps
<1> QED
  BY <1>1, <1>2, <1>3, <1>4, <1>5, <1>6, <1>7, <1>8 DEF Next, Reconcile, Replacing, Syncing

(* The console tells of the last request that it was applied only when the  *)
(* containers carried it out to the end (the journal and the outcome that   *)
(* reconcile-user-runners.mjs combines from its two halves).                *)
THEOREM ReportsAreTrue == Spec => []ReportedIsDone
<1>1. TypeOK /\ ReportInv => ReportedIsDone
  BY ReportSays
<1> QED
  BY <1>1, InitTyping, StepTyping, InitJournal, StepJournal, InitReport, StepReport, PTL DEF Spec

(* A container whose stop was reported as applied is not started again: by  *)
(* no automatic creation, recovery or request read too early.               *)
THEOREM StopsAreKept == Spec => []StoppedStaysStopped
<1>1. TypeOK /\ ReportInv => StoppedStaysStopped
  BY ReportSays
<1> QED
  BY <1>1, InitTyping, StepTyping, InitJournal, StepJournal, InitReport, StepReport, PTL DEF Spec

-----------------------------------------------------------------------------
(***************************************************************************)
(* What a pass settles.  If no command failed in it and the account stayed *)
(* as it was, a disabled account is left with nothing running (but a       *)
(* development container whose stop failed before), and no request is left *)
(* "applying".                                                             *)
(***************************************************************************)
ActivePlaces == {"make", "boot", "devrename", "devmake", "devboot", "devback", "devdrop"}

\* The half of the development container has begun.
Late(p) == p.pc \in {"dev", "combine"} \/ p.then \in {"devdone", "combine"}

\* The journal s says that a stop was carried out on the development container,
\* and the request for it is one of the last or one the pass has read.
Asked == {control, personal, pass.req, pass.preq}
StopDone(s) == s.wphase = "applied" /\ \E r \in Asked : r.action = "stop" /\ r.rev = s.wrev

\* The container is then stopped, and is not held in order to be brought back;
\* what the pass carries out on it, or has, is journalled in both copies.
OrderInv ==
  /\ pass.req.rev # pass.preq.rev \/ (pass.req = None /\ pass.preq = None)
  /\ ~At("combine") => file.wrev = status.wrev
  /\ pass.then = "devdone" => file.wphase = "applying"
  /\ pass.pc \in DevPlaces /\ pass.then = "resume" => pass.resume
  /\ pass.resume => pass.then \in {"finish", "resume"}
  /\ pass.then \in {"devdone", "combine"} =>
       Governing(pass) = None \/ status.wrev = Governing(pass).rev
  /\ \A s \in {status, file} :
       /\ s.wphase = "none" => s.wrev = 0
       /\ StopDone(s) => dev # "running" /\ ~pass.resume

\* What a calm pass has settled at each place.
CalmInv ==
  /\ pass.pc \in ActivePlaces => Active
  /\ \A s \in {status, file} : s.phase = "applying" => s.rev # 0
  /\ calm =>
       /\ pass.pc \notin {"idle", "user"} => pass.user = account
       /\ account = "disabled" /\ Late(pass) => mcp # "running"
       /\ At("tidy") \/ (pass.pc \in {"make", "boot"} /\ pass.then = "none") =>
            status.phase # "applying"
       /\ Late(pass) /\ status.phase = "applying" => mcp = "absent" /\ mcpOld # NoOld
       /\ At("combine") /\ account = "disabled" /\ dev = "running" =>
            Governing(pass).action = "stop" /\ status.wphase = "failed"

SettleInv == OrderInv /\ CalmInv

LEMMA SettleSays ==
  ASSUME SettleInv
  PROVE  CalmPassSettles
BY DEF SettleInv, CalmInv, CalmPassSettles, Late, At, NamesRefused, Governing, WorkspaceRequest

LEMMA InitSettle == Init => SettleInv
<1> SUFFICES ASSUME Init PROVE SettleInv
  OBVIOUS
<1>1. /\ pass = NoPass /\ status = NoStatus /\ file = NoStatus /\ ~calm
      /\ control = None /\ personal = None
  BY DEF Init
<1>2. OrderInv
  BY <1>1 DEF OrderInv, NoPass, NoStatus, DevPlaces, Asked, StopDone
<1>3. CalmInv
  BY <1>1 DEF CalmInv, NoPass, NoStatus, ActivePlaces
<1> QED
  BY <1>2, <1>3 DEF SettleInv

(* The request that governs, among those that are asked for.                *)
LEMMA AskedAlike ==
  ASSUME TypeOK, JournalInv, ReportInv, OrderInv, ~At("idle"), Governing(pass) # None,
         NEW r \in Asked, r.rev = Governing(pass).rev
  PROVE  r = Governing(pass)
<1>1. Governing(pass) \in {pass.req, pass.preq}
  BY GoverningRev
<1>2. /\ pass.req = control \/ (pass.req.rev < control.rev /\ pass.preq.rev < control.rev)
      /\ pass.preq = personal \/ (pass.req.rev < personal.rev /\ pass.preq.rev < personal.rev)
      /\ pass.req.rev # pass.preq.rev \/ (pass.req = None /\ pass.preq = None)
  BY DEF ReportInv, RequestsInv, OrderInv
<1>3. r.rev # pass.req.rev => r \notin {pass.req}
  OBVIOUS
<1> QED
  BY <1>1, <1>2, RevsAreNumbers DEF Asked

LEMMA NoneGoverns ==
  ASSUME TypeOK, JournalInv, ReportInv, ~At("idle"), Governing(pass) = None,
         NEW r \in Asked, r.action = "stop", NEW s \in {status, file}
  PROVE  r.rev # s.wrev
<1>1. pass.preq = None /\ pass.req.action # "stop"
  <2>1. None.rev = 0 /\ None.action \notin LifecycleActions /\ "stop" \in LifecycleActions
    BY DEF None, LifecycleActions
  <2>2. pass.req.rev \in Nat
    BY RevsAreNumbers
  <2> QED
    BY <2>1, <2>2 DEF Governing, WorkspaceLifecycleControl
<1>2. /\ pass.req = control \/ (pass.req.rev < control.rev /\ pass.preq.rev < control.rev)
      /\ pass.preq = personal \/ (pass.req.rev < personal.rev /\ pass.preq.rev < personal.rev)
      /\ s.wrev <= pass.req.rev \/ s.wrev <= pass.preq.rev
  BY DEF ReportInv, RequestsInv
<1>3. s.wrev \in Nat
  BY RevsAreNumbers
<1>4. r \in {control, personal}
  BY <1>1 DEF Asked, None
<1>5. r # pass.req /\ r # pass.preq
  BY <1>1 DEF None
<1> QED
  BY <1>2, <1>3, <1>4, <1>5, RevsAreNumbers

(* Where the development container may be started, no stop that was carried *)
(* out is in force.                                                         *)
LEMMA NoStopDone ==
  ASSUME TypeOK, JournalInv, ReportInv, OrderInv, pass.pc \in DevPlaces \cup {"devstart"},
         NEW s \in {status, file}
  PROVE  ~StopDone(s)
<1> SUFFICES ASSUME StopDone(s) PROVE FALSE
  OBVIOUS
<1>1. ~At("idle") /\ ~At("combine")
  BY DEF At, DevPlaces
<1>2. \/ pass.then = "resume" /\ pass.pc \in DevPlaces
      \/ pass.then = "devdone"
      \/ pass.then = "combine" /\ Governing(pass).action # "stop"
  BY DEF ReportInv, WellPlaced, StopsOnly, DevPlaces
<1>3. CASE pass.then = "resume" /\ pass.pc \in DevPlaces
  BY <1>3 DEF OrderInv
<1>4. CASE pass.then = "devdone"
  BY <1>4 DEF OrderInv, ReportInv, NotedInv, StopDone
<1>5. CASE pass.then = "combine" /\ Governing(pass).action # "stop"
  <2>1. PICK r \in Asked : r.action = "stop" /\ r.rev = s.wrev
    BY DEF StopDone
  <2>2. Governing(pass) = None \/ s.wrev = Governing(pass).rev
    BY <1>1, <1>5 DEF OrderInv
  <2>3. Governing(pass) # None
    BY <1>1, <2>1, NoneGoverns
  <2>4. r = Governing(pass)
    BY <1>1, <2>1, <2>2, <2>3, AskedAlike
  <2> QED
    BY <1>5, <2>1, <2>4
<1> QED
  BY <1>2, <1>3, <1>4, <1>5

(* The steps between the dispatch of a request and the end of its operation *)
(* leave the requests and the journal alone.                                *)
Steered ==
  /\ UNCHANGED <<account, control, personal, file, status>>
  /\ pass'.req = pass.req /\ pass'.preq = pass.preq /\ pass'.then = pass.then
  /\ pass'.user = pass.user
  /\ calm' => calm

Walks ==
  /\ pass.pc \notin {"idle", "user", "combine"}
  /\ pass'.pc \notin {"idle", "user", "tidy", "devapply"}
  /\ Steered
  /\ pass'.resume => pass.resume \/ (dev = "running" /\ pass.then = "finish")
  /\ pass'.pc \in DevPlaces =>
       pass'.resume = pass.resume /\ (pass.pc \in DevPlaces \/ pass.then # "resume")
  /\ dev' = "running" => dev = "running" \/ pass.pc \in DevPlaces \cup {"devstart"}
  /\ pass'.pc \in ActivePlaces => Active
  /\ Late(pass) => UNCHANGED <<mcp, mcpOld>>
  /\ Late(pass') /\ ~Late(pass) =>
       /\ At("tidy") \/ (pass.pc \in {"make", "boot"} /\ pass.then = "none")
       /\ calm' /\ ~Active => mcp' # "running"
       /\ pass'.pc # "combine"
  /\ pass'.pc \in {"make", "boot"} /\ pass.then = "none" =>
       pass.pc \in {"tidy", "make", "boot"}
  /\ pass'.pc = "combine" /\ calm' /\ ~Active => dev' # "running"

LEMMA WalkKeeps ==
  ASSUME TypeOK, JournalInv, ReportInv, SettleInv, Walks
  PROVE  SettleInv'
<1>1. /\ UNCHANGED <<account, control, personal, file, status>>
      /\ pass'.req = pass.req /\ pass'.preq = pass.preq /\ pass'.then = pass.then
      /\ pass'.user = pass.user /\ (calm' => calm)
  BY DEF Walks, Steered
<1>2. Governing(pass)' = Governing(pass) /\ Asked' = Asked
  BY <1>1 DEF Governing, WorkspaceLifecycleControl, Asked
<1>3. ASSUME NEW s \in {status, file}, StopDone(s)
      PROVE  dev' # "running" /\ ~pass'.resume
  <2>1. pass.pc \notin DevPlaces \cup {"devstart"}
    BY <1>3, NoStopDone DEF SettleInv
  <2>2. dev # "running" /\ ~pass.resume
    BY <1>3 DEF SettleInv, OrderInv
  <2> QED
    BY <2>1, <2>2 DEF Walks
<1>4. OrderInv'
  <2>1. /\ (pass.req.rev # pass.preq.rev \/ (pass.req = None /\ pass.preq = None))'
        /\ (~At("combine") => file.wrev = status.wrev)'
        /\ (pass.then = "devdone" => file.wphase = "applying")'
    BY <1>1 DEF SettleInv, OrderInv, Walks, At
  <2>2. pass'.pc \in DevPlaces /\ pass'.then = "resume" => pass'.resume
    BY <1>1 DEF SettleInv, OrderInv, Walks
  <2>3. pass'.resume => pass'.then \in {"finish", "resume"}
    BY <1>1 DEF SettleInv, OrderInv, Walks
  <2>4. pass'.then \in {"devdone", "combine"} =>
          (Governing(pass) = None \/ status.wrev = Governing(pass).rev)'
    BY <1>1, <1>2 DEF SettleInv, OrderInv
  <2>5. \A s \in {status', file'} :
          /\ s.wphase = "none" => s.wrev = 0
          /\ StopDone(s)' => dev' # "running" /\ ~pass'.resume
    BY <1>1, <1>2, <1>3 DEF SettleInv, OrderInv, StopDone
  <2> QED
    BY <2>1, <2>2, <2>3, <2>4, <2>5 DEF OrderInv, StopDone
<1>5. CalmInv'
  <2>1. (pass.pc \in ActivePlaces => Active)'
    BY <1>1 DEF Walks, Active
  <2>2. \A s \in {status', file'} : s.phase = "applying" => s.rev # 0
    BY <1>1 DEF SettleInv, CalmInv
  <2>3. ASSUME calm'
        PROVE  /\ pass'.user = account' /\ (~Active <=> account' = "disabled")
               /\ account' = "disabled" /\ Late(pass') => mcp' # "running"
    <3>1. pass.user = account /\ calm
      BY <1>1, <2>3 DEF SettleInv, CalmInv, Walks
    <3>2. ~Active <=> account = "disabled"
      BY <3>1 DEF Active, TypeOK
    <3> QED
      BY <1>1, <2>3, <3>1, <3>2 DEF SettleInv, CalmInv, Walks
  <2>4. ASSUME calm', (At("tidy") \/ (pass.pc \in {"make", "boot"} /\ pass.then = "none"))'
        PROVE  status'.phase # "applying"
    BY <1>1, <2>4 DEF SettleInv, CalmInv, Walks, At
  <2>5. ASSUME calm', Late(pass'), status'.phase = "applying"
        PROVE  mcp' = "absent" /\ mcpOld' # NoOld
    BY <1>1, <2>5 DEF SettleInv, CalmInv, Walks, At
  <2>6. ASSUME calm', pass'.pc = "combine", account' = "disabled"
        PROVE  dev' # "running"
    BY <2>3, <2>6 DEF Walks
  <2> QED
    BY <2>1, <2>2, <2>3, <2>4, <2>5, <2>6 DEF CalmInv, Late, At
<1> QED
  BY <1>4, <1>5 DEF SettleInv

(* A step to the place pc, a throw, and the return of sync.                 *)
LEMMA GotoSteers ==
  ASSUME TypeOK, NEW pc, pass' = [pass EXCEPT !.pc = pc],
         UNCHANGED <<gateway, journal>>, calm' => calm
  PROVE  Steered /\ pass'.pc = pc /\ pass'.resume = pass.resume
BY DEF TypeOK, Passes, Steered, gateway, journal

LEMMA ThrownSteers ==
  ASSUME TypeOK, pass' = Thrown, UNCHANGED <<gateway, journal>>, calm' => calm
  PROVE  /\ Steered /\ (pass'.resume => pass.resume)
         /\ pass'.pc = CASE pass.then \in {"finish", "resume"} -> "finish"
                         [] pass.then \in {"devdone", "combine"} -> pass.then
                         [] OTHER -> "dev"
<1>1. \/ pass.then = "finish" /\ pass' = [pass EXCEPT !.pc = "finish", !.bad = TRUE]
      \/ pass.then = "resume" /\ pass' = [pass EXCEPT !.pc = "finish", !.bad = TRUE,
                                                      !.resume = FALSE]
      \/ pass.then = "devdone" /\ pass' = [pass EXCEPT !.pc = "devdone", !.bad = TRUE]
      \/ pass.then = "combine" /\ pass' = [pass EXCEPT !.pc = "combine"]
      \/ pass.then = "none" /\ pass' = [pass EXCEPT !.pc = "dev"]
  BY DEF Thrown, TypeOK, Passes
<1>2. pass \in Passes
  BY DEF TypeOK
<1> QED
  BY <1>1, <1>2 DEF Passes, Steered, gateway, journal

LEMMA SyncedSteers ==
  ASSUME TypeOK, ReportInv, pass.pc \in DevPlaces, pass' = Synced,
         UNCHANGED <<gateway, journal>>, calm' => calm
  PROVE  /\ Steered /\ (pass'.resume => pass.resume)
         /\ pass'.pc = CASE pass.then = "resume" -> "finish"
                         [] pass.then = "devdone" -> "devstart"
                         [] OTHER -> "combine"
<1>1. \/ pass.then = "resume" /\ pass' = [pass EXCEPT !.pc = "finish", !.resume = FALSE]
      \/ pass.then = "devdone" /\ pass' = [pass EXCEPT !.pc = "devstart"]
      \/ pass.then = "combine" /\ pass' = [pass EXCEPT !.pc = "combine"]
  BY DEF Synced, ReportInv, WellPlaced
<1>2. pass \in Passes
  BY DEF TypeOK
<1> QED
  BY <1>1, <1>2 DEF Passes, Steered, gateway, journal

(* The operation on the MCP container.                                      *)
LEMMA RunnerWalks ==
  ASSUME pass.pc \in RunnerPlaces \cup {"hold", "mcp"}, pass.then = "finish", Steered,
         pass'.pc \in RunnerPlaces \cup {"mcp", "finish", "make"},
         pass'.pc = "make" => Active,
         pass'.resume => pass.resume \/ dev = "running",
         dev' = "running" => dev = "running"
  PROVE  Walks
BY DEF Walks, Steered, RunnerPlaces, DevPlaces, ActivePlaces, Late, At

LEMMA RanStays == ASSUME NEW ok, Ran(ok) PROVE calm' => calm
BY DEF Ran

LEMMA HoldWalks ==
  ASSUME TypeOK, ReportInv, Hold
  PROVE  Walks
<1>1. /\ pass.pc = "hold" /\ pass.then = "finish" /\ UNCHANGED <<gateway, journal>>
      /\ calm' => calm
      /\ dev' = "running" => dev = "running"
  BY RanStays DEF Hold, At, ReportInv, WellPlaced, Becomes
<1>2. CASE pass' = [pass EXCEPT !.pc = "mcp"]
  BY <1>1, <1>2, GotoSteers, RunnerWalks
<1>3. CASE pass' = Thrown
  BY <1>1, <1>3, ThrownSteers, RunnerWalks
<1>4. CASE pass' = [pass EXCEPT !.pc = "mcp", !.resume = TRUE] /\ dev = "running"
  <2>1. Steered /\ pass'.pc = "mcp"
    BY <1>1, <1>4 DEF TypeOK, Passes, Steered, gateway, journal
  <2> QED
    BY <1>1, <1>4, <2>1, RunnerWalks
<1> QED
  BY <1>2, <1>3, <1>4 DEF Hold, Goto

LEMMA ApplyWalks ==
  ASSUME TypeOK, ReportInv, ApplyCommand \/ ApplyNothing \/ ApplyInPlace \/ ApplyReplace
  PROVE  Walks
<1>1. Dispatch
  BY DEF ApplyCommand, ApplyNothing, ApplyInPlace, ApplyReplace
<1>2. /\ pass.pc = "mcp" /\ pass.then = "finish" /\ UNCHANGED <<gateway, journal, dev>>
  BY <1>1, DispatchedFrom
<1>3. calm' => calm
  BY RanStays DEF ApplyCommand, ApplyNothing, ApplyInPlace, ApplyReplace
<1>4. ASSUME NEW pc \in {"finish", "again", "rename", "revive"}, pass' = [pass EXCEPT !.pc = pc]
      PROVE  Walks
  BY <1>2, <1>3, <1>4, GotoSteers, RunnerWalks DEF RunnerPlaces
<1>5. CASE pass' = Thrown
  BY <1>2, <1>3, <1>5, ThrownSteers, RunnerWalks
<1>6. CASE pass' = [pass EXCEPT !.pc = "make"] /\ Active
  BY <1>2, <1>3, <1>6, GotoSteers, RunnerWalks
<1>7. CASE ApplyReplace
  <2>1. PICK q, up :
          /\ pass' = [q EXCEPT !.up = up] /\ up \in BOOLEAN
          /\ \/ q = [pass EXCEPT !.pc = "rename"] \/ q = [pass EXCEPT !.pc = "revive"]
             \/ q = Thrown
    <3>1. PICK ok \in Outcomes :
            pass' = [(IF ok THEN [pass EXCEPT !.pc = "rename"]
                      ELSE IF pass.req.action = "workspace"
                      THEN [pass EXCEPT !.pc = "revive"] ELSE Thrown)
                     EXCEPT !.up = (mcp = "running")]
      BY <1>7 DEF ApplyReplace
    <3>2. PICK up : up = (mcp = "running") /\ up \in BOOLEAN
      OBVIOUS
    <3>3. PICK q : q = IF ok THEN [pass EXCEPT !.pc = "rename"]
                       ELSE IF pass.req.action = "workspace"
                       THEN [pass EXCEPT !.pc = "revive"] ELSE Thrown
      OBVIOUS
    <3>4. pass' = [q EXCEPT !.up = up]
      BY <3>1, <3>2, <3>3
    <3> QED
      BY <3>2, <3>3, <3>4
  <2>2. q \in Passes
    <3>1. {"rename", "revive"} \subseteq Places
      BY DEF Places
    <3> QED
      BY <2>1, <3>1, PassGoto, ThrownTo
  <2>3. /\ q.req = pass.req /\ q.preq = pass.preq /\ q.then = pass.then /\ q.user = pass.user
        /\ (q.resume => pass.resume) /\ q.pc \in {"rename", "revive", "finish"}
    BY <1>2, <2>1 DEF Thrown, TypeOK, Passes
  <2>4. /\ pass'.req = q.req /\ pass'.preq = q.preq /\ pass'.then = q.then
        /\ pass'.user = q.user /\ pass'.resume = q.resume /\ pass'.pc = q.pc
    BY <2>1, <2>2 DEF Passes
  <2>5. Steered
    BY <1>2, <1>3, <2>3, <2>4 DEF Steered, gateway, journal
  <2> QED
    BY <1>2, <2>3, <2>4, <2>5, RunnerWalks DEF RunnerPlaces
<1>8. CASE ApplyCommand
  BY <1>4, <1>5, <1>8 DEF ApplyCommand
<1>9. CASE ApplyInPlace
  BY <1>4, <1>5, <1>9 DEF ApplyInPlace
<1>10. CASE ApplyNothing
  BY <1>4, <1>5, <1>6, <1>10 DEF ApplyNothing, Goto
<1> QED
  BY <1>7, <1>8, <1>9, <1>10

LEMMA ReplacingWalks ==
  ASSUME TypeOK, ReportInv, Replacing
  PROVE  Walks
<1>1. /\ pass.pc \in RunnerPlaces /\ pass.then = "finish" /\ UNCHANGED <<gateway, journal, dev>>
  BY ReplacingFrom
<1>2. calm' => calm
  BY RanStays DEF Replacing, Rename, Provision, Start, Rollback, Restore, Revive, Drop, history
<1>3. CASE pass' = Thrown
  BY <1>1, <1>2, <1>3, ThrownSteers, RunnerWalks
<1>4. ASSUME NEW pc \in RunnerPlaces \cup {"finish"}, pass' = [pass EXCEPT !.pc = pc]
      PROVE  Walks
  BY <1>1, <1>2, <1>4, GotoSteers, RunnerWalks DEF RunnerPlaces
<1> QED
  BY <1>3, <1>4, ReplacingFrom

LEMMA CreatingWalks ==
  ASSUME TypeOK, ReportInv, CalmInv, Make \/ Boot
  PROVE  Walks
<1>1. pass.pc \in {"make", "boot"} /\ UNCHANGED <<gateway, journal, dev>> /\ (calm' => calm)
  BY RanStays DEF Make, Boot, At
<1>2. pass.then \in {"finish", "none"} /\ Active
  BY <1>1 DEF ReportInv, WellPlaced, CalmInv, ActivePlaces
<1>3. ASSUME Steered, pass'.pc \in {"boot", "finish", "dev"}, pass'.resume => pass.resume,
             pass'.pc = "dev" => pass.then = "none"
      PROVE  Walks
  BY <1>1, <1>2, <1>3 DEF Walks, Steered, DevPlaces, Late, At
<1>4. CASE pass' = Thrown
  BY <1>1, <1>2, <1>3, <1>4, ThrownSteers
<1>5. ASSUME NEW pc \in {"boot", "finish", "dev"}, pass' = [pass EXCEPT !.pc = pc],
             pc = "dev" => pass.then = "none"
      PROVE  Walks
  BY <1>1, <1>3, <1>5, GotoSteers
<1> QED
  BY <1>2, <1>4, <1>5 DEF Make, Boot

LEMMA TidyWalks ==
  ASSUME TypeOK, ReportInv, Tidy
  PROVE  Walks
<1>1. /\ pass.pc = "tidy" /\ pass.then = "none" /\ UNCHANGED <<gateway, journal, dev>>
      /\ calm' => calm
  BY RanStays DEF Tidy, At, ReportInv, WellPlaced
<1>2. \/ pass' = [pass EXCEPT !.pc = "dev"]
      \/ pass' = [pass EXCEPT !.pc = "make"] /\ Active
  BY DEF Tidy, Goto, MayCreate
<1>3. Steered /\ pass'.pc \in {"dev", "make"} /\ pass'.resume = pass.resume
      /\ (pass'.pc = "make" => Active)
  BY <1>1, <1>2, GotoSteers
<1>4. calm' /\ ~Active => mcp' # "running"
  BY DEF Tidy, MustStop, Ran, Becomes
<1> QED
  BY <1>1, <1>3, <1>4 DEF Walks, Steered, DevPlaces, ActivePlaces, Late, At

(* The operation on the development container.                              *)
LEMMA DevApplyWalks ==
  ASSUME TypeOK, ReportInv, DevApply \/ DevStart
  PROVE  Walks
<1>1. /\ pass.pc \in {"devapply", "devstart"} /\ pass.then = "devdone"
      /\ UNCHANGED <<gateway, journal, mcp, mcpOld>> /\ (calm' => calm)
  BY RanStays DEF DevApply, DevStart, At, ReportInv, WellPlaced
<1>2. dev' = "running" => dev = "running" \/ pass.pc = "devstart"
  BY DEF DevApply, DevStart, At, Becomes, Stopped
<1>3. ASSUME Steered, pass'.pc \in {"devdone", "sync"}, pass'.resume => pass.resume,
             pass'.pc = "sync" => pass'.resume = pass.resume
      PROVE  Walks
  BY <1>1, <1>2, <1>3 DEF Walks, Steered, DevPlaces, ActivePlaces, Late, At
<1>4. CASE pass' = Thrown
  BY <1>1, <1>3, <1>4, ThrownSteers
<1>5. ASSUME NEW pc \in {"devdone", "sync"}, pass' = [pass EXCEPT !.pc = pc]
      PROVE  Walks
  BY <1>1, <1>3, <1>5, GotoSteers
<1> QED
  BY <1>4, <1>5 DEF DevApply, DevStart

LEMMA SyncingWalks ==
  ASSUME TypeOK, ReportInv, CalmInv, Syncing
  PROVE  Walks
<1>1. pass.pc \in DevPlaces /\ UNCHANGED <<gateway, journal, mcp>>
  BY SyncingFrom
<1>2. UNCHANGED mcpOld /\ (calm' => calm)
  BY RanStays DEF Syncing, Sync, DevRename, DevMake, DevBoot, DevBack, DevDrop
<1>3. pass.then \in {"resume", "devdone", "combine"}
  BY <1>1 DEF ReportInv, WellPlaced
<1>4. pass.pc # "sync" => Active
  BY <1>1 DEF CalmInv, DevPlaces, ActivePlaces
<1>5. pass.pc = "sync" => Sync
  BY DEF Syncing, Sync, DevRename, DevMake, DevBoot, DevBack, DevDrop, At
<1>6. Sync /\ ~Active /\ calm' => dev' # "running"
  BY DEF Sync, Ran, Becomes, Stopped
<1>7. Sync /\ pass'.pc \in ActivePlaces => Active
  BY <1>3, ThrownTo, SyncedTo DEF Sync, ActivePlaces
<1>8. ASSUME Steered, pass'.pc \in DevPlaces \cup {"finish", "devstart", "devdone", "combine"},
             pass'.resume => pass.resume, pass'.pc \in DevPlaces => pass'.resume = pass.resume,
             pass'.pc = "combine" => pass.then = "combine"
      PROVE  Walks
  <2>1. /\ pass.pc \notin {"idle", "user", "combine", "tidy", "make", "boot"}
        /\ pass'.pc \notin {"idle", "user", "tidy", "devapply", "make", "boot"}
    BY <1>1, <1>8 DEF DevPlaces
  <2>2. pass'.then = pass.then /\ pass'.pc # "dev"
    BY <1>8 DEF Steered, DevPlaces
  <2>3. /\ pass'.pc \in ActivePlaces => Active
        /\ pass'.pc = "combine" /\ calm' /\ ~Active => dev' # "running"
    BY <1>4, <1>5, <1>6, <1>7
  <2> QED
    BY <1>1, <1>2, <1>8, <2>1, <2>2, <2>3 DEF Walks, Late
<1>9. CASE pass' = Thrown
  BY <1>1, <1>2, <1>3, <1>8, <1>9, ThrownSteers DEF DevPlaces
<1>10. CASE pass' = Synced
  BY <1>1, <1>2, <1>3, <1>8, <1>10, SyncedSteers DEF DevPlaces
<1>11. ASSUME NEW pc \in DevPlaces, pass' = [pass EXCEPT !.pc = pc]
       PROVE  Walks
  BY <1>1, <1>2, <1>8, <1>11, GotoSteers DEF DevPlaces
<1>12. ASSUME NEW pc \in DevPlaces, NEW swap \in BOOLEAN, NEW up \in BOOLEAN,
              pass' = [pass EXCEPT !.pc = pc, !.swap = swap, !.up = up]
       PROVE  Walks
  <2>1. Steered /\ pass'.pc = pc /\ pass'.resume = pass.resume
    BY <1>1, <1>2, <1>12 DEF TypeOK, Passes, Steered, gateway, journal
  <2> QED
    BY <1>8, <2>1 DEF DevPlaces
<1> QED
  BY <1>9, <1>10, <1>11, <1>12, SyncingFrom

(* The gateway, and a pass that begins or dies.                             *)
LEMMA RequestSettles ==
  ASSUME TypeOK, JournalInv, ReportInv, SettleInv,
         \/ \E action \in AdminActions : AdminRequest(action)
         \/ \E action \in LifecycleActions : PersonalRequest(action)
  PROVE  SettleInv'
<1>1. PICK n : n = NextRev
  OBVIOUS
<1>2. n \in Nat /\ n > control.rev /\ n > personal.rev
  BY <1>1, RevsAreNumbers DEF NextRev
<1>3. UNCHANGED <<account, file, status, pass, mcp, mcpOld, dev, calm>>
  BY DEF AdminRequest, PersonalRequest, journal, docker, history
<1>4. \/ control'.rev = n /\ personal' = personal
      \/ personal'.rev = n /\ control' = control
  BY <1>1 DEF AdminRequest, PersonalRequest
<1>5. \A s \in {status, file} : s.wrev < n
  <2>1. ~At("idle") => pass.req.rev <= control.rev /\ pass.preq.rev <= personal.rev
    BY RevsAreNumbers DEF ReportInv, RequestsInv, JournalInv
  <2> QED
    BY <1>2, <2>1, RevsAreNumbers DEF ReportInv, RequestsInv
<1>6. ASSUME NEW s \in {status, file}, NEW r \in Asked', r.rev = s.wrev
      PROVE  r \in Asked
  BY <1>2, <1>3, <1>4, <1>5, <1>6, RevsAreNumbers DEF Asked
<1>7. \A s \in {status, file} :
        s.wphase = "applied" /\ (\E r \in Asked' : r.action = "stop" /\ r.rev = s.wrev)
          => StopDone(s)
  BY <1>6 DEF StopDone
<1>8. OrderInv'
  <2>1. Governing(pass)' = Governing(pass)
    BY <1>3 DEF Governing, WorkspaceLifecycleControl
  <2> QED
    BY <1>3, <1>7, <2>1 DEF SettleInv, OrderInv, StopDone, At
<1>9. CalmInv'
  BY <1>3 DEF SettleInv, CalmInv, At, Active, Late, Governing, WorkspaceLifecycleControl
<1> QED
  BY <1>8, <1>9 DEF SettleInv

LEMMA RestartSettles ==
  ASSUME TypeOK, JournalInv, ReportInv, SettleInv, PassBegin \/ Crash
  PROVE  SettleInv'
<1>1. /\ status' = file /\ UNCHANGED <<account, control, personal, file, mcp, mcpOld, dev>>
      /\ pass'.then = "none" /\ ~pass'.resume /\ pass'.pc \in {"user", "idle"}
      /\ \/ pass'.req = control /\ pass'.preq = personal
         \/ pass'.req = None /\ pass'.preq = None
  <2>1. CASE PassBegin
    <3>1. pass' = [NoPass EXCEPT !.pc = "user", !.req = control, !.preq = personal]
      BY <2>1 DEF PassBegin
    <3>2. /\ pass'.then = "none" /\ ~pass'.resume /\ pass'.pc = "user"
          /\ pass'.req = control /\ pass'.preq = personal
      BY <3>1 DEF NoPass
    <3> QED
      BY <2>1, <3>2 DEF PassBegin, gateway, docker
  <2>2. CASE Crash
    <3>1. /\ pass'.then = "none" /\ ~pass'.resume /\ pass'.pc = "idle"
          /\ pass'.req = None /\ pass'.preq = None
      BY <2>2 DEF Crash, NoPass
    <3> QED
      BY <2>2, <3>1 DEF Crash, gateway, docker
  <2> QED
    BY <2>1, <2>2
<1>2. pass'.req.rev # pass'.preq.rev \/ (pass'.req = None /\ pass'.preq = None)
  BY <1>1 DEF ReportInv, RequestsInv
<1>3. \A r \in Asked' : r.action = "stop" => r \in Asked
  BY <1>1 DEF Asked, None
<1>4. \A r \in Asked' : r.action = "stop" /\ r.rev = file.wrev /\ file.wphase = "applied"
        => StopDone(file)
  BY <1>3 DEF StopDone
<1>5. OrderInv'
  BY <1>1, <1>2, <1>4 DEF SettleInv, OrderInv, StopDone, At, DevPlaces
<1>6. CalmInv'
  BY <1>1 DEF SettleInv, CalmInv, At, ActivePlaces, Late
<1> QED
  BY <1>5, <1>6 DEF SettleInv

LEMMA NothingSettles ==
  ASSUME SettleInv, SetStatus \/ UNCHANGED vars
  PROVE  SettleInv'
<1>1. UNCHANGED <<control, personal, file, status, pass, mcp, mcpOld, dev>>
  BY DEF SetStatus, vars, gateway, journal, docker, history
<1>2. ~calm' \/ UNCHANGED <<calm, account>>
  BY DEF SetStatus, vars, gateway, history
<1>3. OrderInv'
  BY <1>1 DEF SettleInv, OrderInv, StopDone, Asked, At, Governing, WorkspaceLifecycleControl
<1>4. CalmInv'
  BY <1>1, <1>2 DEF SettleInv, CalmInv, At, Active, Late, Governing, WorkspaceLifecycleControl
<1> QED
  BY <1>3, <1>4 DEF SettleInv

(* The beginning and the end of the runner's half.                          *)
LEMMA UserBeginSettles ==
  ASSUME TypeOK, JournalInv, ReportInv, SettleInv, UserBegin
  PROVE  SettleInv'
<1>1. /\ pass.pc = "user" /\ pass.then = "none" /\ ~At("idle") /\ ~At("combine") /\ ~pass.resume
      /\ UNCHANGED <<account, control, personal, mcp, mcpOld, dev>>
  BY DEF UserBegin, At, ReportInv, WellPlaced, docker, gateway, SettleInv, OrderInv
<1>2. PICK ok \in Outcomes :
        /\ calm' = (calm /\ ok)
        /\ \/ /\ ~ok \/ NamesRefused
              /\ pass' = [pass EXCEPT !.pc = "dev", !.user = account]
              /\ UNCHANGED <<file, status>>
           \/ /\ pass.req # None
              /\ Journaled([status EXCEPT !.rev = pass.req.rev, !.phase = "applying",
                                          !.runtime = "applying"])
              /\ pass' = [pass EXCEPT !.pc = "hold", !.user = account, !.then = "finish"]
           \/ /\ status' = IF pass.req # None /\ status.phase = "applying"
                           THEN [status EXCEPT !.phase = "failed"] ELSE status
              /\ pass' = [pass EXCEPT !.pc = "tidy", !.user = account]
              /\ UNCHANGED file
  BY DEF UserBegin, Ran
<1>3. ASSUME pass'.req = pass.req, pass'.preq = pass.preq
      PROVE  Asked' = Asked
  BY <1>1, <1>3 DEF Asked
<1>4. CASE /\ ~ok \/ NamesRefused
           /\ pass' = [pass EXCEPT !.pc = "dev", !.user = account]
           /\ UNCHANGED <<file, status>>
  <2>1. /\ pass'.pc = "dev" /\ pass'.then = "none" /\ pass'.req = pass.req
        /\ pass'.preq = pass.preq /\ ~pass'.resume /\ pass'.user = account
    BY <1>1, <1>4 DEF TypeOK, Passes
  <2>2. OrderInv'
    BY <1>1, <1>3, <1>4, <2>1 DEF SettleInv, OrderInv, StopDone, At, DevPlaces
  <2>3. CalmInv'
    BY <1>1, <1>2, <1>4, <2>1 DEF SettleInv, CalmInv, At, ActivePlaces, NamesRefused
  <2> QED
    BY <2>2, <2>3 DEF SettleInv
<1>5. CASE /\ pass.req # None
           /\ Journaled([status EXCEPT !.rev = pass.req.rev, !.phase = "applying",
                                       !.runtime = "applying"])
           /\ pass' = [pass EXCEPT !.pc = "hold", !.user = account, !.then = "finish"]
  <2>1. /\ pass'.pc = "hold" /\ pass'.then = "finish" /\ pass'.req = pass.req
        /\ pass'.preq = pass.preq /\ ~pass'.resume /\ pass'.user = account
    BY <1>1, <1>5 DEF TypeOK, Passes
  <2>2. /\ file' = status' /\ status'.rev = pass.req.rev /\ status'.wrev = status.wrev
        /\ status'.wphase = status.wphase
    BY <1>5 DEF Journaled, TypeOK, Statuses
  <2>3. status'.rev # 0
    <3>1. pass.req \in Request
      BY DEF TypeOK, Passes
    <3> QED
      BY <1>5, <2>2, <3>1, RequestRev DEF Rev
  <2>4. OrderInv'
    BY <1>1, <1>3, <2>1, <2>2 DEF SettleInv, OrderInv, StopDone, At, DevPlaces
  <2>5. CalmInv'
    BY <1>1, <2>1, <2>2, <2>3 DEF CalmInv, At, ActivePlaces, Late
  <2> QED
    BY <2>4, <2>5 DEF SettleInv
<1>6. CASE /\ status' = IF pass.req # None /\ status.phase = "applying"
                        THEN [status EXCEPT !.phase = "failed"] ELSE status
           /\ pass' = [pass EXCEPT !.pc = "tidy", !.user = account]
           /\ UNCHANGED file
  <2>1. /\ pass'.pc = "tidy" /\ pass'.then = "none" /\ pass'.req = pass.req
        /\ pass'.preq = pass.preq /\ ~pass'.resume /\ pass'.user = account
    BY <1>1, <1>6 DEF TypeOK, Passes
  <2>2. /\ status'.rev = status.rev /\ status'.wrev = status.wrev
        /\ status'.wphase = status.wphase
        /\ status'.phase = status.phase \/ status'.phase = "failed"
        /\ pass.req # None => status'.phase # "applying"
    BY <1>6 DEF TypeOK, Statuses
  <2>3. pass.req = None => status.rev = 0
    BY <1>1, RevsAreNumbers DEF JournalInv, None
  <2>4. status'.phase # "applying"
    BY <2>2, <2>3 DEF SettleInv, CalmInv
  <2>5. OrderInv'
    BY <1>1, <1>3, <1>6, <2>1, <2>2 DEF SettleInv, OrderInv, StopDone, At, DevPlaces
  <2>6. CalmInv'
    BY <1>1, <1>6, <2>1, <2>4 DEF SettleInv, CalmInv, At, ActivePlaces, Late
  <2> QED
    BY <2>5, <2>6 DEF SettleInv
<1> QED
  BY <1>2, <1>4, <1>5, <1>6

LEMMA FinishSettles ==
  ASSUME TypeOK, JournalInv, ReportInv, SettleInv, Finish
  PROVE  SettleInv'
<1>1. /\ pass.pc = "finish" /\ ~At("combine")
      /\ UNCHANGED <<account, control, personal, file, mcp, mcpOld, dev, calm>>
  BY DEF Finish, At, docker, gateway
<1>2. ASSUME pass'.req = pass.req, pass'.preq = pass.preq
      PROVE  Asked' = Asked
  BY <1>1, <1>2 DEF Asked
<1>3. CASE /\ pass.resume
           /\ pass' = [pass EXCEPT !.pc = "sync", !.then = "resume"]
           /\ UNCHANGED <<status, done>>
  <2>1. /\ pass'.pc = "sync" /\ pass'.then = "resume" /\ pass'.req = pass.req
        /\ pass'.preq = pass.preq /\ pass'.resume = pass.resume /\ pass'.user = pass.user
    BY <1>3 DEF TypeOK, Passes
  <2>2. OrderInv'
    BY <1>1, <1>2, <1>3, <2>1 DEF SettleInv, OrderInv, StopDone, At
  <2>3. CalmInv'
    BY <1>1, <1>3, <2>1 DEF SettleInv, CalmInv, At, ActivePlaces, Late
  <2> QED
    BY <2>2, <2>3 DEF SettleInv
<1>4. CASE /\ ~pass.resume
           /\ pass' = [pass EXCEPT !.pc = "tidy", !.then = "none", !.bad = FALSE]
           /\ status' = [status EXCEPT !.phase = IF pass.bad THEN "failed" ELSE "applied"]
  <2>1. /\ pass'.pc = "tidy" /\ pass'.then = "none" /\ pass'.req = pass.req
        /\ pass'.preq = pass.preq /\ ~pass'.resume /\ pass'.user = pass.user
    BY <1>4 DEF TypeOK, Passes
  <2>2. /\ status'.wrev = status.wrev /\ status'.wphase = status.wphase
        /\ status'.phase # "applying"
    BY <1>4 DEF TypeOK, Statuses
  <2>3. OrderInv'
    BY <1>1, <1>2, <2>1, <2>2 DEF SettleInv, OrderInv, StopDone, At, DevPlaces
  <2>4. CalmInv'
    BY <1>1, <2>1, <2>2 DEF SettleInv, CalmInv, At, ActivePlaces, Late
  <2> QED
    BY <2>3, <2>4 DEF SettleInv
<1> QED
  BY <1>3, <1>4 DEF Finish

(* The beginning and the end of the operation on the development container. *)
LEMMA DevBeginSettles ==
  ASSUME TypeOK, JournalInv, ReportInv, SettleInv, DevBegin
  PROVE  SettleInv'
<1>1. /\ pass.pc = "dev" /\ pass.then = "none" /\ ~At("idle") /\ ~At("combine") /\ ~pass.resume
      /\ UNCHANGED <<account, control, personal, mcp, mcpOld>>
      /\ dev' = "running" => dev = "running"
      /\ calm' => calm
  BY RanStays DEF DevBegin, At, ReportInv, WellPlaced, gateway, Becomes, Stopped,
                  SettleInv, OrderInv
<1>2. PICK g : g = Governing(pass)
  OBVIOUS
<1>3. WorkspaceRequest = g
  BY <1>2 DEF WorkspaceRequest, Governing
<1>4. ASSUME pass'.req = pass.req, pass'.preq = pass.preq
      PROVE  Asked' = Asked /\ Governing(pass)' = g /\ Governing(pass') = g
  BY <1>1, <1>2, <1>4 DEF Asked, Governing, WorkspaceLifecycleControl
<1>5. calm => /\ pass.user = account
              /\ account = "disabled" => mcp # "running"
              /\ status.phase = "applying" => mcp = "absent" /\ mcpOld # NoOld
  BY <1>1 DEF SettleInv, CalmInv, Late
<1>6. ASSUME status.phase = "failed", pass' = [pass EXCEPT !.pc = "combine"], file' = file,
             NEW ok, status' = (IF ok THEN [status EXCEPT !.wrev = g.rev, !.wphase = "failed"]
                                ELSE status),
             calm' => ok, calm' /\ account # "active" => dev' # "running"
      PROVE  SettleInv'
  <2>1. /\ pass'.pc = "combine" /\ pass'.then = "none" /\ pass'.req = pass.req
        /\ pass'.preq = pass.preq /\ ~pass'.resume /\ pass'.user = pass.user
    BY <1>1, <1>6 DEF TypeOK, Passes
  <2>2. /\ status'.phase = "failed"
        /\ \/ status'.wrev = status.wrev /\ status'.wphase = status.wphase
           \/ status'.wphase = "failed"
    BY <1>6 DEF TypeOK, Statuses
  <2>3. OrderInv'
    BY <1>1, <1>4, <1>6, <2>1, <2>2 DEF SettleInv, OrderInv, StopDone, At, DevPlaces
  <2>4. CalmInv'
    BY <1>1, <1>5, <1>6, <2>1, <2>2 DEF SettleInv, CalmInv, At, ActivePlaces, Late
  <2> QED
    BY <2>3, <2>4 DEF SettleInv
<1>7. CASE /\ Journaled([status EXCEPT !.wrev = g.rev, !.wphase = "applying"])
           /\ pass' = [pass EXCEPT !.pc = "devapply", !.user = account, !.then = "devdone"]
  <2>1. /\ pass'.pc = "devapply" /\ pass'.then = "devdone" /\ pass'.req = pass.req
        /\ pass'.preq = pass.preq /\ ~pass'.resume /\ pass'.user = account
    BY <1>1, <1>7 DEF TypeOK, Passes
  <2>2. /\ file' = status' /\ status'.rev = status.rev /\ status'.phase = status.phase
        /\ status'.wrev = g.rev /\ status'.wphase = "applying"
    BY <1>7 DEF Journaled, TypeOK, Statuses
  <2>3. OrderInv'
    BY <1>1, <1>4, <2>1, <2>2 DEF SettleInv, OrderInv, StopDone, At, DevPlaces
  <2>4. CalmInv'
    BY <1>1, <1>5, <2>1, <2>2 DEF SettleInv, CalmInv, At, ActivePlaces, Late
  <2> QED
    BY <2>3, <2>4 DEF SettleInv
<1>8. CASE /\ g = None \/ status.wrev = g.rev
           /\ status' = IF status.wphase = "applying"
                        THEN [status EXCEPT !.wphase = "failed"] ELSE status
           /\ pass' = Settled /\ UNCHANGED <<file, dev>>
  <2>1. /\ pass'.then = "combine" /\ pass'.req = pass.req /\ pass'.preq = pass.preq
        /\ ~pass'.resume /\ pass'.user = account
        /\ pass'.pc = IF g.action = "stop" THEN "combine" ELSE "sync"
    <3>1. PICK pc : pc = IF g.action = "stop" THEN "combine" ELSE "sync"
      OBVIOUS
    <3>2. pass' = [pass EXCEPT !.bad = FALSE, !.user = account, !.pc = pc, !.then = "combine"]
      BY <1>3, <1>8, <3>1 DEF Settled
    <3> QED
      BY <1>1, <3>1, <3>2 DEF TypeOK, Passes
  <2>2. /\ status'.rev = status.rev /\ status'.phase = status.phase
        /\ status'.wrev = status.wrev
        /\ status'.wphase = IF status.wphase = "applying" THEN "failed" ELSE status.wphase
    BY <1>8 DEF TypeOK, Statuses
  <2>3. OrderInv'
    BY <1>1, <1>4, <1>8, <2>1, <2>2 DEF SettleInv, OrderInv, StopDone, At, DevPlaces
  <2>4. g.action = "stop" /\ dev = "running" => status'.wphase = "failed"
    <3>1. SUFFICES ASSUME g.action = "stop", dev = "running", status.wphase # "applying",
                          status.wphase # "failed"
                   PROVE  FALSE
      BY <2>2
    <3>2. status.wphase \in {"none", "applied"}
      BY <3>1 DEF TypeOK, Statuses, Phases
    <3>3. g \in Asked /\ g # None
      BY <1>2, <3>1, GoverningRev DEF Asked, None
    <3>4. g \in Request
      BY <1>2, GoverningRev DEF TypeOK, Passes
    <3>5. status.wrev = g.rev /\ status.wrev # 0
      BY <1>8, <3>3, <3>4, RequestRev DEF Rev
    <3> QED
      BY <3>1, <3>2, <3>3, <3>5 DEF SettleInv, OrderInv, StopDone
  <2>5. CalmInv'
    BY <1>1, <1>4, <1>5, <1>8, <2>1, <2>2, <2>4
    DEF SettleInv, CalmInv, At, ActivePlaces, Late
  <2> QED
    BY <2>3, <2>5 DEF SettleInv
<1>9. \/ /\ status.phase = "failed" /\ pass' = [pass EXCEPT !.pc = "combine"] /\ file' = file
         /\ \E ok \in Outcomes :
              /\ Ran(ok)
              /\ dev' \in IF account = "active" THEN {dev} ELSE Becomes(ok, dev, Stopped(dev))
              /\ status' = IF ok THEN [status EXCEPT !.wrev = g.rev, !.wphase = "failed"]
                           ELSE status
      \/ /\ Journaled([status EXCEPT !.wrev = g.rev, !.wphase = "applying"])
         /\ pass' = [pass EXCEPT !.pc = "devapply", !.user = account, !.then = "devdone"]
      \/ /\ g = None \/ status.wrev = g.rev
         /\ status' = IF status.wphase = "applying"
                      THEN [status EXCEPT !.wphase = "failed"] ELSE status
         /\ pass' = Settled /\ UNCHANGED <<file, dev>>
  BY <1>3 DEF DevBegin
<1>10. CASE /\ status.phase = "failed" /\ pass' = [pass EXCEPT !.pc = "combine"] /\ file' = file
            /\ \E ok \in Outcomes :
                 /\ Ran(ok)
                 /\ dev' \in IF account = "active" THEN {dev} ELSE Becomes(ok, dev, Stopped(dev))
                 /\ status' = IF ok THEN [status EXCEPT !.wrev = g.rev, !.wphase = "failed"]
                              ELSE status
  <2>1. PICK ok \in Outcomes :
          /\ Ran(ok)
          /\ dev' \in IF account = "active" THEN {dev} ELSE Becomes(ok, dev, Stopped(dev))
          /\ status' = IF ok THEN [status EXCEPT !.wrev = g.rev, !.wphase = "failed"]
                       ELSE status
    BY <1>10
  <2>2. calm' => ok
    BY <2>1 DEF Ran
  <2>3. calm' /\ account # "active" => dev' # "running"
    BY <2>1, <2>2 DEF Becomes, Stopped
  <2> QED
    BY <1>6, <1>10, <2>1, <2>2, <2>3
<1> QED
  BY <1>7, <1>8, <1>9, <1>10

LEMMA DevDoneSettles ==
  ASSUME TypeOK, JournalInv, ReportInv, SettleInv, DevDone
  PROVE  SettleInv'
<1>1. /\ pass.pc = "devdone" /\ pass.then = "devdone" /\ ~At("idle") /\ ~At("combine")
      /\ ~pass.resume
      /\ UNCHANGED <<account, control, personal, file, mcp, mcpOld, dev, calm>>
  BY DEF DevDone, At, ReportInv, WellPlaced, docker, gateway, SettleInv, OrderInv
<1>2. PICK g : g = Governing(pass)
  OBVIOUS
<1>3. WorkspaceRequest = g
  BY <1>2 DEF WorkspaceRequest, Governing
<1>4. /\ pass'.then = "combine" /\ pass'.req = pass.req /\ pass'.preq = pass.preq
      /\ ~pass'.resume /\ pass'.user = pass.user
      /\ pass'.pc = IF g.action = "stop" THEN "combine" ELSE "sync"
  <2>1. /\ Settled.then = "combine" /\ Settled.req = pass.req /\ Settled.preq = pass.preq
        /\ Settled.resume = pass.resume
        /\ Settled.pc = IF g.action = "stop" THEN "combine" ELSE "sync"
    <3>1. PICK pc : pc = IF g.action = "stop" THEN "combine" ELSE "sync"
      OBVIOUS
    <3>2. Settled = [pass EXCEPT !.bad = FALSE, !.user = account, !.pc = pc, !.then = "combine"]
      BY <1>3, <3>1 DEF Settled
    <3> QED
      BY <3>1, <3>2 DEF TypeOK, Passes
  <2>2. pass' = [Settled EXCEPT !.user = pass.user] /\ Settled \in Passes
    BY SettledTo DEF DevDone
  <2> QED
    BY <1>1, <2>1, <2>2 DEF Passes
<1>5. /\ status'.rev = status.rev /\ status'.phase = status.phase /\ status'.wrev = status.wrev
      /\ status'.wphase = IF pass.bad THEN "failed" ELSE "applied"
  BY DEF DevDone, TypeOK, Statuses
<1>6. Asked' = Asked /\ Governing(pass)' = g /\ Governing(pass') = g
  BY <1>1, <1>2, <1>4 DEF Asked, Governing, WorkspaceLifecycleControl
<1>7. g = None \/ status.wrev = g.rev
  BY <1>1, <1>2 DEF SettleInv, OrderInv
<1>8. ASSUME ~pass.bad, NEW r \in Asked, r.action = "stop", r.rev = status.wrev
      PROVE  dev # "running"
  <2>1. g # None
    BY <1>1, <1>2, <1>8, NoneGoverns
  <2>2. r = g
    BY <1>1, <1>2, <1>7, <1>8, <2>1, AskedAlike DEF SettleInv
  <2> QED
    BY <1>1, <1>2, <1>8, <2>2 DEF ReportInv, StoppedInv, At
<1>9. OrderInv'
  <2>1. StopDone(status)' => dev # "running"
    BY <1>5, <1>6, <1>8 DEF StopDone
  <2>2. StopDone(file)' => dev # "running"
    BY <1>1, <1>6 DEF SettleInv, OrderInv, StopDone
  <2>3. \A s \in {status', file'} : s.wphase = "none" => s.wrev = 0
    BY <1>1, <1>5 DEF SettleInv, OrderInv
  <2>4. file'.wrev = status'.wrev
    BY <1>1, <1>5 DEF SettleInv, OrderInv
  <2> QED
    BY <1>1, <1>4, <1>5, <1>6, <1>7, <2>1, <2>2, <2>3, <2>4
    DEF SettleInv, OrderInv, StopDone, At, DevPlaces
<1>10. CalmInv'
  <2>1. ASSUME g.action = "stop", dev = "running"
        PROVE  status'.wphase = "failed"
    <3>1. pass.bad
      BY <1>1, <1>2, <2>1 DEF ReportInv, StoppedInv, At
    <3> QED
      BY <1>5, <3>1
  <2> QED
    BY <1>1, <1>4, <1>5, <1>6, <2>1 DEF SettleInv, CalmInv, At, ActivePlaces, Late
<1> QED
  BY <1>9, <1>10 DEF SettleInv

LEMMA CombineSettles ==
  ASSUME TypeOK, JournalInv, ReportInv, SettleInv, Combine
  PROVE  SettleInv'
<1>1. /\ At("combine") /\ UNCHANGED <<account, control, personal, mcp, mcpOld, dev, calm>>
      /\ pass'.pc = "idle" /\ pass'.then = "none" /\ ~pass'.resume
      /\ pass'.req = None /\ pass'.preq = None
  BY DEF Combine, NoPass, gateway, docker, history
<1>2. /\ file' = status' /\ status'.rev = status.rev /\ status'.phase = status.phase
      /\ status'.wrev = status.wrev /\ status'.wphase = status.wphase
  BY DEF Combine, Journaled, TypeOK, Statuses
<1>3. StopDone(status)' => StopDone(status)
  BY <1>1, <1>2 DEF StopDone, Asked, None
<1>4. OrderInv'
  BY <1>1, <1>2, <1>3 DEF SettleInv, OrderInv, StopDone, At, DevPlaces
<1>5. CalmInv'
  BY <1>1, <1>2 DEF SettleInv, CalmInv, At, ActivePlaces, Late
<1> QED
  BY <1>4, <1>5 DEF SettleInv

LEMMA StepSettle ==
  ASSUME TypeOK, JournalInv, ReportInv, SettleInv, [Next]_vars
  PROVE  SettleInv'
<1> USE DEF SettleInv
<1>1. CASE \/ \E action \in AdminActions : AdminRequest(action)
           \/ \E action \in LifecycleActions : PersonalRequest(action)
  BY <1>1, RequestSettles
<1>2. CASE SetStatus \/ UNCHANGED vars
  BY <1>2, NothingSettles
<1>3. CASE PassBegin \/ Crash
  BY <1>3, RestartSettles
<1>4. CASE UserBegin \/ Finish
  BY <1>4, UserBeginSettles, FinishSettles
<1>5. CASE DevBegin \/ DevDone \/ Combine
  BY <1>5, DevBeginSettles, DevDoneSettles, CombineSettles
<1>6. CASE Walks
  BY <1>6, WalkKeeps
<1>7. CASE Hold \/ Tidy \/ ApplyCommand \/ ApplyNothing \/ ApplyInPlace \/ ApplyReplace
  BY <1>6, <1>7, HoldWalks, TidyWalks, ApplyWalks
<1>8. CASE Replacing \/ Make \/ Boot
  BY <1>6, <1>8, ReplacingWalks, CreatingWalks
<1>9. CASE DevApply \/ DevStart \/ Syncing
  BY <1>6, <1>9, DevApplyWalks, SyncingWalks
<1> QED
  BY <1>1, <1>2, <1>3, <1>4, <1>5, <1>7, <1>8, <1>9 DEF Next, Reconcile, Replacing, Syncing

(* A pass that is not disturbed settles what it finds: a disabled account   *)
(* is left with nothing running but what a failed stop left, and no request *)
(* is left "applying" (reconcileUser and reconcileWorkspace of              *)
(* reconcile-user-runners.mjs).                                             *)
THEOREM CalmPassesSettle == Spec => []CalmPassSettles
<1>1. SettleInv => CalmPassSettles
  BY SettleSays
<1> QED
  BY <1>1, InitTyping, StepTyping, InitJournal, StepJournal, InitReport, StepReport,
     InitSettle, StepSettle, PTL DEF Spec

-----------------------------------------------------------------------------
(***************************************************************************)
(* Carried out again on the development container.  A request that was     *)
(* carried out there is the one journalled for it or is superseded: the    *)
(* pass that reads the stores now would not take it for the governing one, *)
(* and cannot unless the administrator's is the second after it, or later. *)
(***************************************************************************)
Superseded(r, c, p) ==
  \/ p.rev > r
  \/ c.rev > r /\ (p.rev = r => c.action \in LifecycleActions \/ c.rev > r + 1)

RepeatInv ==
  /\ \A s \in {status, file} : s.wrev # 0 =>
       /\ control.rev = s.wrev => control.action \in LifecycleActions
       /\ pass.req.rev = s.wrev => pass.req.action \in LifecycleActions
  /\ \A r \in Rev : sent["dev"][r] >= 1 =>
       /\ \A s \in {status, file} : r = s.wrev \/ Superseded(r, control, personal)
       /\ ~At("idle") => r = status.wrev \/ Superseded(r, pass.req, pass.preq)
       /\ At("devapply") /\ r = status.wrev => control.rev > r + 1
  /\ RepeatedAfterTwo

LEMMA InitRepeat == Init => RepeatInv
<1> SUFFICES ASSUME Init PROVE RepeatInv
  OBVIOUS
<1>1. \A r \in Rev : sent["dev"][r] = 0
  BY DEF Init
<1>2. status.wrev = 0 /\ file.wrev = 0
  BY DEF Init, NoStatus
<1> QED
  BY <1>1, <1>2 DEF RepeatInv, RepeatedAfterTwo

LEMMA TimesSent ==
  ASSUME TypeOK
  PROVE  \A r \in Rev : r \in Nat /\ r > 0 /\ sent["dev"][r] \in 0..2
<1>1. \A r \in Rev : r \in Nat /\ r > 0
  BY BoundsAssumption DEF Rev
<1>2. sent["dev"] \in [Rev -> 0..2]
  BY DEF TypeOK
<1> QED
  BY <1>1, <1>2

(* What the copies of the requests supersede, the stores do.                *)
LEMMA StoresSupersede ==
  ASSUME TypeOK, JournalInv, ReportInv, ~At("idle"), NEW r \in Nat,
         Superseded(r, pass.req, pass.preq)
  PROVE  Superseded(r, control, personal)
<1>1. /\ pass.req = control \/ (pass.req.rev < control.rev /\ pass.preq.rev < control.rev)
      /\ pass.preq = personal \/ (pass.req.rev < personal.rev /\ pass.preq.rev < personal.rev)
  BY DEF ReportInv, RequestsInv
<1> QED
  BY <1>1, RevsAreNumbers DEF Superseded

(* Most steps carry nothing out there, read no requests and journal none.   *)
Repeatless ==
  /\ UNCHANGED <<control, personal>> /\ sent'["dev"] = sent["dev"]
  /\ status'.wrev \in {status.wrev, file.wrev} /\ file'.wrev \in {status.wrev, file.wrev}
  /\ pass'.req \in {pass.req, None}
  /\ pass'.pc # "idle" => /\ pass.pc # "idle" /\ status'.wrev = status.wrev
                          /\ pass'.req = pass.req /\ pass'.preq = pass.preq
  /\ pass'.pc = "devapply" => pass.pc = "devapply"

LEMMA RepeatlessKeeps ==
  ASSUME RepeatInv, Repeatless
  PROVE  RepeatInv'
<1>1. UNCHANGED <<control, personal>> /\ sent'["dev"] = sent["dev"]
  BY DEF Repeatless
<1>2. \A s \in {status', file'} : \E t \in {status, file} : s.wrev = t.wrev
  BY DEF Repeatless
<1>3. \A s \in {status', file'} : s.wrev # 0 =>
        /\ control'.rev = s.wrev => control'.action \in LifecycleActions
        /\ pass'.req.rev = s.wrev => pass'.req.action \in LifecycleActions
  <2>1. None.rev = 0
    BY DEF None
  <2> QED
    BY <1>1, <1>2, <2>1 DEF RepeatInv, Repeatless
<1>4. ASSUME NEW r \in Rev, sent'["dev"][r] >= 1
      PROVE  /\ \A s \in {status', file'} : r = s.wrev \/ Superseded(r, control', personal')
             /\ pass'.pc # "idle" => r = status'.wrev \/ Superseded(r, pass'.req, pass'.preq)
             /\ pass'.pc = "devapply" /\ r = status'.wrev => control'.rev > r + 1
  <2>1. sent["dev"][r] >= 1
    BY <1>1, <1>4
  <2>2. /\ \A s \in {status, file} : r = s.wrev \/ Superseded(r, control, personal)
        /\ pass.pc # "idle" => r = status.wrev \/ Superseded(r, pass.req, pass.preq)
        /\ pass.pc = "devapply" /\ r = status.wrev => control.rev > r + 1
    BY <2>1 DEF RepeatInv, At
  <2> QED
    BY <1>1, <1>2, <2>2 DEF Repeatless
<1>5. RepeatedAfterTwo'
  BY <1>1 DEF RepeatInv, RepeatedAfterTwo
<1>6. \A r \in Rev : sent'["dev"][r] >= 1 =>
        /\ \A s \in {status', file'} : r = s.wrev \/ Superseded(r, control', personal')
        /\ pass'.pc # "idle" => r = status'.wrev \/ Superseded(r, pass'.req, pass'.preq)
        /\ pass'.pc = "devapply" /\ r = status'.wrev => control'.rev > r + 1
  BY <1>4
<1> QED
  BY <1>3, <1>5, <1>6 DEF RepeatInv, Superseded, At

(* A request is later than all that were carried out.                       *)
LEMMA RequestRepeats ==
  ASSUME TypeOK, JournalInv, ReportInv, RepeatInv,
         \/ \E action \in AdminActions : AdminRequest(action)
         \/ \E action \in LifecycleActions : PersonalRequest(action)
  PROVE  RepeatInv'
<1>1. PICK n : n = NextRev
  OBVIOUS
<1>2. n \in Nat /\ n > control.rev /\ n > personal.rev
  BY <1>1, RevsAreNumbers DEF NextRev
<1>3. UNCHANGED <<file, status, pass, sent>>
  BY DEF AdminRequest, PersonalRequest, journal, history
<1>4. \/ control'.rev = n /\ personal' = personal
      \/ personal'.rev = n /\ control' = control
  BY <1>1 DEF AdminRequest, PersonalRequest
<1>5. \A s \in {status, file} : s.wrev < n
  <2>1. ~At("idle") => pass.req.rev <= control.rev /\ pass.preq.rev <= personal.rev
    BY RevsAreNumbers DEF ReportInv, RequestsInv, JournalInv
  <2> QED
    BY <1>2, <2>1, RevsAreNumbers DEF ReportInv, RequestsInv
<1>6. \A s \in {status, file} : s.wrev # 0 =>
        /\ control'.rev = s.wrev => control'.action \in LifecycleActions
        /\ pass.req.rev = s.wrev => pass.req.action \in LifecycleActions
  BY <1>2, <1>4, <1>5, RevsAreNumbers DEF RepeatInv
<1>7. control'.rev >= control.rev /\ control'.rev \in Nat
  BY <1>2, <1>4, RevsAreNumbers
<1>8. ASSUME NEW r \in Rev, sent["dev"][r] >= 1
      PROVE  /\ \A s \in {status, file} : r = s.wrev \/ Superseded(r, control', personal')
             /\ ~At("idle") => r = status.wrev \/ Superseded(r, pass.req, pass.preq)
             /\ At("devapply") /\ r = status.wrev => control'.rev > r + 1
  <2>1. /\ \A s \in {status, file} : r = s.wrev \/ Superseded(r, control, personal)
        /\ ~At("idle") => r = status.wrev \/ Superseded(r, pass.req, pass.preq)
        /\ At("devapply") /\ r = status.wrev => control.rev > r + 1
    BY <1>8 DEF RepeatInv
  <2>2. r \in Nat
    BY TimesSent
  <2>3. Superseded(r, control, personal) => Superseded(r, control', personal')
    BY <1>2, <1>4, <2>2, RevsAreNumbers DEF Superseded
  <2> QED
    BY <1>7, <2>1, <2>2, <2>3, RevsAreNumbers
<1>9. ASSUME NEW r \in Rev, sent["dev"][r] > 1
      PROVE  control'.rev > r + 1
  <2>1. r \in Nat /\ control.rev > r + 1
    BY <1>9, TimesSent DEF RepeatInv, RepeatedAfterTwo
  <2> QED
    BY <1>7, <2>1, RevsAreNumbers
<1>10. RepeatedAfterTwo'
  BY <1>3, <1>9 DEF RepeatedAfterTwo
<1> QED
  BY <1>3, <1>6, <1>8, <1>10 DEF RepeatInv, Superseded, At

(* A pass takes the stores as they are.                                     *)
LEMMA BeginRepeats ==
  ASSUME RepeatInv, PassBegin
  PROVE  RepeatInv'
<1>1. /\ status' = file /\ UNCHANGED <<control, personal, file, sent>>
      /\ pass'.pc = "user" /\ pass'.req = control /\ pass'.preq = personal
  BY DEF PassBegin, NoPass, gateway
<1> QED
  BY <1>1 DEF RepeatInv, RepeatedAfterTwo, Superseded, At

(* The request journalled is carried out, for the second time at most.      *)
LEMMA DevApplyRepeats ==
  ASSUME TypeOK, OrderInv, RepeatInv, DevApply, pass'.pc # "devapply",
         pass'.req = pass.req, pass'.preq = pass.preq
  PROVE  RepeatInv'
<1>1. /\ pass.pc = "devapply" /\ UNCHANGED <<control, personal, file, status>>
      /\ Sent("dev", status.wrev)
  BY DEF DevApply, At, gateway, journal
<1>2. file.wrev = status.wrev
  BY <1>1 DEF OrderInv, At
<1>3. ASSUME NEW r \in Rev, sent'["dev"][r] # sent["dev"][r]
      PROVE  r = status.wrev /\ sent'["dev"][r] <= sent["dev"][r] + 1
  BY <1>1, <1>3, TimesSent DEF Sent, TypeOK
<1>4. ASSUME NEW r \in Rev, sent'["dev"][r] >= 1
      PROVE  /\ \A s \in {status, file} : r = s.wrev \/ Superseded(r, control, personal)
             /\ r = status.wrev \/ Superseded(r, pass.req, pass.preq)
  BY <1>1, <1>2, <1>3, <1>4 DEF RepeatInv, At
<1>5. ASSUME NEW r \in Rev, sent'["dev"][r] > 1
      PROVE  control.rev > r + 1
  <2>1. CASE sent'["dev"][r] = sent["dev"][r]
    BY <1>5, <2>1 DEF RepeatInv, RepeatedAfterTwo
  <2>2. CASE sent'["dev"][r] # sent["dev"][r]
    <3>1. r = status.wrev /\ sent'["dev"][r] <= sent["dev"][r] + 1
      BY <1>3, <2>2
    <3>2. sent'["dev"][r] \in 0..2
      <4>1. sent' \in [{"mcp", "dev"} -> [Rev -> 0..2]]
        BY <1>1, SentTyping
      <4> QED
        BY <4>1
    <3>3. sent["dev"][r] >= 1
      BY <1>5, <3>1, <3>2, TimesSent
    <3> QED
      BY <1>1, <3>1, <3>3 DEF RepeatInv, At
  <2> QED
    BY <2>1, <2>2
<1>6. RepeatedAfterTwo'
  BY <1>1, <1>5 DEF RepeatedAfterTwo
<1>7. \A s \in {status, file} : s.wrev # 0 =>
        /\ control.rev = s.wrev => control.action \in LifecycleActions
        /\ pass.req.rev = s.wrev => pass.req.action \in LifecycleActions
  BY DEF RepeatInv
<1> QED
  BY <1>1, <1>4, <1>6, <1>7 DEF RepeatInv, Superseded, At

(* A lifecycle request governs the development container when it has the    *)
(* governing revision; another action is the administrator's and does not.  *)
LEMMA GovernsOnce ==
  ASSUME TypeOK, JournalInv, ReportInv, OrderInv, ~At("idle"), Governing(pass) # None,
         NEW r \in {control, pass.req}, r.rev = Governing(pass).rev
  PROVE  r.action \in LifecycleActions
<1>1. r = Governing(pass)
  BY AskedAlike DEF Asked
<1>2. pass.req.rev # pass.preq.rev \/ (pass.req = None /\ pass.preq = None)
  BY DEF OrderInv
<1>3. /\ pass.req = control \/ (pass.req.rev < control.rev /\ pass.preq.rev < control.rev)
      /\ pass.preq = personal \/ (pass.req.rev < personal.rev /\ pass.preq.rev < personal.rev)
  BY DEF ReportInv, RequestsInv
<1>4. r = pass.req
  <2>1. SUFFICES ASSUME r # pass.req PROVE FALSE
    OBVIOUS
  <2>2. r = control /\ r = pass.preq
    BY <1>1, <2>1, GoverningRev
  <2> QED
    BY <1>1, <1>2, <1>3, <2>1, <2>2, RevsAreNumbers
<1>5. r # pass.preq
  BY <1>1, <1>2, <1>4
<1> QED
  BY <1>1, <1>4, <1>5 DEF Governing, WorkspaceLifecycleControl

(* The request journalled is superseded by the copies that another governs. *)
LEMMA JournalledIsSuperseded ==
  ASSUME TypeOK, JournalInv, ReportInv, OrderInv, RepeatInv, ~At("idle"), status.wrev # 0,
         Governing(pass) # None, Governing(pass).rev # status.wrev
  PROVE  Superseded(status.wrev, pass.req, pass.preq)
<1>1. PICK w, req, preq : w = status.wrev /\ req = pass.req /\ preq = pass.preq
  OBVIOUS
<1>2. /\ w \in Nat /\ w # 0 /\ req.rev \in Nat /\ preq.rev \in Nat
      /\ w <= req.rev \/ w <= preq.rev
  BY <1>1, RevsAreNumbers DEF ReportInv, RequestsInv
<1>3. req.rev = w => req.action \in LifecycleActions
  BY <1>1, <1>2 DEF RepeatInv
<1>4. req.rev # preq.rev \/ (req = None /\ preq = None)
  BY <1>1 DEF OrderInv
<1>5. (IF req.action \notin LifecycleActions \/ preq.rev > req.rev THEN preq ELSE req).rev # w
  BY <1>1 DEF Governing, WorkspaceLifecycleControl
<1>6. CASE w < preq.rev
  BY <1>1, <1>6 DEF Superseded
<1>7. CASE w = preq.rev
  <2>1. req.action \in LifecycleActions /\ ~(preq.rev > req.rev)
    BY <1>5, <1>7
  <2>2. req.rev # preq.rev
    BY <1>2, <1>4, <1>7 DEF None
  <2>3. req.rev > w
    BY <1>2, <1>7, <2>1, <2>2
  <2> QED
    BY <1>1, <2>1, <2>3 DEF Superseded
<1>8. CASE w > preq.rev
  <2>1. req.rev # w
    BY <1>2, <1>3, <1>5, <1>8
  <2> QED
    BY <1>1, <1>2, <1>8, <2>1 DEF Superseded
<1> QED
  BY <1>2, <1>6, <1>7, <1>8

(* A superseded request can only govern when it is the owner's, and the     *)
(* administrator's that the pass read is the second after it, or later.     *)
LEMMA GovernsAgain ==
  ASSUME TypeOK, JournalInv, ReportInv, OrderInv, ~At("idle"), Governing(pass) # None,
         NEW r \in Nat, r = Governing(pass).rev, Superseded(r, pass.req, pass.preq)
  PROVE  control.rev > r + 1
<1>1. PICK req, preq : req = pass.req /\ preq = pass.preq
  OBVIOUS
<1>2. req.rev \in Nat /\ preq.rev \in Nat /\ req.rev <= control.rev
  BY <1>1, RevsAreNumbers DEF JournalInv
<1>3. r = (IF req.action \notin LifecycleActions \/ preq.rev > req.rev THEN preq ELSE req).rev
  BY <1>1 DEF Governing, WorkspaceLifecycleControl
<1>4. \/ preq.rev > r
      \/ req.rev > r /\ (preq.rev = r => req.action \in LifecycleActions \/ req.rev > r + 1)
  BY <1>1 DEF Superseded
<1>5. req.rev > r + 1
  BY <1>2, <1>3, <1>4
<1> QED
  BY <1>2, <1>5, RevsAreNumbers

LEMMA DevBeginRepeats ==
  ASSUME TypeOK, JournalInv, ReportInv, OrderInv, RepeatInv, DevBegin, ~Repeatless
  PROVE  RepeatInv'
<1>1. /\ pass.pc = "dev" /\ ~At("idle") /\ ~At("combine")
      /\ UNCHANGED <<control, personal, sent>>
  BY DEF DevBegin, At, gateway
<1>2. PICK g : g = Governing(pass)
  OBVIOUS
<1>3. WorkspaceRequest = g
  BY <1>2 DEF WorkspaceRequest, Governing
<1>4. file.wrev = status.wrev
  BY <1>1 DEF OrderInv
<1>5. ASSUME pass'.pc # "idle", pass'.req = pass.req, pass'.preq = pass.preq,
             pass'.pc # "devapply", status'.wrev = status.wrev, file' = file
      PROVE  FALSE
  BY <1>1, <1>5 DEF Repeatless
<1>6. /\ pass'.req = pass.req /\ pass'.preq = pass.preq /\ status'.wrev = g.rev
      /\ g # None
      /\ \/ pass'.pc = "combine" /\ file' = file
         \/ pass'.pc = "devapply" /\ file' = status' /\ status.wrev # g.rev
  <2>1. CASE /\ OfRunner /\ pass' = [pass EXCEPT !.pc = "combine"] /\ file' = file
             /\ status' \in {status, [status EXCEPT !.wrev = g.rev, !.wphase = "failed"]}
    <3>1. pass'.req = pass.req /\ pass'.preq = pass.preq /\ pass'.pc = "combine"
      BY <2>1 DEF TypeOK, Passes
    <3>2. status' # status
      BY <1>5, <2>1, <3>1
    <3>3. status'.wrev = g.rev
      BY <2>1, <3>2 DEF TypeOK, Statuses
    <3>4. g # None
      <4>1. pass.req # None /\ g.rev = pass.req.rev
        BY <1>3, <2>1 DEF OfRunner
      <4>2. pass.req \in Request
        BY DEF TypeOK, Passes
      <4> QED
        BY <4>1, <4>2, RequestRev DEF None, Rev
    <3> QED
      BY <2>1, <3>1, <3>3, <3>4
  <2>2. CASE /\ g # None /\ status.wrev # g.rev
             /\ Journaled([status EXCEPT !.wrev = g.rev, !.wphase = "applying"])
             /\ pass' = [pass EXCEPT !.pc = "devapply", !.user = account, !.then = "devdone"]
    <3>1. pass'.req = pass.req /\ pass'.preq = pass.preq /\ pass'.pc = "devapply"
      BY <2>2 DEF TypeOK, Passes
    <3>2. file' = status' /\ status'.wrev = g.rev
      BY <2>2 DEF Journaled, TypeOK, Statuses
    <3> QED
      BY <2>2, <3>1, <3>2
  <2>3. CASE /\ pass' = Settled /\ file' = file
             /\ status' = IF status.wphase = "applying"
                          THEN [status EXCEPT !.wphase = "failed"] ELSE status
    <3>1. pass'.req = pass.req /\ pass'.preq = pass.preq /\ pass'.pc \in {"combine", "sync"}
      BY <2>3, SettledTo DEF Settled, TypeOK, Passes
    <3>2. status'.wrev = status.wrev
      BY <2>3 DEF TypeOK, Statuses
    <3> QED
      BY <1>5, <2>3, <3>1, <3>2
  <2> QED
    BY <1>3, <2>1, <2>2, <2>3 DEF DevBegin
<1>7. g.rev \in Nat /\ g.rev # 0
  <2>1. g \in Request
    BY <1>2, GoverningRev DEF TypeOK, Passes
  <2> QED
    BY <1>6, <2>1, RequestRev, TimesSent
<1>8. \A s \in {status', file'} : s.wrev # 0 =>
        /\ control.rev = s.wrev => control.action \in LifecycleActions
        /\ pass.req.rev = s.wrev => pass.req.action \in LifecycleActions
  <2>1. /\ control.rev = g.rev => control.action \in LifecycleActions
        /\ pass.req.rev = g.rev => pass.req.action \in LifecycleActions
    BY <1>1, <1>2, <1>6, GovernsOnce
  <2> QED
    BY <1>6, <2>1 DEF RepeatInv
<1>9. ASSUME NEW r \in Rev, sent["dev"][r] >= 1, r # g.rev \/ status.wrev # g.rev
      PROVE  Superseded(r, pass.req, pass.preq)
  <2>1. r = status.wrev \/ Superseded(r, pass.req, pass.preq)
    BY <1>1, <1>9 DEF RepeatInv
  <2>2. ASSUME r = status.wrev PROVE Superseded(r, pass.req, pass.preq)
    <3>1. r # 0
      BY TimesSent
    <3> QED
      BY <1>1, <1>2, <1>6, <1>9, <2>2, <3>1, JournalledIsSuperseded
  <2> QED
    BY <2>1, <2>2
<1>10. ASSUME NEW r \in Rev, sent["dev"][r] >= 1
       PROVE  /\ \A s \in {status', file'} : r = s.wrev \/ Superseded(r, control, personal)
              /\ r = status'.wrev \/ Superseded(r, pass.req, pass.preq)
              /\ pass'.pc = "devapply" /\ r = status'.wrev => control.rev > r + 1
  <2>1. r \in Nat
    BY TimesSent
  <2>2. r = g.rev \/ Superseded(r, pass.req, pass.preq)
    BY <1>9, <1>10
  <2>3. r = g.rev \/ Superseded(r, control, personal)
    BY <1>1, <2>1, <2>2, StoresSupersede
  <2>4. r = file.wrev \/ Superseded(r, control, personal)
    BY <1>10 DEF RepeatInv
  <2>5. pass'.pc = "devapply" /\ r = g.rev => control.rev > r + 1
    <3>1. SUFFICES ASSUME pass'.pc = "devapply", r = g.rev PROVE control.rev > r + 1
      OBVIOUS
    <3>2. Superseded(r, pass.req, pass.preq)
      BY <1>6, <1>9, <1>10, <3>1
    <3> QED
      BY <1>1, <1>2, <1>6, <2>1, <3>1, <3>2, GovernsAgain
  <2> QED
    BY <1>6, <2>2, <2>3, <2>4, <2>5
<1>11. RepeatedAfterTwo'
  BY <1>1 DEF RepeatInv, RepeatedAfterTwo
<1>12. pass'.pc # "idle"
  BY <1>6
<1> QED
  BY <1>1, <1>6, <1>8, <1>10, <1>11 DEF RepeatInv, Superseded, At

(* The other steps.                                                         *)
LEMMA SentElsewhere ==
  ASSUME TypeOK,
         \/ Hold \/ Tidy \/ ApplyCommand \/ ApplyNothing \/ ApplyInPlace \/ ApplyReplace
         \/ Replacing \/ Make \/ Boot \/ DevStart \/ Syncing
  PROVE  sent'["dev"] = sent["dev"]
<1>1. CASE ApplyCommand \/ ApplyNothing \/ ApplyInPlace \/ ApplyReplace
  <2>1. Sent("mcp", pass.req.rev)
    BY <1>1 DEF ApplyCommand, ApplyNothing, ApplyInPlace, ApplyReplace, Dispatch
  <2> QED
    BY <2>1 DEF Sent, TypeOK
<1>2. CASE Hold \/ Tidy \/ Make \/ Boot \/ DevStart
  BY <1>2 DEF Hold, Tidy, Make, Boot, DevStart
<1>3. CASE Replacing
  BY <1>3 DEF Replacing, Rename, Provision, Start, Rollback, Restore, Revive, Drop, history
<1>4. CASE Syncing
  BY <1>4 DEF Syncing, Sync, DevRename, DevMake, DevBoot, DevBack, DevDrop
<1> QED
  BY <1>1, <1>2, <1>3, <1>4

LEMMA WalkRepeats ==
  ASSUME RepeatInv, Walks, sent'["dev"] = sent["dev"]
  PROVE  RepeatInv'
<1>1. Repeatless
  BY DEF Walks, Steered, Repeatless
<1> QED
  BY <1>1, RepeatlessKeeps

LEMMA BooksRepeat ==
  ASSUME TypeOK, JournalInv, RepeatInv, UserBegin \/ Finish \/ DevDone
  PROVE  RepeatInv'
<1>1. UNCHANGED <<control, personal, sent>> /\ pass.pc # "idle"
  BY DEF UserBegin, Finish, DevDone, gateway, At
<1>2. pass \in Passes /\ status \in Statuses
  BY DEF TypeOK
<1>3. /\ pass'.req = pass.req /\ pass'.preq = pass.preq
      /\ pass'.pc \notin {"idle", "devapply"}
      /\ status'.wrev = status.wrev /\ file'.wrev \in {status.wrev, file.wrev}
  <2>1. CASE UserBegin
    <3>1. /\ pass'.req = pass.req /\ pass'.preq = pass.preq
          /\ pass'.pc \notin {"idle", "devapply"}
      <4>1. \/ pass' = [pass EXCEPT !.pc = "dev", !.user = account]
            \/ pass' = [pass EXCEPT !.pc = "hold", !.user = account, !.then = "finish"]
            \/ pass' = [pass EXCEPT !.pc = "tidy", !.user = account]
        BY <2>1 DEF UserBegin
      <4> QED
        BY <1>2, <4>1 DEF Passes
    <3>2. \/ UNCHANGED <<file, status>>
          \/ Journaled([status EXCEPT !.rev = pass.req.rev, !.phase = "applying",
                                      !.runtime = "applying"])
          \/ status' = [status EXCEPT !.phase = "failed"] /\ file' = file
      BY <2>1 DEF UserBegin
    <3>3. status'.wrev = status.wrev /\ file'.wrev \in {status.wrev, file.wrev}
      BY <1>2, <3>2 DEF Statuses, Journaled
    <3> QED
      BY <3>1, <3>3
  <2>2. CASE Finish
    <3>1. \/ pass' = [pass EXCEPT !.pc = "sync", !.then = "resume"]
          \/ pass' = [pass EXCEPT !.pc = "tidy", !.then = "none", !.bad = FALSE]
      BY <2>2 DEF Finish
    <3>2. /\ pass'.req = pass.req /\ pass'.preq = pass.preq
          /\ pass'.pc \notin {"idle", "devapply"}
      BY <1>2, <3>1 DEF Passes
    <3>3. status'.wrev = status.wrev /\ file' = file
      BY <1>2, <2>2 DEF Finish, Statuses
    <3> QED
      BY <3>2, <3>3
  <2>3. CASE DevDone
    <3>1. pass' = [Settled EXCEPT !.user = pass.user] /\ Settled \in Passes
          /\ Settled.req = pass.req /\ Settled.pc \in {"combine", "sync"}
      BY <2>3, SettledTo DEF DevDone
    <3>2. Settled.preq = pass.preq
      <4>1. PICK pc : pc = IF WorkspaceRequest.action = "stop" THEN "combine" ELSE "sync"
        OBVIOUS
      <4>2. Settled = [pass EXCEPT !.bad = FALSE, !.user = account, !.pc = pc,
                                   !.then = "combine"]
        BY <4>1 DEF Settled
      <4> QED
        BY <1>2, <4>2 DEF Passes
    <3>3. /\ pass'.req = pass.req /\ pass'.preq = pass.preq
          /\ pass'.pc \notin {"idle", "devapply"}
      BY <3>1, <3>2 DEF Passes
    <3>4. status'.wrev = status.wrev /\ file' = file
      BY <1>2, <2>3 DEF DevDone, Statuses
    <3> QED
      BY <3>3, <3>4
  <2> QED
    BY <2>1, <2>2, <2>3
<1> QED
  BY <1>1, <1>3, RepeatlessKeeps DEF Repeatless

LEMMA EndRepeats ==
  ASSUME TypeOK, RepeatInv, Combine \/ Crash \/ SetStatus \/ UNCHANGED vars
  PROVE  RepeatInv'
<1>1. CASE Combine
  <2>1. /\ UNCHANGED <<control, personal, sent>> /\ pass'.pc = "idle" /\ pass'.req = None
    BY <1>1 DEF Combine, NoPass, gateway, history
  <2>2. status'.wrev = status.wrev /\ file' = status'
    BY <1>1 DEF Combine, Journaled, TypeOK, Statuses
  <2> QED
    BY <2>1, <2>2, RepeatlessKeeps DEF Repeatless
<1>2. CASE Crash
  <2>1. /\ UNCHANGED <<control, personal, sent, file>> /\ pass'.pc = "idle" /\ pass'.req = None
        /\ status' = file
    BY <1>2 DEF Crash, NoPass, gateway
  <2> QED
    BY <2>1, RepeatlessKeeps DEF Repeatless
<1>3. CASE SetStatus \/ UNCHANGED vars
  <2>1. UNCHANGED <<control, personal, sent, file, status, pass>>
    BY <1>3 DEF SetStatus, vars, gateway, journal, history
  <2> QED
    BY <2>1, RepeatlessKeeps DEF Repeatless
<1> QED
  BY <1>1, <1>2, <1>3

LEMMA StepRepeat ==
  ASSUME TypeOK, JournalInv, ReportInv, SettleInv, RepeatInv, [Next]_vars
  PROVE  RepeatInv'
<1> OrderInv /\ CalmInv
  BY DEF SettleInv
<1>1. CASE \/ \E action \in AdminActions : AdminRequest(action)
           \/ \E action \in LifecycleActions : PersonalRequest(action)
  BY <1>1, RequestRepeats
<1>2. CASE PassBegin
  BY <1>2, BeginRepeats
<1>3. CASE Combine \/ Crash \/ SetStatus \/ UNCHANGED vars
  BY <1>3, EndRepeats
<1>4. CASE UserBegin \/ Finish \/ DevDone
  BY <1>4, BooksRepeat
<1>5. CASE DevBegin
  BY <1>5, DevBeginRepeats, RepeatlessKeeps
<1>6. CASE DevApply
  <2>1. Walks
    BY <1>6, DevApplyWalks
  <2> QED
    BY <1>6, <2>1, DevApplyRepeats DEF Walks, Steered
<1>7. CASE Hold \/ Tidy \/ ApplyCommand \/ ApplyNothing \/ ApplyInPlace \/ ApplyReplace
  BY <1>7, HoldWalks, TidyWalks, ApplyWalks, SentElsewhere, WalkRepeats
<1>8. CASE Replacing \/ Make \/ Boot
  BY <1>8, ReplacingWalks, CreatingWalks, SentElsewhere, WalkRepeats
<1>9. CASE DevStart \/ Syncing
  BY <1>9, DevApplyWalks, SyncingWalks, SentElsewhere, WalkRepeats
<1> QED
  BY <1>1, <1>2, <1>3, <1>4, <1>5, <1>6, <1>7, <1>8, <1>9
  DEF Next, Reconcile, Replacing, Syncing

(* A request is carried out on the development container a second time only *)
(* after two later ones, the last of them the administrator's (the revision *)
(* that reconcileWorkspace compares and journals is that of the last        *)
(* governing request only).                                                 *)
THEOREM RepeatsAreTwoLater == Spec => []RepeatedAfterTwo
<1>1. RepeatInv => RepeatedAfterTwo
  BY DEF RepeatInv
<1> QED
  BY <1>1, InitTyping, StepTyping, InitJournal, StepJournal, InitReport, StepReport,
     InitSettle, StepSettle, InitRepeat, StepRepeat, PTL DEF Spec
=============================================================================
