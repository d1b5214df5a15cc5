---------------------------- MODULE Provisioner ----------------------------
(***************************************************************************)
(* The provisioner of one account: the reconciliation pass of              *)
(* scripts/reconcile-user-runners.mjs over the account's two containers,   *)
(* the MCP runner ("mcp") and the development container ("dev"), with the  *)
(* Docker operations of runner-operations.mjs and workspace-operations.mjs *)
(* it performs.                                                            *)
(*                                                                         *)
(* The gateway writes requests (runner-controls.json and                   *)
(* workspace-controls.json) and the account's status while a pass runs; a  *)
(* pass reads the requests once, journals in status.json before it acts,   *)
(* and is a sequence of Docker commands.  A command may fail, having had   *)
(* its effect or not, and the process may crash between any two of them;   *)
(* containers and files survive a crash.                                   *)
(*                                                                         *)
(* Revisions are numbers in the order of "requestedAt".  An account is     *)
(* already split (runtime label "split") and keeps its name, so that       *)
(* splitRuntime and migrateNames only do what they do for such an account. *)
(***************************************************************************)
EXTENDS Integers, FiniteSets

CONSTANTS
    MaxRev,      \* requests the gateway accepts
    MaxFails,    \* Docker commands that fail
    MaxCrashes,  \* crashes of the provisioner
    MaxToggles   \* changes of the account's status

ASSUME BoundsAssumption ==
    /\ MaxRev \in Nat \ {0}
    /\ MaxFails \in Nat
    /\ MaxCrashes \in Nat
    /\ MaxToggles \in Nat

VARIABLES
    account,   \* users.json: the account's status
    control,   \* runner-controls.json: the administrator's last request
    personal,  \* workspace-controls.json: the owner's last request
    file,      \* status.json
    status,    \* the pass's copy of status.json
    pass,      \* the pass's place and local variables
    mcp,       \* the MCP container
    mcpOld,    \* the container "<name>-previous" beside it
    dev,       \* the development container
    devOld,    \* whether the development container's "-previous" exists
    stale,     \* whether dev was made from an older MCP container
    sent,      \* history: how often a request was carried out, per container
    done,      \* history: requests carried out to the end, per container
    calm,      \* history: no command failed and the account did not change
    fails, crashes, toggles

gateway == <<account, control, personal>>
journal == <<file, status>>
docker  == <<mcp, mcpOld, dev, devOld, stale>>
history == <<sent, done, calm>>
vars    == <<gateway, journal, pass, docker, history, fails, crashes, toggles>>

Rev == 1..MaxRev

LifecycleActions == {"create", "start", "stop", "restart"}
AdminActions     == LifecycleActions \cup {"apply", "workspace"}

None    == [rev |-> 0, action |-> "none"]
Request == [rev : Rev, action : AdminActions] \cup {None}

Phases == {"none", "applying", "applied", "failed"}

\* "kept" is a created container labelled dev-mcp.keep-stopped.
Present    == {"created", "kept", "running", "exited"}
Containers == Present \cup {"absent"}

Stopped(c) == IF c = "running" THEN "exited" ELSE c

\* A replaced container, and whether dev was stale beside it.
NoOld == [state |-> "absent", stale |-> FALSE]

NoStatus == [rev |-> 0, phase |-> "none", runtime |-> "none",
             wrev |-> 0, wphase |-> "none"]

\* The local variables of a pass: the requests it read, the account it read
\* last, whether it holds the development container stopped (resume), whether
\* the operation failed (bad), whether a replaced container ran (up), whether
\* the container made is a replacement (swap), and what follows (then).
NoPass == [pc |-> "idle", req |-> None, preq |-> None, user |-> "active",
           resume |-> FALSE, bad |-> FALSE, up |-> FALSE, swap |-> FALSE,
           then |-> "none"]

At(pc)   == pass.pc = pc
Goto(pc) == pass' = [pass EXCEPT !.pc = pc]

Active == pass.user = "active"

-----------------------------------------------------------------------------
(***************************************************************************)
(* Docker commands.  With ok the command turned "old" into "new"; without, *)
(* it threw, and it may or may not have.                                   *)
(***************************************************************************)
Outcomes == IF fails < MaxFails THEN BOOLEAN ELSE {TRUE}

Becomes(ok, old, new) == IF ok THEN {new} ELSE {old, new}

Ran(ok) ==
    /\ fails' = fails + (IF ok THEN 0 ELSE 1)
    /\ calm'  = (calm /\ ok)

\* What a throw out of the operation in progress reaches: the finally and the
\* catch of the runner's request, those of the development container's, the
\* catch of the user's entry, or that of the workspace.
Thrown ==
    CASE pass.then = "finish"  -> [pass EXCEPT !.pc = "finish", !.bad = TRUE]
      [] pass.then = "resume"  -> [pass EXCEPT !.pc = "finish", !.bad = TRUE,
                                               !.resume = FALSE]
      [] pass.then = "devdone" -> [pass EXCEPT !.pc = "devdone", !.bad = TRUE]
      [] pass.then = "combine" -> [pass EXCEPT !.pc = "combine"]
      [] OTHER                 -> [pass EXCEPT !.pc = "dev"]

Sent(c, rev) == sent' = [sent EXCEPT ![c][rev] = IF @ = 2 THEN 2 ELSE @ + 1]

-----------------------------------------------------------------------------
(***************************************************************************)
(* The gateway: RunnerControlStore.request, WorkspaceControlStore.request  *)
(* and the account's status.                                               *)
(***************************************************************************)
NextRev == (IF control.rev > personal.rev THEN control.rev ELSE personal.rev) + 1

AdminRequest(action) ==
    /\ NextRev \in Rev
    /\ action \in {"create", "start", "restart", "workspace"} => account = "active"
    /\ control' = [rev |-> NextRev, action |-> action]
    /\ UNCHANGED <<account, personal, journal, pass, docker, history,
                   fails, crashes, toggles>>

PersonalRequest(action) ==
    /\ NextRev \in Rev
    /\ account = "active"
    /\ personal' = [rev |-> NextRev, action |-> action]
    /\ UNCHANGED <<account, control, journal, pass, docker, history,
                   fails, crashes, toggles>>

SetStatus ==
    /\ toggles < MaxToggles
    /\ toggles' = toggles + 1
    /\ account' = IF account = "active" THEN "disabled" ELSE "active"
    /\ calm' = FALSE
    /\ UNCHANGED <<control, personal, journal, pass, docker, sent, done,
                   fails, crashes>>

-----------------------------------------------------------------------------
(***************************************************************************)
(* The runner's half of a pass.                                            *)
(***************************************************************************)
PassBegin ==
    /\ At("idle")
    /\ status' = file
    /\ pass' = [NoPass EXCEPT !.pc = "user", !.req = control, !.preq = personal]
    /\ calm' = TRUE
    /\ UNCHANGED <<gateway, file, docker, sent, done, fails, crashes, toggles>>

\* A journal entry: in memory and in status.json.
JournaledInMemory(s) == status' = s /\ UNCHANGED file

Journaled(s) == status' = s /\ file' = s

\* migrateNames: a container already at its name is left alone; a missing one
\* beside its "-previous" is an error, and a missing one alone is not.
NamesRefused == mcp = "absent" /\ mcpOld # NoOld

\* The user's status is read again; then the name check, then the journal.  A
\* request not in the journal is written there before it is carried out; one
\* found there "applying" was interrupted and is failed, never replayed.
UserBegin ==
    /\ At("user")
    /\ \E ok \in Outcomes :
        /\ Ran(ok)
        /\ \/ /\ ~ok \/ NamesRefused
              /\ pass' = [pass EXCEPT !.pc = "dev", !.user = account]
              /\ UNCHANGED <<file, status>>
           \/ /\ ok /\ ~NamesRefused
              /\ pass.req # None /\ status.rev # pass.req.rev
              /\ Journaled([status EXCEPT !.rev = pass.req.rev,
                                          !.phase = "applying",
                                          !.runtime = "applying"])
              /\ pass' = [pass EXCEPT !.pc = "hold", !.user = account,
                                      !.then = "finish"]
           \/ /\ ok /\ ~NamesRefused
              /\ pass.req = None \/ status.rev = pass.req.rev
              /\ status' = IF pass.req # None /\ status.phase = "applying"
                           THEN [status EXCEPT !.phase = "failed"] ELSE status
              /\ pass' = [pass EXCEPT !.pc = "tidy", !.user = account]
              /\ UNCHANGED file
    /\ UNCHANGED <<gateway, docker, sent, done, crashes, toggles>>

\* beforeRunnerOperation: a request that may touch the storage stops the
\* development container first.  Whether it may is the request's data.
Hold ==
    /\ At("hold")
    /\ \/ /\ Goto("mcp")
          /\ UNCHANGED <<dev, fails, calm>>
       \/ /\ pass.req.action \in {"create", "apply", "workspace"}
          /\ dev = "running"
          /\ \E ok \in Outcomes :
              /\ Ran(ok)
              /\ dev' \in Becomes(ok, dev, "exited")
              /\ pass' = IF ok THEN [pass EXCEPT !.pc = "mcp", !.resume = TRUE]
                         ELSE Thrown
    /\ UNCHANGED <<gateway, journal, mcp, mcpOld, devOld, stale, sent, done,
                   crashes, toggles>>

Dispatch ==
    /\ At("mcp")
    /\ Sent("mcp", pass.req.rev)
    /\ UNCHANGED <<gateway, journal, dev, devOld, done, crashes, toggles>>

\* One command that settles the request: stop, start, restart.
ApplyCommand ==
    /\ Dispatch
    /\ mcp # "absent"
    /\ \/ pass.req.action = "stop"
       \/ pass.req.action \in {"start", "restart"} /\ Active
    /\ \E ok \in Outcomes :
        /\ Ran(ok)
        /\ mcp' \in Becomes(ok, mcp, IF pass.req.action = "stop"
                                     THEN Stopped(mcp) ELSE "running")
        /\ pass' = IF ok THEN [pass EXCEPT !.pc = "finish"] ELSE Thrown
    /\ UNCHANGED <<mcpOld, stale>>

\* What needs no command, what is refused, and what has no container.
ApplyNothing ==
    /\ Dispatch
    /\ LET starting == pass.req.action \in {"create", "start", "restart"}
       IN \/ /\ starting /\ ~Active
             /\ pass' = Thrown
          \/ /\ pass.req.action = "create" /\ Active /\ mcp # "absent"
             /\ Goto("finish")
          \/ /\ starting /\ Active /\ mcp = "absent"
             /\ Goto("make")
          \/ /\ pass.req.action = "stop" /\ mcp = "absent"
             /\ Goto("finish")
          \/ /\ pass.req.action \in {"apply", "workspace"}
             /\ mcp = "absent" \/ mcpOld # NoOld
             /\ pass' = Thrown
    /\ UNCHANGED <<mcp, mcpOld, stale, calm, fails>>

\* New limits in place: docker update and the networks; a changed storage
\* limit stops the container around the change.
ApplyInPlace ==
    /\ Dispatch
    /\ pass.req.action = "apply" /\ mcp # "absent"
    /\ \E ok \in Outcomes, storage \in BOOLEAN :
        /\ Ran(ok)
        /\ IF storage /\ mcp = "running"
           THEN /\ mcp' \in Becomes(ok, mcp, "exited")
                /\ pass' = IF ok THEN [pass EXCEPT !.pc = "again"] ELSE Thrown
           ELSE /\ mcp' = mcp
                /\ pass' = IF ok THEN [pass EXCEPT !.pc = "finish"] ELSE Thrown
    /\ UNCHANGED <<mcpOld, stale>>

\* New limits that need a new container, and the move to a host directory.
ApplyReplace ==
    /\ Dispatch
    /\ pass.req.action \in {"apply", "workspace"}
    /\ mcp # "absent" /\ mcpOld = NoOld
    /\ \E ok \in Outcomes :
        /\ Ran(ok)
        /\ mcp' \in IF mcp = "running" THEN Becomes(ok, mcp, "exited") ELSE {mcp}
        /\ pass' = [(IF ok THEN [pass EXCEPT !.pc = "rename"]
                     ELSE IF pass.req.action = "workspace"
                     THEN [pass EXCEPT !.pc = "revive"] ELSE Thrown)
                    EXCEPT !.up = (mcp = "running")]
    /\ UNCHANGED <<mcpOld, stale>>

-----------------------------------------------------------------------------
(***************************************************************************)
(* The steps of a replacement, after the old container was stopped.  The   *)
(* old container keeps its name with "-previous" until the new one exists. *)
(***************************************************************************)
MovesWorkspace == pass.req.action = "workspace"

Dropped  == NoOld

SetAside == [state |-> mcp, stale |-> stale]

Rename ==
    /\ At("rename")
    /\ \E ok \in Outcomes, renamed \in BOOLEAN :
        /\ ok => renamed
        /\ Ran(ok)
        /\ IF renamed
           THEN mcpOld' = SetAside /\ mcp' = "absent"
           ELSE UNCHANGED <<mcp, mcpOld>>
        /\ pass' = IF ok THEN [pass EXCEPT !.pc = "provision"]
                   ELSE IF MovesWorkspace THEN [pass EXCEPT !.pc = "revive"]
                   ELSE Thrown
    /\ UNCHANGED <<gateway, journal, dev, devOld, stale, sent, done,
                   crashes, toggles>>

Provision ==
    /\ At("provision")
    /\ \E ok \in Outcomes :
        /\ Ran(ok)
        /\ mcp' \in Becomes(ok, mcp, IF pass.up THEN "created" ELSE "kept")
        /\ Goto(IF ~ok THEN "rollback" ELSE IF pass.up THEN "start" ELSE "drop")
    /\ stale' = (dev # "absent")
    /\ UNCHANGED <<gateway, journal, mcpOld, dev, devOld, sent, done,
                   crashes, toggles>>

\* A replacement for new limits is rolled back when it does not start; one
\* for a moved workspace is not.  "again" is the start after a storage limit
\* changed in place.
Start ==
    /\ At("start") \/ At("again")
    /\ \E ok \in Outcomes :
        /\ Ran(ok)
        /\ mcp' \in Becomes(ok, mcp, "running")
        /\ pass' = IF ok THEN [pass EXCEPT !.pc = IF At("again") THEN "finish" ELSE "drop"]
                   ELSE IF At("start") /\ ~MovesWorkspace
                   THEN [pass EXCEPT !.pc = "rollback"]
                   ELSE Thrown
    /\ UNCHANGED <<gateway, journal, mcpOld, dev, devOld, stale, sent, done,
                   crashes, toggles>>

Rollback ==
    /\ At("rollback")
    /\ \E ok \in Outcomes :
        /\ Ran(ok)
        /\ mcp' \in Becomes(ok, mcp, "absent")
        /\ pass' = IF ok THEN [pass EXCEPT !.pc = "restore"] ELSE Thrown
    /\ UNCHANGED <<gateway, journal, mcpOld, dev, devOld, stale, sent, done,
                   crashes, toggles>>

Restore ==
    /\ At("restore")
    /\ \E ok \in Outcomes, renamed \in BOOLEAN :
        /\ ok => renamed
        /\ Ran(ok)
        /\ IF renamed
           THEN mcp' = mcpOld.state /\ stale' = mcpOld.stale /\ mcpOld' = NoOld
           ELSE UNCHANGED <<mcp, mcpOld, stale>>
        /\ pass' = IF ok /\ MovesWorkspace THEN [pass EXCEPT !.pc = "revive"]
                   ELSE Thrown
    /\ UNCHANGED <<gateway, journal, dev, devOld, sent, done, crashes, toggles>>

\* A failed move starts the old container again and ignores an error of that.
Revive ==
    /\ At("revive")
    /\ mcp' \in IF pass.up /\ mcp # "absent"
                THEN Becomes(fails = MaxFails, mcp, "running") ELSE {mcp}
    /\ pass' = Thrown
    /\ UNCHANGED <<gateway, journal, mcpOld, dev, devOld, stale, history,
                   fails, crashes, toggles>>

Drop ==
    /\ At("drop")
    /\ \E ok \in Outcomes :
        /\ Ran(ok)
        /\ mcpOld' \in Becomes(ok, mcpOld, NoOld)
        /\ pass' = IF ok THEN [pass EXCEPT !.pc = "finish"] ELSE Thrown
    /\ UNCHANGED <<gateway, journal, mcp, dev, devOld, stale, sent, done,
                   crashes, toggles>>

-----------------------------------------------------------------------------
(***************************************************************************)
(* create(), for a request and for the automatic creation.                 *)
(***************************************************************************)
Make ==
    /\ At("make")
    /\ \/ /\ NamesRefused
          /\ pass' = Thrown
          /\ UNCHANGED <<mcp, fails, calm>>
       \/ /\ ~NamesRefused
          /\ \E ok \in Outcomes :
              /\ Ran(ok)
              /\ mcp' \in IF mcp = "absent" THEN Becomes(ok, mcp, "created") ELSE {mcp}
              /\ pass' = IF ok THEN [pass EXCEPT !.pc = "boot"] ELSE Thrown
    /\ UNCHANGED <<gateway, journal, mcpOld, dev, devOld, stale, sent, done,
                   crashes, toggles>>

Boot ==
    /\ At("boot")
    /\ \E ok \in Outcomes :
        /\ Ran(ok)
        /\ mcp' \in Becomes(ok, mcp, "running")
        /\ pass' = IF ok THEN [pass EXCEPT !.pc = IF pass.then = "finish"
                                                 THEN "finish" ELSE "dev"]
                   ELSE Thrown
    /\ UNCHANGED <<gateway, journal, mcpOld, dev, devOld, stale, sent, done,
                   crashes, toggles>>

\* The end of the runner's request: the development container it held is
\* brought back whatever happened, then the outcome is noted in memory.
Finish ==
    /\ At("finish")
    /\ \/ /\ pass.resume
          /\ pass' = [pass EXCEPT !.pc = "sync", !.then = "resume"]
          /\ UNCHANGED <<status, done>>
       \/ /\ ~pass.resume
          /\ pass' = [pass EXCEPT !.pc = "tidy", !.then = "none", !.bad = FALSE]
          /\ status' = [status EXCEPT !.phase = IF pass.bad THEN "failed"
                                                 ELSE "applied"]
          /\ done' = IF pass.bad THEN done
                     ELSE [done EXCEPT !["mcp"] = @ \cup {pass.req.rev}]
    /\ UNCHANGED <<gateway, file, docker, sent, calm, fails, crashes, toggles>>

\* The container of a disabled account is stopped.
MustStop == ~Active /\ mcp = "running"

\* A missing or never started container of an active account is created,
\* unless the last request is a stop.
MayCreateAfterStop == Active /\ mcp = "absent"

MayCreate ==
    /\ pass.req.action # "stop" /\ Active
    /\ \/ mcp = "absent"
       \/ pass.req = None /\ mcp = "created"

Tidy ==
    /\ At("tidy")
    /\ \/ /\ MustStop
          /\ \E ok \in Outcomes :
              /\ Ran(ok)
              /\ mcp' \in Becomes(ok, mcp, "exited")
              /\ Goto("dev")
       \/ /\ ~MustStop
          /\ Goto(IF MayCreate /\ account = "active" THEN "make" ELSE "dev")
          /\ UNCHANGED <<mcp, fails, calm>>
    /\ UNCHANGED <<gateway, journal, mcpOld, dev, devOld, stale, sent, done,
                   crashes, toggles>>

-----------------------------------------------------------------------------
(***************************************************************************)
(* The development container's half: reconcileWorkspace, with sync and     *)
(* apply of WorkspaceOperations.                                           *)
(***************************************************************************)

\* The lifecycle request that governs the development container: the later of
\* the administrator's and the owner's.
WorkspaceLifecycleControl(runner, owner) ==
    IF runner.action \notin LifecycleActions \/ owner.rev > runner.rev
    THEN owner ELSE runner

WorkspaceRequest == WorkspaceLifecycleControl(pass.req, pass.preq)
OfRunner         == pass.req # None /\ WorkspaceRequest.rev = pass.req.rev

\* Faulty variant: a request that failed leaves the container alone.
SettledUnlessFailed ==
    [pass EXCEPT !.bad = FALSE, !.user = account,
                 !.pc = IF WorkspaceRequest.action = "stop" \/ pass.bad
                        THEN "combine" ELSE "sync",
                 !.then = "combine"]

\* After the request of the workspace, or without one, the container is synced
\* unless the request is a stop.
Settled == [pass EXCEPT !.bad = FALSE, !.user = account,
                        !.pc = IF WorkspaceRequest.action = "stop"
                               THEN "combine" ELSE "sync",
                        !.then = "combine"]

DevBegin ==
    /\ At("dev")
    /\ LET blocked == /\ status.phase = "failed"
                      /\ pass.req.action # "stop" /\ OfRunner
           fresh   == /\ WorkspaceRequest # None
                      /\ status.wrev # WorkspaceRequest.rev
           failed  == [status EXCEPT !.wrev = WorkspaceRequest.rev,
                                     !.wphase = "failed"]
       IN \/ /\ blocked
             /\ \E ok \in Outcomes :
                 /\ Ran(ok)
                 /\ dev' \in IF account = "active" THEN {dev}
                             ELSE Becomes(ok, dev, Stopped(dev))
                 /\ status' = IF ok THEN failed ELSE status
             /\ pass' = [pass EXCEPT !.pc = "combine"]
             /\ UNCHANGED file
          \/ /\ ~blocked /\ fresh
             /\ Journaled([status EXCEPT !.wrev = WorkspaceRequest.rev,
                                         !.wphase = "applying"])
             /\ pass' = [pass EXCEPT !.pc = "devapply", !.user = account,
                                     !.then = "devdone"]
             /\ UNCHANGED <<dev, fails, calm>>
          \/ /\ ~blocked /\ ~fresh
             /\ status' = IF status.wphase = "applying"
                          THEN [status EXCEPT !.wphase = "failed"] ELSE status
             /\ pass' = Settled
             /\ UNCHANGED <<file, dev, fails, calm>>
    /\ UNCHANGED <<gateway, mcp, mcpOld, devOld, stale, sent, done,
                   crashes, toggles>>

DevApply ==
    /\ At("devapply")
    /\ Sent("dev", status.wrev)
    /\ \/ /\ WorkspaceRequest.action = "stop"
          /\ \E ok \in Outcomes :
              /\ Ran(ok)
              /\ dev' \in Becomes(ok, dev, Stopped(dev))
              /\ pass' = IF ok THEN [pass EXCEPT !.pc = "devdone"] ELSE Thrown
       \/ /\ WorkspaceRequest.action # "stop"
          /\ pass' = IF Active THEN [pass EXCEPT !.pc = "sync"] ELSE Thrown
          /\ UNCHANGED <<dev, fails, calm>>
    /\ UNCHANGED <<gateway, journal, mcp, mcpOld, devOld, stale, done,
                   crashes, toggles>>

\* Where sync returns to.
Synced == CASE pass.then = "resume"  -> [pass EXCEPT !.pc = "finish", !.resume = FALSE]
            [] pass.then = "devdone" -> [pass EXCEPT !.pc = "devstart"]
            [] OTHER                 -> [pass EXCEPT !.pc = "combine"]

Resuming  == pass.then = "resume"
AutoStart == pass.then # "devdone"

Sync ==
    /\ At("sync")
    /\ \/ \* A disabled account's development container is stopped.
          /\ ~Active
          /\ \E ok \in Outcomes :
              /\ Ran(ok)
              /\ dev' \in Becomes(ok, dev, Stopped(dev))
              /\ pass' = IF ok THEN Synced ELSE Thrown
       \/ \* It is made after the MCP container, which must exist.
          /\ Active /\ mcp = "absent"
          /\ pass' = Thrown
          /\ UNCHANGED <<dev, fails, calm>>
       \/ /\ Active /\ mcp # "absent" /\ dev = "absent"
          /\ pass' = [pass EXCEPT !.pc = "devmake", !.swap = FALSE,
                         !.up = Resuming \/ (AutoStart /\ mcp = "running")]
          /\ UNCHANGED <<dev, fails, calm>>
       \/ \* It is replaced when the MCP container was.
          /\ Active /\ mcp # "absent" /\ dev # "absent" /\ stale
          /\ IF devOld
             THEN pass' = Thrown /\ UNCHANGED <<dev, fails, calm>>
             ELSE \E ok \in Outcomes :
                    /\ Ran(ok)
                    /\ dev' \in Becomes(ok, dev, Stopped(dev))
                    /\ pass' = IF ok
                               THEN [pass EXCEPT !.pc = "devrename", !.swap = TRUE,
                                        !.up = (dev = "running") \/ Resuming]
                               ELSE Thrown
       \/ \* It is started when it was held, or never started after creation.
          /\ Active /\ mcp # "absent" /\ dev # "absent" /\ ~stale
          /\ IF Resuming \/ (AutoStart /\ dev = "created" /\ mcp = "running")
             THEN \E ok \in Outcomes :
                    /\ Ran(ok)
                    /\ dev' \in Becomes(ok, dev, "running")
                    /\ pass' = IF ok THEN Synced ELSE Thrown
             ELSE pass' = Synced /\ UNCHANGED <<dev, fails, calm>>
    /\ UNCHANGED <<gateway, journal, mcp, mcpOld, devOld, stale, sent, done,
                   crashes, toggles>>

DevRename ==
    /\ At("devrename")
    /\ \E ok \in Outcomes, renamed \in BOOLEAN :
        /\ ok => renamed
        /\ Ran(ok)
        /\ devOld' = renamed
        /\ dev' = IF renamed THEN "absent" ELSE dev
        /\ pass' = IF ok THEN [pass EXCEPT !.pc = "devmake"] ELSE Thrown
    /\ UNCHANGED <<gateway, journal, mcp, mcpOld, stale, sent, done,
                   crashes, toggles>>

DevMake ==
    /\ At("devmake")
    /\ \E ok \in Outcomes :
        /\ Ran(ok)
        /\ dev' \in Becomes(ok, dev, IF pass.up THEN "created" ELSE "kept")
        /\ pass' = IF ~ok THEN IF pass.swap THEN [pass EXCEPT !.pc = "devback"]
                               ELSE Thrown
                   ELSE IF pass.up THEN [pass EXCEPT !.pc = "devboot"]
                   ELSE IF pass.swap THEN [pass EXCEPT !.pc = "devdrop"]
                   ELSE Synced
        /\ stale' = (stale /\ dev' = "absent")
    /\ UNCHANGED <<gateway, journal, mcp, mcpOld, devOld, sent, done,
                   crashes, toggles>>

DevBoot ==
    /\ At("devboot")
    /\ \E ok \in Outcomes :
        /\ Ran(ok)
        /\ dev' \in Becomes(ok, dev, "running")
        /\ pass' = IF ok THEN IF pass.swap THEN [pass EXCEPT !.pc = "devdrop"]
                              ELSE Synced
                   ELSE IF pass.swap THEN [pass EXCEPT !.pc = "devback"]
                   ELSE Thrown
    /\ UNCHANGED <<gateway, journal, mcp, mcpOld, devOld, stale, sent, done,
                   crashes, toggles>>

\* The replaced container is brought back, and started if it ran.
DevBack ==
    /\ At("devback")
    /\ \E ok \in Outcomes :
        /\ Ran(ok)
        /\ \/ /\ devOld' = FALSE /\ stale' = TRUE
              /\ dev' \in IF pass.up THEN Becomes(ok, "exited", "running")
                          ELSE {"exited"}
           \/ /\ ~ok
              /\ dev' \in {dev, "absent"}
              /\ UNCHANGED <<devOld, stale>>
    /\ pass' = Thrown
    /\ UNCHANGED <<gateway, journal, mcp, mcpOld, sent, done, crashes, toggles>>

DevDrop ==
    /\ At("devdrop")
    /\ \E ok \in Outcomes :
        /\ Ran(ok)
        /\ devOld' \in Becomes(ok, devOld, FALSE)
        /\ pass' = IF ok THEN Synced ELSE Thrown
    /\ UNCHANGED <<gateway, journal, mcp, mcpOld, dev, stale, sent, done,
                   crashes, toggles>>

DevStart ==
    /\ At("devstart")
    /\ \E ok \in Outcomes :
        /\ Ran(ok)
        /\ dev' \in Becomes(ok, dev, "running")
        /\ pass' = IF ok THEN [pass EXCEPT !.pc = "devdone"] ELSE Thrown
    /\ UNCHANGED <<gateway, journal, mcp, mcpOld, devOld, stale, sent, done,
                   crashes, toggles>>

DevDone ==
    /\ At("devdone")
    /\ status' = [status EXCEPT !.wphase = IF pass.bad THEN "failed" ELSE "applied"]
    /\ done' = IF pass.bad THEN done
               ELSE [done EXCEPT !["dev"] = @ \cup {status.wrev}]
    /\ pass' = [Settled EXCEPT !.user = pass.user]
    /\ UNCHANGED <<gateway, file, docker, sent, calm, fails, crashes, toggles>>

\* The combined outcome, and the status file.
RunnersOutcome == status.phase

Outcome ==
    IF OfRunner /\ status.wphase = "failed" THEN "failed"
    ELSE IF OfRunner /\ status.wphase # "applied" THEN "applying"
    ELSE status.phase

Combine ==
    /\ At("combine")
    /\ Journaled([status EXCEPT !.runtime = Outcome])
    /\ pass' = NoPass
    /\ UNCHANGED <<gateway, docker, history, fails, crashes, toggles>>

-----------------------------------------------------------------------------
\* The process dies: what was not written to status.json is gone.
Crash ==
    /\ ~At("idle")
    /\ crashes < MaxCrashes
    /\ crashes' = crashes + 1
    /\ status' = file
    /\ pass' = NoPass
    /\ calm' = FALSE
    /\ UNCHANGED <<gateway, file, docker, sent, done, fails, toggles>>

Init ==
    /\ account = "active" /\ control = None /\ personal = None
    /\ file = NoStatus /\ status = NoStatus /\ pass = NoPass
    /\ mcp = "absent" /\ mcpOld = NoOld
    /\ dev = "absent" /\ devOld = FALSE /\ stale = FALSE
    /\ sent = [c \in {"mcp", "dev"} |-> [r \in Rev |-> 0]]
    /\ done = [c \in {"mcp", "dev"} |-> {}]
    /\ calm = FALSE
    /\ fails = 0 /\ crashes = 0 /\ toggles = 0

Reconcile ==
    \/ PassBegin \/ UserBegin \/ Hold
    \/ ApplyCommand \/ ApplyNothing \/ ApplyInPlace \/ ApplyReplace
    \/ Rename \/ Provision \/ Start \/ Rollback \/ Restore \/ Revive \/ Drop
    \/ Make \/ Boot \/ Finish \/ Tidy
    \/ DevBegin \/ DevApply \/ Sync \/ DevRename \/ DevMake \/ DevBoot
    \/ DevBack \/ DevDrop \/ DevStart \/ DevDone \/ Combine

Next ==
    \/ \E action \in AdminActions : AdminRequest(action)
    \/ \E action \in LifecycleActions : PersonalRequest(action)
    \/ SetStatus
    \/ Reconcile
    \/ Crash

Spec == Init /\ [][Next]_vars

-----------------------------------------------------------------------------
Places ==
    {"idle", "user", "hold", "mcp", "rename", "provision", "start", "again",
     "rollback", "restore", "revive", "drop", "make", "boot", "finish", "tidy",
     "dev", "devapply", "sync", "devrename", "devmake", "devboot", "devback",
     "devdrop", "devstart", "devdone", "combine"}

Statuses == [rev : 0..MaxRev, phase : Phases, runtime : Phases,
             wrev : 0..MaxRev, wphase : Phases]

Passes == [pc : Places, req : Request, preq : Request,
           user : {"active", "disabled"}, resume : BOOLEAN, bad : BOOLEAN,
           up : BOOLEAN, swap : BOOLEAN,
           then : {"none", "finish", "resume", "devdone", "combine"}]

\* The stores, the journal, the pass and the containers hold what the code
\* puts there.
TypeOK ==
    /\ account \in {"active", "disabled"}
    /\ control \in Request /\ personal \in Request
    /\ file \in Statuses /\ status \in Statuses
    /\ pass \in Passes
    /\ mcp \in Containers /\ dev \in Containers
    /\ mcpOld \in [state : Containers, stale : BOOLEAN]
    /\ devOld \in BOOLEAN /\ stale \in BOOLEAN
    /\ calm \in BOOLEAN
    /\ sent \in [{"mcp", "dev"} -> [Rev -> 0..2]]
    /\ done \in [{"mcp", "dev"} -> SUBSET (0..MaxRev)]

\* A request is carried out on the MCP container at most once: the journal is
\* written before the first command, so that neither a later pass nor one
\* after a crash repeats a restart or a replacement.
McpAppliesOnce == \A r \in Rev : sent["mcp"][r] <= 1

\* The console tells of the last request that it was applied only when the
\* MCP container carried it out to the end and, unless a later request of the
\* owner governs the development container, that one did as well.
Reported == control # None /\ file.rev = control.rev /\ file.runtime = "applied"

ReportedIsDone ==
    Reported =>
        /\ control.rev \in done["mcp"]
        /\ \/ control.action \notin LifecycleActions
           \/ control.rev \in done["dev"]
           \/ personal.rev > control.rev

\* While the last request is a stop reported as applied, nothing starts the
\* MCP container again: no automatic creation, no recovery after a crash, no
\* request a pass read too early; and unless the owner asked for something
\* later, nothing starts the development container either.
StoppedStaysStopped ==
    Reported /\ control.action = "stop" =>
        /\ mcp # "running"
        /\ personal.rev < control.rev => dev # "running"

\* An account never loses its MCP container: wherever a command of a
\* replacement fails or the provisioner crashes, it is there under its own name
\* or as "-previous".  A development container is only made beside one, so its
\* presence tells that the account had one.
ContainerIsKept == dev # "absent" => mcp # "absent" \/ mcpOld # NoOld

\* A request is carried out on the development container a second time only after
\* two later ones, the last of them the administrator's: one governed the container
\* in between, and the administrator's replaced it.  Neither a crash between the
\* journal and the commands, nor a request that failed with the MCP container's, nor
\* any order in which the two stores are written and read repeats it.
RepeatedAfterTwo == \A r \in Rev : sent["dev"][r] > 1 => control.rev > r + 1

\* A pass in which no command fails and the account stays as it is settles what it
\* finds, whatever earlier passes and crashes left.  Of a disabled account nothing
\* runs, but a development container whose stop was requested and failed before; and
\* the request is not left "applying", unless the name check refused the pass.
CalmPassSettles ==
    At("combine") /\ calm =>
        /\ account = "disabled" =>
            /\ mcp # "running"
            /\ dev = "running" => /\ WorkspaceRequest.action = "stop"
                                 /\ status.wphase = "failed"
        /\ status.phase = "applying" => NamesRefused

\* README.md: "Account disablement stops both containers during
\* reconciliation".
DisabledAccountStops ==
    At("idle") /\ calm /\ account = "disabled" =>
        mcp # "running" /\ dev # "running"

\* provisioner.test.ts: "applies personal workspace requests once": a request
\* is carried out on the development container at most once.
DevelopmentAppliesOnce == \A r \in Rev : sent["dev"][r] <= 1

\* reconcile-user-runners.mjs: a request found "applying" is failed.  A pass
\* no command failed in leaves no request "applying".
InterruptedIsFailed == At("idle") /\ calm => file.phase # "applying"
=============================================================================
