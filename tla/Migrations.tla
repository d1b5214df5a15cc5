----------------------------- MODULE Migrations -----------------------------
(***************************************************************************)
(* The migrations of one account's environment that a provisioner pass     *)
(* runs before anything else: splitRuntime, which turns a unified          *)
(* container into an MCP runner and a development container, and           *)
(* migrateNames, which moves containers and volumes to names made from the *)
(* account's email.  Each is a sequence of Docker commands with a rollback *)
(* and a journal; a command may fail, having had its effect or not, and    *)
(* the process may crash between two of them, while the owner works in     *)
(* whatever container runs.                                                *)
(*                                                                         *)
(* The workspace and the data volume share their fate and are one volume;  *)
(* HOME and the credentials of Git keep their names and are left out, as   *)
(* are quota storage, host directories and the separate workspace of the   *)
(* installations before the unified container.                             *)
(***************************************************************************)
EXTENDS Integers, FiniteSets

CONSTANTS
  NamedFirst,  \* does an installation that is to be split have its new names?
  MaxWrites, MaxFails, MaxCrashes,  \* bounds
  None

\* The names of containers: runtimeContainer(user), the name from before, each with
\* "-before-split", the runner's with "-previous", and developmentContainer(user).
Names    == {"runner", "former"}
Before   == [runner |-> "runner-before", former |-> "former-before"]
Previous == "runner-previous"
Places   == Names \cup {Before[n] : n \in Names} \cup {Previous, "dev"}

\* "old" is the volume with the former name, "new" the one named after "runner".
Container == [kind : {"unified", "split", "workspace"}, layer : {"own", "snapshot", "image"},
              volume : {"old", "new"}, up : BOOLEAN, ssh : BOOLEAN]
Volume == [made : BOOLEAN, migrated : BOOLEAN, work : SUBSET (0..MaxWrites)]

MigrationsAssumption ==
  /\ NamedFirst \in BOOLEAN /\ {MaxWrites, MaxFails, MaxCrashes} \subseteq Nat
  /\ None \notin Container

VARIABLES
  boxes,    \* the containers, by name
  volumes,  \* the volumes: the label dev-mcp.migrated-from and the work in them
  written,  \* the pieces of work the owner wrote
  splits,   \* runtime-splits.json: the phase
  names,    \* naming-migrations.json: the phase and whether it lists copies
  pass,     \* the place and the local variables of the pass
  fails, crashes,
  torn      \* history: a command failed when the replacement ran, or in a rollback

disk == <<boxes, volumes, written>>
journals == <<splits, names>>
migrationVars == <<disk, journals, pass, fails, crashes, torn>>

\* "then" is where splitRuntime returns to, "at" and "found" are the container a
\* migration works on, "unclear" is history: an effect its rollback does not know of.
NoPass == [pc |-> "idle", active |-> FALSE, request |-> "none", then |-> "hold",
           job |-> "none", at |-> "none", found |-> None, start |-> FALSE,
           copies |-> FALSE, hold |-> FALSE, bad |-> FALSE, renamed |-> FALSE,
           cut |-> FALSE, unclear |-> FALSE]

At(pc) == pass.pc = pc
To(pc) == [pass EXCEPT !.pc = pc]
Goto(pc) == pass' = To(pc)
Present(p) == p # "none" /\ boxes[p] # None
Retry == pass.request = "start"

\* owned(): the container with the right name, or the account's one under another.
Owned == IF boxes["runner"] # None THEN "runner"
         ELSE IF boxes["former"] # None THEN "former" ELSE "none"

Aside    == IF pass.job = "split" THEN Before[pass.at] ELSE Previous
Replaced == IF pass.job = "split" THEN pass.at ELSE "runner"

-----------------------------------------------------------------------------
(***************************************************************************)
(* Docker commands.                                                        *)
(***************************************************************************)
Outcomes == IF fails < MaxFails THEN BOOLEAN ELSE {TRUE}

Unnoticed == {"rename", "detach"}
Settled   == IF pass.job = "split" THEN {} ELSE {"start", "drop", "remove", "back", "restart"}

Command(new, next, catch) ==
  \E ok \in Outcomes :
    /\ fails' = fails + (IF ok THEN 0 ELSE 1)
    /\ boxes' \in IF ok THEN {new} ELSE {boxes, new}
    /\ torn' = (torn \/ (~ok /\ pass.pc \in Settled))
    /\ pass' = IF ok THEN next
               ELSE [catch EXCEPT !.unclear = @ \/ (boxes' # boxes /\ pass.pc \in Unnoticed)]

\* A command that cannot succeed: its container is not there.
NoSuchContainer(catch) ==
  pass' = catch /\ torn' = (torn \/ pass.pc \in Settled) /\ UNCHANGED <<boxes, fails>>

Skip(next) == pass' = next /\ UNCHANGED <<boxes, fails, torn>>

Switched(p, up) == [boxes EXCEPT ![p].up = up]

Moved(p, q) == [boxes EXCEPT ![p] = None, ![q] = boxes[p]]

\* provision-user.sh without a start: a container of that name is left as it is.
Provisioned ==
  IF Present("runner") THEN boxes
  ELSE [boxes EXCEPT !["runner"] = [kind |-> "split", layer |-> "image", volume |-> "new",
                                    up |-> FALSE, ssh |-> FALSE]]

\* It makes the volume first, without the label of a migration.
Provision(next, catch) ==
  /\ Command(Provisioned, next, catch)
  /\ volumes' \in IF Present("runner") \/ volumes["new"].made THEN {volumes}
                  ELSE {[volumes EXCEPT !["new"].made = TRUE]}
                         \cup IF boxes' = boxes THEN {volumes} ELSE {}

Development(layer, up) ==
  [kind |-> "workspace", layer |-> layer, volume |-> boxes[Owned].volume, up |-> up,
   ssh |-> TRUE]

\* An error that leaves the pass's work on the runner, or the pass.
Thrown == [pass EXCEPT !.pc = IF pass.then = "hold" \/ pass.hold THEN "tail" ELSE "idle",
                       !.hold = FALSE]

\* An error out of migrateNames, to the finally around it.
NameThrown == [pass EXCEPT !.pc = "held", !.bad = TRUE]

-----------------------------------------------------------------------------
(***************************************************************************)
(* The owner, an operator and the start of a pass.                         *)
(***************************************************************************)
Write(p) ==
  /\ Present(p) /\ boxes[p].up /\ written < MaxWrites
  /\ written' = written + 1
  /\ volumes' = [volumes EXCEPT ![boxes[p].volume].work = @ \cup {written + 1}]
  /\ UNCHANGED <<boxes, journals, pass, fails, crashes, torn>>

\* A runner whose migration is over is removed by hand.
OperatorRemoves ==
  /\ At("idle") /\ Present("runner")
  /\ boxes["runner"].kind = "split" /\ boxes["runner"].volume = "new"
  /\ boxes' = [boxes EXCEPT !["runner"] = None]
  /\ UNCHANGED <<volumes, written, journals, pass, fails, crashes, torn>>

PassBegin ==
  /\ At("idle")
  /\ \E active \in BOOLEAN, request \in {"none", "start", "stop"} :
      /\ request = "start" => active
      /\ pass' = [NoPass EXCEPT !.pc = "split", !.active = active, !.request = request]
  /\ UNCHANGED <<disk, journals, fails, crashes, torn>>

Crash ==
  /\ ~At("idle") /\ crashes < MaxCrashes
  /\ crashes' = crashes + 1
  /\ pass' = NoPass
  /\ UNCHANGED <<disk, journals, fails, torn>>

-----------------------------------------------------------------------------
(***************************************************************************)
(* splitRuntime.                                                           *)
(***************************************************************************)
NeedsSplit == Owned # "none" /\ boxes[Owned].kind = "unified"

SplitCheck ==
  /\ At("split")
  /\ \/ /\ ~NeedsSplit
        /\ Goto(pass.then)
        /\ UNCHANGED splits
     \/ /\ NeedsSplit
        /\ \/ splits = "failed" /\ ~(Retry /\ pass.then = "hold")
           \/ Present(Before[Owned]) \/ Present("dev")
        /\ pass' = Thrown
        /\ UNCHANGED splits
     \/ /\ NeedsSplit
        /\ splits = "failed" => Retry /\ pass.then = "hold"
        /\ ~Present(Before[Owned]) /\ ~Present("dev")
        /\ splits' = "preparing"
        /\ pass' = [pass EXCEPT !.pc = "stop", !.job = "split", !.at = Owned,
                                !.found = boxes[Owned], !.renamed = FALSE, !.cut = FALSE,
                                !.start = boxes[Owned].up /\ pass.active]
  /\ UNCHANGED <<disk, names, fails, crashes, torn>>

\* Both migrations stop the container they found running.
StopFound ==
  /\ At("stop")
  /\ LET next == To(IF pass.job = "split" THEN "detach" ELSE "copy")
     IN IF pass.found.up
        THEN Command(Switched(pass.at, FALSE), next,
                     To(IF pass.job = "split" THEN "discard" ELSE "remove"))
        ELSE Skip(next)
  /\ UNCHANGED <<volumes, written, journals, crashes>>

Detach ==
  /\ At("detach")
  /\ IF pass.found.ssh
     THEN Command([boxes EXCEPT ![pass.at].ssh = FALSE],
                  [pass EXCEPT !.pc = "snapshot", !.cut = TRUE], To("discard"))
     ELSE Skip(To("snapshot"))
  /\ UNCHANGED <<volumes, written, journals, crashes>>

\* The storage, the scripts, the commit and the copies of HOME: what can fail.
Snapshot ==
  /\ At("snapshot")
  /\ Command(boxes, To("rename"), To("discard"))
  /\ UNCHANGED <<volumes, written, journals, crashes>>

Rename ==
  /\ At("rename")
  /\ Command(Moved(pass.at, Aside), [pass EXCEPT !.pc = "provision", !.renamed = TRUE],
             To(IF pass.job = "split" THEN "discard" ELSE "remove"))
  /\ UNCHANGED <<volumes, written, journals, crashes>>

ProvisionRunner ==
  /\ At("provision")
  /\ IF pass.job = "split"
     THEN Provision(To("create"), To("discard"))
     ELSE Provision(To(IF pass.start THEN "start" ELSE "drop"), To("remove"))
  /\ UNCHANGED <<written, journals, crashes>>

\* The development container is made from the snapshot, on the workspace found.
CreateDevelopment ==
  /\ At("create")
  /\ Command([boxes EXCEPT !["dev"] = [Development("snapshot", FALSE)
                                         EXCEPT !.volume = pass.found.volume]],
             To(IF pass.start THEN "startdev" ELSE "ready"), To("discard"))
  /\ UNCHANGED <<volumes, written, journals, crashes>>

StartDevelopment ==
  /\ At("startdev")
  /\ Command(Switched("dev", TRUE), To("start"), To("discard"))
  /\ UNCHANGED <<volumes, written, journals, crashes>>

\* splitRuntime starts the name it found, migrateNames the account's present name.
StartRunner ==
  /\ At("start")
  /\ LET catch == To(IF pass.job = "split" THEN "discard" ELSE "remove")
     IN IF Present(Replaced)
        THEN Command(Switched(Replaced, TRUE),
                     To(IF pass.job = "split" THEN "probe" ELSE "drop"), catch)
        ELSE NoSuchContainer(catch)
  /\ UNCHANGED <<volumes, written, journals, crashes>>

Probe ==
  /\ At("probe")
  /\ Command(boxes, To("ready"), To("discard"))
  /\ UNCHANGED <<volumes, written, journals, crashes>>

SplitReady ==
  /\ At("ready")
  /\ splits' = "ready"
  /\ Goto("drop")
  /\ UNCHANGED <<disk, names, fails, crashes, torn>>

\* The original is removed last, outside the try.
Drop ==
  /\ At("drop")
  /\ Command([boxes EXCEPT ![Aside] = None],
             To(IF pass.job = "split" THEN pass.then ELSE "held"),
             IF pass.job = "split" THEN Thrown ELSE NameThrown)
  /\ UNCHANGED <<volumes, written, journals, crashes>>

-----------------------------------------------------------------------------
(***************************************************************************)
(* The rollback of both; an error in it leaves the rest undone.            *)
(***************************************************************************)
Lost == IF pass.job = "split" THEN Thrown ELSE NameThrown

Discard ==
  /\ At("discard")
  /\ IF Present("dev")
     THEN Command([boxes EXCEPT !["dev"] = None], To("remove"), Lost)
     ELSE Skip(To("remove"))
  /\ UNCHANGED <<volumes, written, journals, crashes>>

RemovableAlways == Present(Replaced)
Removable == pass.renamed /\ Present(Replaced)

Remove ==
  /\ At("remove")
  /\ IF Removable
     THEN Command([boxes EXCEPT ![Replaced] = None], To("back"), Lost)
     ELSE Skip(To("back"))
  /\ UNCHANGED <<volumes, written, journals, crashes>>

Back ==
  /\ At("back")
  /\ IF pass.renamed
     THEN Command(Moved(Aside, pass.at), To("reconnect"), Lost)
     ELSE Skip(To("reconnect"))
  /\ UNCHANGED <<volumes, written, journals, crashes>>

ReconnectNever == FALSE
Cut == pass.cut

Reconnect ==
  /\ At("reconnect")
  /\ IF ~Cut THEN Skip(To("restart"))
     ELSE IF Present(pass.at)
     THEN Command([boxes EXCEPT ![pass.at].ssh = TRUE], To("restart"), Lost)
     ELSE NoSuchContainer(Lost)
  /\ UNCHANGED <<volumes, written, journals, crashes>>

Restart ==
  /\ At("restart")
  /\ IF ~pass.found.up THEN Skip(To("fail"))
     ELSE IF Present(pass.at)
     THEN Command(Switched(pass.at, TRUE), To("fail"), Lost)
     ELSE NoSuchContainer(Lost)
  /\ UNCHANGED <<volumes, written, journals, crashes>>

Fail ==
  /\ At("fail")
  /\ IF pass.job = "split"
     THEN splits' = "failed" /\ UNCHANGED names
     ELSE names' = [phase |-> "failed", listed |-> pass.copies] /\ UNCHANGED splits
  /\ Goto("failed")
  /\ UNCHANGED <<disk, fails, crashes, torn>>

Rethrow ==
  /\ At("failed")
  /\ pass' = Lost
  /\ UNCHANGED <<disk, journals, fails, crashes, torn>>

-----------------------------------------------------------------------------
(***************************************************************************)
(* migrateNames.                                                           *)
(***************************************************************************)
NeedsNaming == Owned # "none" /\ (Owned # "runner" \/ boxes[Owned].volume = "old")

\* beforeNamingMigration: "Storage copying must never race with writes from VS Code."
NeedsHoldNever == FALSE
NeedsHold == NeedsNaming /\ Present("dev") /\ boxes["dev"].up

Hold ==
  /\ At("hold")
  /\ IF NeedsHold
     THEN Command(Switched("dev", FALSE), [pass EXCEPT !.pc = "names", !.hold = TRUE], Thrown)
     ELSE Skip(To("names"))
  /\ UNCHANGED <<volumes, written, journals, crashes>>

\* A failed migration waits for a fresh request; the stop of a container does not.
NamesWait == names.phase = "failed" /\ ~Retry

NamesSkipped ==
  /\ At("names")
  /\ \/ Owned = "runner" /\ ~NeedsNaming /\ Goto("held")
     \/ /\ Owned = "runner" => NeedsNaming
        /\ NamesWait
        /\ pass' = IF pass.request = "stop" THEN To("held") ELSE NameThrown
  /\ UNCHANGED <<disk, journals, fails, crashes, torn>>

\* The journal's entry, which a retry first sets back to "copying".
Entry == IF names.phase = "failed" THEN [names EXCEPT !.phase = "copying"] ELSE names

\* Whether namingVolumes finds a volume to move, or what it finds is refused.  Without
\* a container the volume with the new name is the account's once its copy is complete.
Copied == volumes["new"].made /\ volumes["new"].migrated
Current ==
  IF Owned # "none" THEN boxes[Owned].volume = "new"
  ELSE \/ volumes["new"].made /\ ~volumes["new"].migrated
       \/ volumes["new"].made /\ Entry.phase = "ready" /\ Entry.listed
       \/ ~volumes["old"].made

Foreign ==
  IF Owned # "none" THEN volumes["new"].made /\ ~volumes["new"].migrated
  ELSE \/ Copied /\ ~(Entry.phase = "copying" /\ Entry.listed)
       \/ \E p \in Places : Present(p) /\ boxes[p].volume = "old"

\* The checks, and the entry written before a volume is made.
NamesBegin ==
  /\ At("names")
  /\ Owned = "runner" => NeedsNaming
  /\ ~NamesWait
  /\ LET ready == [pass EXCEPT !.job = "naming", !.at = Owned, !.renamed = FALSE, !.cut = FALSE,
                     !.copies = ~Current,
                     !.found = IF Owned = "none" THEN None ELSE boxes[Owned],
                     !.start = Owned # "none" /\ boxes[Owned].up /\ pass.active]
     IN \/ /\ Present(Previous) \/ (~Current /\ Foreign)
           /\ pass' = NameThrown
           /\ names' = Entry
        \/ /\ ~Present(Previous) /\ (Current \/ (~Foreign /\ volumes["new"].made))
           /\ pass' = [ready EXCEPT !.pc = IF Owned # "none" THEN "stop"
                                           ELSE IF Current THEN "held" ELSE "copy"]
           /\ names' = Entry
        \/ /\ ~Present(Previous) /\ ~Current /\ ~Foreign /\ ~volumes["new"].made
           /\ pass' = [ready EXCEPT !.pc = "volume"]
           /\ names' = [phase |-> "copying", listed |-> TRUE]
  /\ UNCHANGED <<disk, splits, fails, crashes, torn>>

MakeVolume ==
  /\ At("volume")
  /\ Command(boxes, To(IF pass.found = None THEN "copy" ELSE "stop"), NameThrown)
  /\ volumes' \in {[volumes EXCEPT !["new"] = [made |-> TRUE, migrated |-> TRUE, work |-> {}]]}
                    \cup IF fails' = fails THEN {} ELSE {volumes}
  /\ UNCHANGED <<written, journals, crashes>>

CopyCatch == IF pass.found = None THEN NameThrown ELSE To("remove")
CopyNext  == To(IF pass.found = None THEN "held" ELSE "rename")

\* rsync --delete begins; until it ends the target is incomplete.
Copy ==
  /\ At("copy")
  /\ IF ~pass.copies THEN Skip(CopyNext) /\ UNCHANGED <<volumes, names>>
     ELSE /\ names' = [phase |-> "copying", listed |-> TRUE]
          /\ Command(boxes, To("copying"), CopyCatch)
          /\ volumes' = [volumes EXCEPT !["new"].work = {}]
  /\ UNCHANGED <<written, splits, crashes>>

CopyEnd ==
  /\ At("copying")
  /\ volumes' = [volumes EXCEPT !["new"].work = volumes["old"].work]
  /\ Goto("verify")
  /\ UNCHANGED <<boxes, written, journals, fails, crashes, torn>>

\* The second rsync finds a difference, or the copy is complete.
Verify ==
  /\ At("verify")
  /\ IF volumes["new"].work # volumes["old"].work
     THEN Skip(CopyCatch) /\ UNCHANGED names
     ELSE /\ Command(boxes, CopyNext, CopyCatch)
          /\ names' = IF fails' = fails THEN [names EXCEPT !.phase = "ready"] ELSE names
  /\ UNCHANGED <<volumes, written, splits, crashes>>

\* The finally around migrateNames: what was held is synchronised, or started again.
Held ==
  /\ At("held")
  /\ \/ /\ ~pass.hold
        /\ Skip(To(IF pass.bad THEN "tail" ELSE "rest"))
     \/ /\ pass.hold /\ ~pass.bad
        /\ Skip([pass EXCEPT !.pc = "split", !.then = "sync"])
     \/ /\ pass.hold /\ pass.bad
        /\ IF pass.active /\ Present("dev")
           THEN Command(Switched("dev", TRUE), Thrown, Thrown)
           ELSE Skip(Thrown)
  /\ UNCHANGED <<volumes, written, journals, crashes>>

-----------------------------------------------------------------------------
(***************************************************************************)
(* The rest of the pass, as far as it concerns what the migrations left:   *)
(* the request, the automatic creation and the synchronisation of the      *)
(* development container.  Provisioner has it in full.                     *)
(***************************************************************************)
Rest ==
  /\ At("rest")
  /\ LET up == Owned # "none" /\ boxes[Owned].up
     IN \/ /\ up /\ (pass.request = "stop" \/ ~pass.active)
           /\ Command(Switched(Owned, FALSE), To("tail"), To("tail"))
        \/ /\ Owned # "none" /\ Retry
           /\ Command(Switched(Owned, TRUE), To("tail"), To("tail"))
        \/ /\ ~(up /\ (pass.request = "stop" \/ ~pass.active)) /\ ~(Owned # "none" /\ Retry)
           /\ Skip(To(IF Owned = "none" /\ pass.active /\ pass.request # "stop"
                      THEN "make" ELSE "tail"))
  /\ UNCHANGED <<volumes, written, journals, crashes>>

\* create(), after the migrateNames that just ran.
Make ==
  /\ At("make")
  /\ Provision(To("boot"), To("tail"))
  /\ UNCHANGED <<written, journals, crashes>>

Boot ==
  /\ At("boot")
  /\ Command(Switched("runner", TRUE), To("tail"), To("tail"))
  /\ UNCHANGED <<volumes, written, journals, crashes>>

\* reconcileWorkspace runs whatever became of the runner, but not for a stop.
Tail ==
  /\ At("tail")
  /\ pass' = IF pass.request = "stop" THEN NoPass
             ELSE [pass EXCEPT !.pc = "split", !.then = "sync", !.hold = FALSE]
  /\ UNCHANGED <<disk, journals, fails, crashes, torn>>

Synced ==
  IF ~pass.active
  THEN IF Present("dev") THEN Switched("dev", FALSE) ELSE boxes
  ELSE IF ~Present("dev")
  THEN [boxes EXCEPT !["dev"] = Development("image", pass.hold \/ boxes[Owned].up)]
  ELSE IF boxes["dev"].volume # boxes[Owned].volume
  THEN [boxes EXCEPT !["dev"] = Development("image", pass.hold \/ boxes["dev"].up)]
  ELSE IF pass.hold THEN Switched("dev", TRUE) ELSE boxes

Sync ==
  /\ At("sync")
  /\ LET next == IF pass.hold THEN [pass EXCEPT !.pc = "rest", !.then = "hold", !.hold = FALSE]
                 ELSE NoPass
     IN IF pass.active /\ Owned = "none" THEN Skip(Thrown)
        ELSE Command(Synced, next, Thrown)
  /\ UNCHANGED <<volumes, written, journals, crashes>>

-----------------------------------------------------------------------------
Empty == [p \in Places |-> None]
Runner(kind, volume, up, ssh) ==
  [kind |-> kind, layer |-> IF kind = "unified" THEN "own" ELSE "image",
   volume |-> volume, up |-> up, ssh |-> ssh]

\* The installations a pass finds: one to split, one with other names than the account's,
\* and one whose container is gone.
ToSplit(at, volume) ==
  \E up, ssh \in BOOLEAN : boxes = [Empty EXCEPT ![at] = Runner("unified", volume, up, ssh)]

ToName(at) ==
  \E up, dev \in BOOLEAN :
    boxes = [Empty EXCEPT ![at] = Runner("split", "old", up, FALSE),
                          !["dev"] = [Runner("workspace", "old", dev, TRUE) EXCEPT !.layer = "image"]]

Init ==
  /\ written = 0
  /\ \E v \in {"old", "new"} :
      /\ volumes = [w \in {"old", "new"} |-> [made |-> w = v, migrated |-> FALSE,
                                              work |-> IF w = v THEN {0} ELSE {}]]
      /\ \/ v = "new" /\ ToSplit("runner", "new")
         \/ v = "old" /\ ~NamedFirst /\ \E at \in Names : ToSplit(at, "old")
         \/ v = "old" /\ (boxes = Empty \/ \E at \in Names : ToName(at))
  /\ splits = "none" /\ names = [phase |-> "none", listed |-> FALSE]
  /\ pass = NoPass /\ fails = 0 /\ crashes = 0 /\ torn = FALSE

Split  == \/ SplitCheck \/ Detach \/ Snapshot \/ CreateDevelopment \/ StartDevelopment
          \/ Probe \/ SplitReady
Naming == Hold \/ NamesSkipped \/ NamesBegin \/ MakeVolume \/ Copy \/ CopyEnd \/ Verify \/ Held
Shared == StopFound \/ Rename \/ ProvisionRunner \/ StartRunner \/ Drop
Undo   == Discard \/ Remove \/ Back \/ Reconnect \/ Restart \/ Fail \/ Rethrow
Others == Rest \/ Make \/ Boot \/ Tail \/ Sync

Next ==
  \/ \E p \in Places : Write(p)
  \/ OperatorRemoves \/ PassBegin \/ Crash
  \/ Split \/ Naming \/ Shared \/ Undo \/ Others

Spec == Init /\ [][Next]_migrationVars

-----------------------------------------------------------------------------
(***************************************************************************)
(* Properties.                                                             *)
(***************************************************************************)
\* The containers, the volumes, the journals and the pass are well formed.
TypeOK ==
  /\ boxes \in [Places -> Container \cup {None}]
  /\ volumes \in [{"old", "new"} -> Volume]
  /\ written \in 0..MaxWrites
  /\ splits \in {"none", "preparing", "ready", "failed"}
  /\ names.phase \in {"none", "copying", "ready", "failed"} /\ names.listed \in BOOLEAN
  /\ pass.at \in Names \cup {"none"} /\ pass.found \in Container \cup {None}
  /\ fails \in 0..MaxFails /\ crashes \in 0..MaxCrashes /\ torn \in BOOLEAN

\* Whoever works in a running container sees all the work there is, whatever was copied,
\* interrupted or rolled back before: no copy is older than what the owner wrote, and no
\* stale backup is used again (runner-operations.mjs, namingVolumes; beforeNamingMigration
\* "must never race with writes").  A replacement that could not be completed or undone is
\* not covered.
WorkIsShown ==
  torn \/ \A p \in Places : Present(p) /\ boxes[p].up => volumes[boxes[p].volume].work = 0..written

\* The container with the packages its owner installed is not removed before its two
\* replacements are ready, the development one made from its snapshot, and running if it
\* ran; and a container set aside is not removed before another has its work ("Keep the
\* unified container and a snapshot until both replacements are ready", split-runtime.mjs).
Original(b) == \E p \in Places : b[p] # None /\ b[p].layer = "own"
Ready ==
  /\ Present("runner") /\ Present("dev") /\ boxes["dev"].layer = "snapshot"
  /\ pass.start => boxes["runner"].up /\ boxes["dev"].up
  /\ splits = "ready"
HasItsWork(p) ==
  Owned # "none" /\ volumes[boxes[p].volume].work \subseteq volumes[boxes[Owned].volume].work
OriginalIsKept ==
  [][/\ Original(boxes) => Original(boxes') \/ Ready
     /\ At("drop") /\ Present(Aside) /\ ~Present(Aside)' => HasItsWork(Aside)]_migrationVars

\* A migration that ends as failed leaves the container it found as it found it: under its
\* name, running if it ran, on its network, with no replacement beside it ("failure
\* restores the original", README).  Where a command had its effect and still reported an
\* error, the rollback does not know of it.
FailureRestores ==
  At("failed") /\ ~pass.unclear =>
    /\ boxes[pass.at] = pass.found
    /\ ~Present(Aside)
    /\ pass.job = "split" => ~Present("dev")

\* What an environment shows after its split is what it showed before ("Storage, account
\* identity, IPC keys and SSH host keys are never regenerated", split-runtime.mjs).
SplitRetainsStorage ==
  At("idle") /\ splits \in {"ready", "failed"} /\ Owned # "none" =>
    volumes[boxes[Owned].volume].work = 0..written
=============================================================================
