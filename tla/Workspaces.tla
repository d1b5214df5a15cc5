----------------------------- MODULE Workspaces -----------------------------
(***************************************************************************)
(* Host directories for the workspaces of accounts.  The installer chooses *)
(* a root on the onboarding listener (onboarding.ts,                       *)
(* installation-store.ts); the provisioner observes it                     *)
(* (reconcile-user-runners.mjs) and gives each account a directory below   *)
(* it, for a new container or in the place of a volume                     *)
(* (runner-operations.mjs: probeRoot, assignWorkspace, verifyWorkspace,    *)
(* create, moveWorkspace).                                                 *)
(*                                                                         *)
(* A handler runs from one await to the next in one step.  Passes are      *)
(* sequences of helper containers and Docker commands; each may fail,      *)
(* having had its effect or not, and the provisioner may die in between.   *)
(* Accounts says who may use the listener and when; Provisioner and        *)
(* Migrations say what else happens to containers.                         *)
(***************************************************************************)
EXTENDS Integers, FiniteSets

CONSTANTS
  Users,
  Legacy,      \* accounts whose directory was one before there were roots
  Roots,       \* paths that the installer enters
  Inside,      \* those in the directory of a legacy account
  Aliases,     \* those of them that do not look like it (links, bind mounts)
  MaxNames,    \* names to try for a directory; those of all accounts are the same
  Handlers,    \* requests of the installer under way at once
  MaxFaults,   \* a bound: changes on the host, failing commands and crashes together
  None

WorkspacesAssumption ==
  /\ Legacy \subseteq Users /\ Aliases \subseteq Inside /\ Inside \subseteq Roots
  /\ Inside # {} => Legacy # {}
  /\ MaxNames \in Nat \ {0} /\ MaxFaults \in Nat
  /\ None \notin Users \cup Roots \cup (Roots \X Nat) \cup {<<"volume">>, <<"legacy">>}
  /\ {None, "operator", "gone"} \cap Users = {} /\ None \notin {"operator", "gone"}

VARIABLES
  installation,  \* installation.json: the root and whether the onboarding is complete
  published,     \* status.json: the verdict on the root, and whether what is reserved
  cache,         \* rootStatusKey and rootStatus of the provisioner
  installer,     \* the requests of the installer
  made,          \* the directories: for whom each was made
  record,        \* workspace-dirs.json
  box, old,      \* what the container of an account, and its "-previous", has mounted
  volumes,       \* accounts with a named workspace volume
  pass,          \* the place and the local variables of the pass
  faults

onboarding == <<installation, installer>>
containers == <<box, old, volumes>>
workspaceVars == <<onboarding, published, cache, made, record, containers, pass, faults>>

Suffixes == 1..MaxNames   \* workspaceNames: the name, the name with "-2" and so on
Dirs     == Roots \X Suffixes
Volume   == <<"volume">>
Outside  == <<"legacy">>
Mounts   == Dirs \cup {Volume, Outside, None}

Resting == [step |-> "idle", root |-> None]
NoPass  == [pc |-> "idle", user |-> None, root |-> None, mount |-> None, left |-> {},
            move |-> FALSE, renamed |-> FALSE]
NoVerdict == [root |-> None, state |-> "none"]

At(pc) == pass.pc = pc
To(pc) == [pass EXCEPT !.pc = pc]
Thrown == [NoPass EXCEPT !.pc = "users"]   \* back in the loop over the accounts
Exists(d) == made[d] \notin {None, "gone"}

----------------------------------------------------------------------------
(* The installer, who has a session until the onboarding is complete.        *)
Request(h, step, r) ==
  /\ installer[h].step = "idle" /\ ~installation.done
  /\ installer' = [installer EXCEPT ![h] = [step |-> step, root |-> r]]
  /\ UNCHANGED <<installation, published, cache, made, record, containers, pass, faults>>

\* reservedContaining: what the paths alone tell, of the list that was published.
Overlaps(r) == published.reserved /\ r \in Inside \ Aliases

\* POST /workspace-root: setWorkspaceRoot looks at the published list first.
SetRoot(h) == \E r \in Roots \cup {None} : ~Overlaps(r) /\ Request(h, "save", r)

\* Its update of installation.json: not after the onboarding.
SaveRoot(h) ==
  /\ installer[h].step = "save"
  /\ installation' = IF installation.done THEN installation
                     ELSE [installation EXCEPT !.root = installer[h].root]
  /\ installer' = [installer EXCEPT ![h] = Resting]
  /\ UNCHANGED <<published, cache, made, record, containers, pass, faults>>

\* POST /complete: setupModel reads the installation, then the status.
Look(h) == Request(h, "observe", installation.root)

CanComplete(r) ==
  r = None \/ (published.verdict = [root |-> r, state |-> "ready"] /\ ~Overlaps(r))

Observed(h) ==
  /\ installer[h].step = "observe"
  /\ installer' = [installer EXCEPT ![h] = IF CanComplete(installer[h].root)
                                           THEN [@ EXCEPT !.step = "complete"] ELSE Resting]
  /\ UNCHANGED <<installation, published, cache, made, record, containers, pass, faults>>

Complete(h) ==
  /\ installer[h].step = "complete"
  /\ installation' = [installation EXCEPT !.done = TRUE]
  /\ installer' = [installer EXCEPT ![h] = Resting]
  /\ UNCHANGED <<published, cache, made, record, containers, pass, faults>>

----------------------------------------------------------------------------
(* The host: who administers it makes directories of his own outside the     *)
(* workspaces, deletes directories that no container uses and removes        *)
(* containers.                                                               *)
Used(d) == \E u \in Users : d \in {box[u], old[u]}

HostChanges ==
  /\ faults < MaxFaults /\ faults' = faults + 1
  /\ \/ /\ \E d \in Dirs :
             \/ /\ d[1] \notin Inside /\ ~Exists(d)
                /\ pass.mount # d /\ \A u \in Users : record[u] # d
                /\ made' = [made EXCEPT ![d] = "operator"]
             \/ /\ Exists(d) /\ ~Used(d)
                /\ made' = [made EXCEPT ![d] = "gone"]
        /\ UNCHANGED box
     \/ /\ At("idle")
        /\ \E u \in Users \ Legacy : box[u] # None /\ box' = [box EXCEPT ![u] = None]
        /\ UNCHANGED made
  /\ UNCHANGED <<onboarding, published, cache, record, old, volumes, pass>>

----------------------------------------------------------------------------
(* probeRoot.                                                                *)
Outcomes == IF faults < MaxFaults THEN BOOLEAN ELSE {TRUE}
Ran(ok) == faults' = faults + (IF ok THEN 0 ELSE 1)

\* With a root that was cleared and entered again the key is the same and there is no
\* verdict to look at.  The directories that are reserved, which are part of the key, do
\* not change here.
ProbeThrows(r) == r # None /\ cache.key = r /\ cache.verdict = NoVerdict

\* A verdict is kept for a while.  A root that is not there or may not be written to is
\* like a helper that fails.
Probe(r) ==
  \/ /\ r = None
     /\ cache' = [cache EXCEPT !.verdict = NoVerdict]
     /\ UNCHANGED faults
  \/ /\ r # None /\ cache.key = r /\ cache.verdict # NoVerdict
     /\ UNCHANGED <<cache, faults>>
  \/ /\ r # None /\ ~ProbeThrows(r)
     /\ \E ok \in Outcomes :
          /\ Ran(ok)
          /\ cache' = [key |-> r,
                       verdict |-> [root |-> r,
                                    state |-> IF ok /\ r \notin Inside THEN "ready" ELSE "invalid"]]

----------------------------------------------------------------------------
(* A pass: the observation of the installation, then the accounts.           *)
PassBegin ==
  /\ At("idle")
  /\ pass' = [NoPass EXCEPT !.pc = "publish", !.root = installation.root]
  /\ UNCHANGED <<onboarding, published, cache, made, record, containers, faults>>

Publish ==
  /\ At("publish")
  /\ \/ /\ ProbeThrows(pass.root)
        /\ published' = [verdict |-> NoVerdict, reserved |-> FALSE]
        /\ UNCHANGED <<cache, faults>>
     \/ /\ ~ProbeThrows(pass.root)
        /\ Probe(pass.root)
        /\ published' = [verdict |-> cache'.verdict, reserved |-> TRUE]
  /\ pass' = Thrown
  /\ UNCHANGED <<onboarding, made, record, containers>>

PassEnd ==
  /\ At("users")
  /\ pass' = NoPass
  /\ UNCHANGED <<onboarding, published, cache, made, record, containers, faults>>

\* The provisioner dies; with it goes what it remembers of the root.
Crash ==
  /\ faults < MaxFaults /\ faults' = faults + 1
  /\ pass' = NoPass
  /\ cache' = [key |-> None, verdict |-> NoVerdict]
  /\ UNCHANGED <<onboarding, published, made, record, containers>>

\* create(), for an account without a container: what was recorded; a directory if there
\* is a root and no volume; else a volume.
Create(u) ==
  /\ At("users") /\ box[u] = None /\ old[u] = None
  /\ LET job == [NoPass EXCEPT !.user = u] IN
     pass' = IF record[u] # None THEN [job EXCEPT !.pc = "verify", !.mount = record[u]]
             ELSE IF installation.root # None /\ u \notin volumes
             THEN [job EXCEPT !.pc = "assign", !.left = Suffixes]
             ELSE [job EXCEPT !.pc = "provision", !.mount = Volume]
  /\ UNCHANGED <<onboarding, published, cache, made, record, containers, faults>>

\* moveWorkspace, for a container with a volume and the name that was asked for.
Move(u) ==
  /\ At("users") /\ box[u] = Volume /\ old[u] = None
  /\ \E n \in Suffixes :
       pass' = [NoPass EXCEPT !.pc = "assign", !.user = u, !.left = {n}, !.move = TRUE]
  /\ UNCHANGED <<onboarding, published, cache, made, record, containers, faults>>

----------------------------------------------------------------------------
(* assignWorkspace.                                                          *)

\* probeRoot reads the root again.
Assign ==
  /\ At("assign")
  /\ pass' = [pass EXCEPT !.pc = "choose", !.root = installation.root]
  /\ UNCHANGED <<onboarding, published, cache, made, record, containers, faults>>

\* Faulty variant: a name is free when there is no such directory.
TakenNone(r, u) == {}

\* The names recorded for others are not used again, even if the directory is gone.
Taken(r, u) == {n \in Suffixes : \E v \in Users \ {u} : record[v] = <<r, n>>}

Choose ==
  /\ At("choose")
  /\ \/ /\ ProbeThrows(pass.root)
        /\ pass' = Thrown
        /\ UNCHANGED <<cache, faults>>
     \/ /\ ~ProbeThrows(pass.root)
        /\ Probe(pass.root)
        /\ pass' = IF cache'.verdict.state = "ready"
                   THEN [pass EXCEPT !.pc = "mkdir", !.left = @ \ Taken(pass.root, pass.user)]
                   ELSE Thrown
  /\ UNCHANGED <<onboarding, published, made, record, containers>>

First == CHOOSE n \in pass.left : \A m \in pass.left : n <= m

\* The helper makes the directory, finds that there is one or that the root is reserved,
\* or fails; the next name is tried unless it failed.
Mkdir ==
  /\ At("mkdir")
  /\ IF pass.left = {} THEN pass' = Thrown /\ UNCHANGED <<made, faults>>
     ELSE LET d == <<pass.root, First>>
              free == ~Exists(d) /\ pass.root \notin Inside
          IN \E ok \in Outcomes :
               /\ Ran(ok)
               /\ made' \in IF ~free THEN {made}
                            ELSE {[made EXCEPT ![d] = pass.user]} \cup IF ok THEN {} ELSE {made}
               /\ pass' = IF ~ok THEN Thrown
                          ELSE IF free
                          THEN [pass EXCEPT !.pc = IF pass.move THEN "copy" ELSE "record",
                                            !.root = None, !.left = {}, !.mount = d]
                          ELSE [pass EXCEPT !.left = @ \ {First}]
  /\ UNCHANGED <<onboarding, published, cache, record, containers>>

\* recordWorkspace: for a new container before it is made, for a moved one after.
Record ==
  /\ At("record")
  /\ record' = [record EXCEPT ![pass.user] = pass.mount]
  /\ pass' = To(IF pass.move THEN "drop" ELSE "verify")
  /\ UNCHANGED <<onboarding, published, cache, made, containers, faults>>

----------------------------------------------------------------------------
(* verifyWorkspace and provision-user.sh, in create() and moveWorkspace.     *)
Good(m) == m \in Dirs => Exists(m) /\ m[1] \notin Inside

\* An error of a move reaches its catch, one of a creation the pass (in the faulty
\* variant, the catch of a move as well).
CaughtAlways == To("undo")
Caught == IF pass.move THEN To("undo") ELSE Thrown

\* A move stops the container and copies the volume first.
CopyVolume ==
  /\ At("copy")
  /\ \E ok \in Outcomes : Ran(ok) /\ pass' = IF ok THEN To("verify") ELSE Caught
  /\ UNCHANGED <<onboarding, published, cache, made, record, containers>>

Verify ==
  /\ At("verify")
  /\ \E ok \in Outcomes :
       /\ Ran(ok)
       /\ pass' = IF ok /\ Good(pass.mount)
                  THEN To(IF pass.move THEN "rename" ELSE "provision") ELSE Caught
  /\ UNCHANGED <<onboarding, published, cache, made, record, containers>>

SetAside ==
  /\ At("rename")
  /\ \E ok \in Outcomes :
       /\ Ran(ok)
       /\ \/ /\ box' = [box EXCEPT ![pass.user] = None]
             /\ old' = [old EXCEPT ![pass.user] = box[pass.user]]
          \/ ~ok /\ UNCHANGED <<box, old>>
       /\ pass' = IF ok THEN [pass EXCEPT !.pc = "provision", !.renamed = TRUE] ELSE Caught
  /\ UNCHANGED <<onboarding, published, cache, made, record, volumes>>

\* A volume is made before the container that mounts it; Docker refuses to mount a
\* directory that is not there.
Mounted == IF pass.mount = Volume THEN volumes \cup {pass.user} ELSE volumes

Provision ==
  /\ At("provision")
  /\ LET there == pass.mount \in Dirs => Exists(pass.mount) IN
     \E ok \in Outcomes :
       /\ Ran(ok)
       /\ \/ /\ there
             /\ box' = [box EXCEPT ![pass.user] = pass.mount]
             /\ volumes' = Mounted
          \/ /\ ~ok \/ ~there
             /\ volumes' \in {volumes, Mounted}
             /\ UNCHANGED box
       /\ pass' = IF ~ok \/ ~there THEN Caught ELSE IF pass.move THEN To("record") ELSE Thrown
  /\ UNCHANGED <<onboarding, published, cache, made, record, old>>

\* The container with the volume is removed at the end.
Drop ==
  /\ At("drop")
  /\ \E ok \in Outcomes :
       /\ Ran(ok)
       /\ old' \in {[old EXCEPT ![pass.user] = None]} \cup IF ok THEN {} ELSE {old}
  /\ pass' = Thrown
  /\ UNCHANGED <<onboarding, published, cache, made, record, box, volumes>>

----------------------------------------------------------------------------
(* The catch of moveWorkspace; an error in it leaves the rest undone.        *)

Undo ==
  /\ At("undo")
  /\ IF pass.renamed /\ box[pass.user] # None
     THEN \E ok \in Outcomes :
            /\ Ran(ok)
            /\ box' \in {[box EXCEPT ![pass.user] = None]} \cup IF ok THEN {} ELSE {box}
            /\ pass' = IF ok THEN To("back") ELSE Thrown
     ELSE pass' = To("back") /\ UNCHANGED <<box, faults>>
  /\ UNCHANGED <<onboarding, published, cache, made, record, old, volumes>>

Back ==
  /\ At("back")
  /\ IF pass.renamed
     THEN \E ok \in Outcomes :
            /\ Ran(ok)
            /\ \/ /\ box' = [box EXCEPT ![pass.user] = old[pass.user]]
                  /\ old' = [old EXCEPT ![pass.user] = None]
               \/ ~ok /\ UNCHANGED <<box, old>>
            /\ pass' = IF ok THEN To("remove") ELSE Thrown
     ELSE pass' = To("remove") /\ UNCHANGED <<box, old, faults>>
  /\ UNCHANGED <<onboarding, published, cache, made, record, volumes>>

\* The new directory is removed with what was copied; a failure is ignored.
Remove ==
  /\ At("remove")
  /\ \E ok \in Outcomes :
       /\ Ran(ok)
       /\ made' \in {[made EXCEPT ![pass.mount] = None]} \cup IF ok THEN {} ELSE {made}
  /\ pass' = Thrown
  /\ UNCHANGED <<onboarding, published, cache, record, containers>>

----------------------------------------------------------------------------
Init ==
  /\ installation = [root |-> None, done |-> FALSE]
  /\ published = [verdict |-> NoVerdict, reserved |-> FALSE]
  /\ cache = [key |-> None, verdict |-> NoVerdict]
  /\ installer = [h \in Handlers |-> Resting]
  /\ made = [d \in Dirs |-> None]
  /\ record = [u \in Users |-> IF u \in Legacy THEN Outside ELSE None]
  /\ box = [u \in Users |-> IF u \in Legacy THEN Outside ELSE None]
  /\ old = [u \in Users |-> None]
  /\ volumes = {}
  /\ pass = NoPass
  /\ faults = 0

Onboard(h) == SetRoot(h) \/ SaveRoot(h) \/ Look(h) \/ Observed(h) \/ Complete(h)
Account == \E u \in Users : Create(u) \/ Move(u)
Work ==
  \/ Assign \/ Choose \/ Mkdir \/ Record \/ CopyVolume \/ Verify \/ SetAside \/ Provision
  \/ Drop \/ Undo \/ Back \/ Remove

Next ==
  \/ \E h \in Handlers : Onboard(h)
  \/ HostChanges
  \/ PassBegin \/ Publish \/ PassEnd \/ Crash
  \/ Account \/ Work

Spec == Init /\ [][Next]_workspaceVars

----------------------------------------------------------------------------
\* The files, the directories, the containers and the pass are well formed; only a move
\* sets a container aside and undoes what it did.
TypeOK ==
  /\ installation \in [root : Roots \cup {None}, done : BOOLEAN]
  /\ published.verdict.root \in Roots \cup {None} /\ published.reserved \in BOOLEAN
  /\ cache.key \in Roots \cup {None}
  /\ \A h \in Handlers : installer[h].step \in {"idle", "save", "observe", "complete"}
  /\ \A d \in Dirs : made[d] \in Users \cup {None, "operator", "gone"}
  /\ record \in [Users -> Mounts] /\ box \in [Users -> Mounts] /\ old \in [Users -> Mounts]
  /\ volumes \subseteq Users
  /\ pass.mount \in Mounts /\ pass.left \subseteq Suffixes
  /\ pass.pc \in {"copy", "rename", "drop", "undo", "back", "remove"} =>
       pass.move /\ pass.mount \in Dirs

\* What an account has mounted or was given is a directory made for it, or one deleted on
\* the host since: never one that was there before, never that of another account, also
\* when a pass died between making it and recording it, a move failed half-way or somebody
\* deleted it; and it is not in the directory of a legacy account, whatever its path
\* looks like (runner-operations.mjs: "Exclusive creation never hands an existing host
\* directory [...] to another account"; README, "No runner may see another account's
\* workspace").
DirectoriesAreOwn ==
  \A u \in Users : \A d \in {record[u], box[u], old[u]} \cap Dirs :
    /\ made[d] \in {u, "gone"}
    /\ d[1] \notin Inside
    /\ \A v \in Users \ {u} : d \notin {record[v], box[v], old[v]}
=============================================================================
