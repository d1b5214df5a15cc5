-------------------------------- MODULE SshAccess --------------------------------
(***************************************************************************)
(* SSH access of one account to its workspace: the registered keys         *)
(* (ssh-access-store.ts, ssh-routes.ts), the provisioner's renewal of the  *)
(* authorization files (reconcile-user-runners.mjs, ssh-registry.mjs,      *)
(* ssh-access.mjs) and the supervisor of sshd in the workspace             *)
(* (ssh-server.mjs).                                                       *)
(*                                                                         *)
(* The renewal reads the account, then the keys, then replaces the files   *)
(* one by one; the manifest, which carries a lease, comes last.  The       *)
(* provisioner may die at any point, for good, or fail and try again       *)
(* (MaxFaults).  The supervisor finds the sessions of its sshd by a scan   *)
(* of /proc, and ends those it has found; one turn of its loop takes       *)
(* several steps.  One session at a time is followed, of any key: sessions *)
(* do not depend on each other.  It is accepted and let in at one step.    *)
(* The entry's own supervisor can only end more sessions and is left out.  *)
(***************************************************************************)
EXTENDS Naturals, FiniteSets

CONSTANTS
  Keys,        \* public keys
  Requests,    \* requests under way at once
  Lease,       \* SSH_LEASE_MS, in seconds of the supervisor's poll
  MaxChanges,  \* changes of the account and of its keys: a bound
  MaxFaults,   \* failed renewals, restarts and exits of sshd: a bound
  None

SshAssumption ==
  /\ Lease \in Nat \ {0} /\ MaxChanges \in Nat /\ MaxFaults \in Nat
  /\ None \notin {"add", "remove"}

VARIABLES
  account,     \* the account's version and whether it is active
  entry,       \* ssh-access.json: the version the keys belong to, and the keys
  registered,  \* history: the version with which each key was registered last
  request,     \* what each request does and remembers
  renewal,     \* where the renewal is, and what it has read
  jump,        \* keys that pass the entry: keys/<login>
  authorized,  \* keys that sshd accepts: authorized_keys
  manifest,    \* access.json: the keys its revision stands for, None at first
  lease,       \* seconds until the manifest expires
  sshd,        \* the revision the running sshd was started with, None if none runs
  session,     \* its key, and whether the supervisor's connections have it
  turn,        \* where the supervisor's loop is, and the revision it may start sshd with
  alive,       \* the provisioner runs
  polled,      \* the supervisor has looked at the manifest since it was written
  changes, faults

sshVars == <<account, entry, registered, request, renewal, jump, authorized, manifest, lease,
             sshd, session, turn, alive, polled, changes, faults>>
registration == <<account, entry, registered, request, changes>>
files == <<jump, authorized, manifest>>
daemon == <<lease, sshd, session, turn, polled>>

Steps == {"idle", "keys", "jump", "authorized", "manifest"}
\* A session is unseen until a scan finds it; escaped when its sshd ended before.
Found == {"none", "unseen", "tracked", "escaped"}
Turns == {"poll", "scan", "kill", "shut", "track"}
Versions == 1..(MaxChanges + 1)
NoRequest == [op |-> None, key |-> None, version |-> 0]
Resting == [step |-> "idle", version |-> 0, active |-> FALSE, keys |-> {}]
NoSession == [key |-> None, found |-> "none"]
Waiting == [step |-> "poll", found |-> None]

Init ==
  /\ account = [version |-> 1, active |-> TRUE]
  /\ entry \in [version : {1}, keys : SUBSET Keys]
  /\ registered = [k \in Keys |-> IF k \in entry.keys THEN 1 ELSE 0]
  /\ request = [r \in Requests |-> NoRequest]
  /\ renewal = Resting
  /\ jump = {} /\ authorized = {} /\ manifest = None /\ lease = 0
  /\ sshd = None /\ session = NoSession /\ turn = Waiting
  /\ alive = TRUE /\ polled = TRUE
  /\ changes = 0 /\ faults = 0

----------------------------------------------------------------------------
(* The account and its keys.                                                 *)

\* sshKeysForUser, of an account and an entry.
KeysFor(version, active, e) == IF active /\ e.version = version THEN e.keys ELSE {}
Permitted == KeysFor(account.version, account.active, entry)

Counted == changes < MaxChanges /\ changes' = changes + 1

\* UserStore.update and revokeAccess.
ChangeAccount ==
  /\ Counted
  /\ \E b \in BOOLEAN : account' = [version |-> account.version + 1, active |-> b]
  /\ UNCHANGED <<entry, registered, request, renewal, files, daemon, alive, faults>>

\* The router's session: the account as it is when the request arrives.
Arrive(r, op, k) ==
  /\ request[r] = NoRequest /\ account.active
  /\ request' = [request EXCEPT ![r] = [op |-> op, key |-> k, version |-> account.version]]
  /\ UNCHANGED <<account, entry, registered, changes, renewal, files, daemon, alive, faults>>

Finished(r) == request' = [request EXCEPT ![r] = NoRequest]

\* Faulty variant: the keys of another version are kept.
AddKeeping(r) ==
  /\ request[r].op = "add" /\ Counted
  /\ entry' = [version |-> request[r].version, keys |-> entry.keys \cup {request[r].key}]
  /\ registered' = [registered EXCEPT ![request[r].key] =
                      IF request[r].key \in entry.keys THEN @ ELSE request[r].version]
  /\ Finished(r)
  /\ UNCHANGED <<account, renewal, files, daemon, alive, faults>>

\* SshAccessStore.add: keys of another version of the account are dropped.
Add(r) ==
  /\ request[r].op = "add"
  /\ LET v == request[r].version
         k == request[r].key
         kept == IF entry.version = v THEN entry.keys ELSE {}
     IN  \/ k \in kept /\ UNCHANGED <<entry, registered, changes>>
         \/ /\ k \notin kept /\ Counted
            /\ entry' = [version |-> v, keys |-> kept \cup {k}]
            /\ registered' = [registered EXCEPT ![k] = v]
  /\ Finished(r)
  /\ UNCHANGED <<account, renewal, files, daemon, alive, faults>>

\* SshAccessStore.remove.
Remove(r) ==
  /\ request[r].op = "remove"
  /\ IF entry.version = request[r].version /\ request[r].key \in entry.keys
     THEN Counted /\ entry' = [entry EXCEPT !.keys = @ \ {request[r].key}]
     ELSE UNCHANGED <<entry, changes>>
  /\ Finished(r)
  /\ UNCHANGED <<account, registered, renewal, files, daemon, alive, faults>>

----------------------------------------------------------------------------
(* The renewal, every five seconds.                                          *)

In(step) == alive /\ renewal.step = step
To(step) == renewal' = [renewal EXCEPT !.step = step]

\* users.json.  The pause between two renewals is longer than the supervisor's.
ReadAccount ==
  /\ In("idle") /\ polled
  /\ renewal' = [renewal EXCEPT !.step = "keys", !.version = account.version,
                                !.active = account.active]
  /\ UNCHANGED <<registration, files, daemon, alive, faults>>

\* ssh-access.json.
ReadKeys ==
  /\ In("keys")
  /\ renewal' = [Resting EXCEPT !.step = "jump",
                   !.keys = KeysFor(renewal.version, renewal.active, entry)]
  /\ UNCHANGED <<registration, files, daemon, alive, faults>>

\* The entry's key file and passwd.
WriteJump ==
  /\ In("jump")
  /\ jump' = renewal.keys
  /\ To("authorized")
  /\ UNCHANGED <<registration, authorized, manifest, daemon, alive, faults>>

WriteAuthorized ==
  /\ In("authorized")
  /\ authorized' = renewal.keys
  /\ To("manifest")
  /\ UNCHANGED <<registration, jump, manifest, daemon, alive, faults>>

\* access.json: enabled, the revision of the keys, and the lease.
Publish ==
  /\ manifest' = renewal.keys
  /\ lease' = Lease
  /\ polled' = FALSE

WriteManifest ==
  /\ In("manifest")
  /\ Publish
  /\ renewal' = Resting
  /\ UNCHANGED <<registration, jump, authorized, sshd, session, turn, alive, faults>>

\* A write fails, or the provisioner restarts: the renewal begins anew.
RenewalFails ==
  /\ renewal.step # "idle" /\ faults < MaxFaults
  /\ faults' = faults + 1
  /\ renewal' = Resting
  /\ UNCHANGED <<registration, files, daemon, alive>>

ProvisionerDies ==
  /\ alive
  /\ alive' = FALSE
  /\ renewal' = Resting
  /\ UNCHANGED <<registration, files, daemon, faults>>

----------------------------------------------------------------------------
(* sshd and its supervisor.                                                  *)

Ready == manifest \notin {None, {}} /\ lease > 0

Turn(step) == turn.step = step
Proceed(step) == turn' = [turn EXCEPT !.step = step]

\* An sshd for a revision, None when the manifest allows none, unless one runs.
Start(running, revision) == sshd' = IF running = None THEN revision ELSE running

\* One read of the manifest, and what follows at once: the beginning of a stop, or
\* the start of an sshd.
Reads(stops) ==
  /\ Turn("poll")
  /\ LET revision == IF Ready THEN manifest ELSE None IN
     \/ stops /\ turn' = [step |-> "scan", found |-> revision] /\ UNCHANGED sshd
     \/ ~stops /\ turn' = [step |-> "track", found |-> None] /\ Start(sshd, revision)
  /\ polled' = TRUE
  /\ UNCHANGED <<registration, renewal, files, lease, session, alive, faults>>

\* Faulty variant: the supervisor only looks at the lease.
PollLeaseOnly == Reads(~Ready)

\* The beginning of a turn: the end of the lease and another revision stop sshd.
Poll == Reads(~Ready \/ (sshd # None /\ sshd # manifest))

\* What becomes of a session that is in one state.
Become(before, after) ==
  session' = IF session.found = before THEN after ELSE session

Tracking == [session EXCEPT !.found = "tracked"]
Orphaned == [session EXCEPT !.found = "escaped"]

\* trackConnections: the sessions of the running sshd are added to connections.
Tracked == IF sshd # None THEN Become("unseen", Tracking) ELSE UNCHANGED session

\* With its sshd the way to a session that no scan has found is gone.
Orphans == Become("unseen", Orphaned)

\* stopSsh, the scan that comes before the signals.
Scan ==
  /\ Turn("scan")
  /\ Tracked
  /\ Proceed("kill")
  /\ UNCHANGED <<registration, renewal, files, lease, sshd, polled, alive, faults>>

\* stopSsh, the connections: one after the other, then none is remembered.
Kill ==
  /\ Turn("kill")
  /\ Become("tracked", NoSession)
  /\ Proceed("shut")
  /\ UNCHANGED <<registration, renewal, files, lease, sshd, polled, alive, faults>>

\* stopSsh, the listener: it has ended, after SIGKILL at the latest, and a new sshd is
\* started with the revision that was read at the beginning of the turn.
Shut ==
  /\ Turn("shut")
  /\ Orphans
  /\ Start(None, turn.found)
  /\ turn' = [step |-> "track", found |-> None]
  /\ UNCHANGED <<registration, renewal, files, lease, polled, alive, faults>>

\* The scan at the end of a turn, and the pause.
Track ==
  /\ Turn("track")
  /\ Tracked
  /\ turn' = Waiting
  /\ UNCHANGED <<registration, renewal, files, lease, sshd, polled, alive, faults>>

Supervise == Poll \/ Scan \/ Kill \/ Shut \/ Track

\* sshd exits by itself; its sessions go on.
SshdExits ==
  /\ sshd # None /\ faults < MaxFaults
  /\ faults' = faults + 1
  /\ sshd' = None /\ Orphans
  /\ UNCHANGED <<registration, renewal, files, lease, turn, polled, alive>>

Connect(k) ==
  /\ sshd # None /\ k \in jump \cap authorized /\ session = NoSession
  /\ session' = [key |-> k, found |-> "unseen"]
  /\ UNCHANGED <<registration, renewal, files, lease, sshd, turn, polled, alive, faults>>

\* The session ends at the client's side.
Disconnect ==
  /\ session # NoSession
  /\ session' = NoSession
  /\ UNCHANGED <<registration, renewal, files, lease, sshd, turn, polled, alive, faults>>

\* Time passes on the lease.
Tick ==
  /\ lease > 0
  /\ lease' = lease - 1
  /\ UNCHANGED <<registration, renewal, files, sshd, session, turn, polled, alive, faults>>

Next ==
  \/ ChangeAccount
  \/ \E r \in Requests :
       \/ \E op \in {"add", "remove"}, k \in Keys : Arrive(r, op, k)
       \/ Add(r) \/ Remove(r)
  \/ ReadAccount \/ ReadKeys \/ WriteJump \/ WriteAuthorized \/ WriteManifest
  \/ RenewalFails \/ ProvisionerDies
  \/ Supervise \/ SshdExits \/ Tick
  \/ (\E k \in Keys : Connect(k)) \/ Disconnect

Spec == Init /\ [][Next]_sshVars

\* The supervisor's loop turns and time passes, whatever the provisioner does.
FairSpec == Spec /\ WF_sshVars(Supervise) /\ WF_sshVars(Tick)

----------------------------------------------------------------------------
\* The state is well formed (ssh-access.json, the files of the registry).
TypeOK ==
  /\ account \in [version : Versions, active : BOOLEAN]
  /\ entry \in [version : Versions, keys : SUBSET Keys]
  /\ registered \in [Keys -> Versions \cup {0}]
  /\ renewal \in [step : Steps, version : Nat, active : BOOLEAN, keys : SUBSET Keys]
  /\ jump \subseteq Keys /\ authorized \subseteq Keys
  /\ session \in [key : Keys \cup {None}, found : Found]
  /\ manifest \in (SUBSET Keys) \cup {None} /\ sshd \in (SUBSET Keys) \cup {None}
  /\ turn \in [step : Turns, found : (SUBSET Keys) \cup {None}]
  /\ lease \in 0..Lease
  /\ alive \in BOOLEAN /\ polled \in BOOLEAN
  /\ changes \in 0..MaxChanges /\ faults \in 0..MaxFaults

\* After a change of the account its keys must be registered again: no key is in
\* force that was registered before the change, not even when a request that began
\* before it arrives late.
KeysRegisteredAgain == \A k \in Permitted : registered[k] = account.version

\* A session of a key that is no longer in force ends, unless the key comes back in
\* force first: by the next renewal, or by the end of the lease if the provisioner
\* died at any point.  Only a session that began while a stop was under way, too late
\* for its scan, is not meant: once the listener has ended nobody knows of it.
RevokedSessionsEnd ==
  (session.found \in {"unseen", "tracked"} /\ session.key \notin Permitted)
    ~> (session.found \in {"none", "escaped"} \/ session.key \in Permitted)
=============================================================================
