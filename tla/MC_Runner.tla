----------------------------- MODULE MC_Runner -----------------------------
(***************************************************************************)
(* Instance for TLC of what runs beside the gateway: the processes of a    *)
(* runner, the SSH access to a workspace, the telemetry of the host and    *)
(* the migrations of an environment.  A behaviour is one of the part       *)
(* chosen at the start; the others stay as they began.                     *)
(***************************************************************************)
EXTENDS ProcessService, TLC

CONSTANTS
  Keys, Requests, Lease, MaxChanges,         \* SshAccess
  Width, MaxGap, MaxTime, MaxReversals,      \* Telemetry
  NamedFirst, MaxWrites, MaxFails,           \* Migrations
  None

VARIABLES
  part,
  account, entry, registered, request, renewal, jump, authorized, manifest, lease,
  sshd, session, turn, alive, polled, changes, sshFaults,
  clock, previous, lastTs, pending, sample, rows, finalized, checkpoint, reversals, halts,
  failures, newest, behind,
  boxes, volumes, written, splits, names, pass, fails, interruptions, torn

Ssh == INSTANCE SshAccess WITH faults <- sshFaults
Collector == INSTANCE Telemetry WITH crashes <- halts
Migration == INSTANCE Migrations WITH crashes <- interruptions

ASSUME RunnerAssumption ==
  Ssh!SshAssumption /\ Collector!TelemetryAssumption /\ Migration!MigrationsAssumption

sshPart == <<account, entry, registered, request, renewal, jump, authorized, manifest,
             lease, sshd, session, turn, alive, polled, changes, sshFaults>>
telemetryPart == <<clock, previous, lastTs, pending, sample, rows, finalized, checkpoint,
                   reversals, halts, failures, newest, behind>>
migrationPart == <<boxes, volumes, written, splits, names, pass, fails, interruptions, torn>>
runnerVars == <<part, vars, sshPart, telemetryPart, migrationPart>>

RunnerInit ==
  /\ part \in {"processes", "ssh", "telemetry", "migrations"}
  /\ Init /\ Ssh!Init /\ Collector!Init /\ Migration!Init
  /\ entry.keys = Keys
  /\ part # "migrations" => boxes = Migration!Empty

ProcessStep ==
  part = "processes" /\ Next /\ UNCHANGED <<part, sshPart, telemetryPart, migrationPart>>
SshStep ==
  part = "ssh" /\ Ssh!Next /\ UNCHANGED <<part, vars, telemetryPart, migrationPart>>
TelemetryStep ==
  part = "telemetry" /\ Collector!Next /\ UNCHANGED <<part, vars, sshPart, migrationPart>>
MigrationStep ==
  part = "migrations" /\ Migration!Next /\ UNCHANGED <<part, vars, sshPart, telemetryPart>>

RunnerNext == ProcessStep \/ SshStep \/ TelemetryStep \/ MigrationStep

RunnerSpec == RunnerInit /\ [][RunnerNext]_runnerVars

\* A bound: after its second change SSH access is only followed with sshd's supervisor at
\* rest.  The registration of the keys does not depend on it.
SshBound == part = "ssh" /\ changes > 1 => session = Ssh!NoSession /\ turn = Ssh!Waiting

Symmetry == Permutations(Execs) \cup Permutations(Stoppers)

----------------------------------------------------------------------------
\* The state of every part is well formed (the registry and the calls of the process
\* service, the files and the daemon of SSH access, the collector and its files, the
\* containers and the volumes of a migration).
RunnerTypeOK ==
  /\ part = "processes" => TypeOK
  /\ part = "ssh" => Ssh!TypeOK
  /\ part = "telemetry" => Collector!TypeOK
  /\ part = "migrations" => Migration!TypeOK

\* SshAccess: no key outlives a change of the account without being registered again
\* (ssh-access-store.ts).
KeysRegisteredAgain == Ssh!KeysRegisteredAgain

\* Telemetry: what is in the history files is not lost (telemetry-store.mjs).
HistoryStays == Collector!HistoryStays

\* Telemetry: no tick is counted twice (telemetry-store.mjs).
CountedOnce == Collector!CountedOnce

\* Migrations: whoever works in a container sees all the work there is
\* (runner-operations.mjs, namingVolumes and beforeNamingMigration).
WorkIsShown == Migration!WorkIsShown

\* Migrations: a container is not removed before its replacements are ready
\* (split-runtime.mjs).
OriginalIsKept == Migration!OriginalIsKept

\* Migrations: a failed migration leaves the container as it found it
\* (split-runtime.mjs, migrateNames).
FailureRestores == Migration!FailureRestores
=============================================================================
