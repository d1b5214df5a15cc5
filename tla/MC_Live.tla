------------------------------ MODULE MC_Live ------------------------------
(***************************************************************************)
(* Instance for TLC of what must happen in the end: MCP sessions, the      *)
(* processes of a runner and the SSH sessions of a workspace.  A behaviour *)
(* is one of the part chosen at the start and is fair to the steps of that *)
(* part; the others stay as they began.                                    *)
(***************************************************************************)
EXTENDS Naturals

CONSTANTS
  Sessions, Requests, Users, Clients, PerClient, PerUser, IdleTicks,   \* McpSessions
  Execs, Stoppers, MaxConcurrent, MaxCrashes, MaxFaults,               \* ProcessService
  Keys, SshRequests, Lease, MaxChanges, MaxSshFaults,                  \* SshAccess
  None

VARIABLES
  part,
  state, owner, active, age, timer, req, admitting,
  rec, mode, proc, pipe, launch, completion, stopReq, stops, up, crashes, faults, asked,
  lost, faulted,
  account, entry, registered, request, renewal, jump, authorized, manifest, lease,
  sshd, session, turn, alive, polled, changes, sshFaults

Mcp == INSTANCE McpSessions
Runner == INSTANCE ProcessService
Ssh == INSTANCE SshAccess
         WITH Requests <- SshRequests, MaxFaults <- MaxSshFaults, faults <- sshFaults

mcpPart == <<state, owner, active, age, timer, req, admitting>>
runnerPart == <<rec, mode, proc, pipe, launch, completion, stopReq, stops, up, crashes,
                faults, asked, lost, faulted>>
sshPart == <<account, entry, registered, request, renewal, jump, authorized, manifest,
             lease, sshd, session, turn, alive, polled, changes, sshFaults>>
liveVars == <<part, mcpPart, runnerPart, sshPart>>

LiveInit ==
  /\ part \in {"mcp", "runner", "ssh"}
  /\ Mcp!Init /\ Runner!Init /\ Ssh!Init
  /\ entry.keys = Keys

McpStep == part = "mcp" /\ Mcp!Next /\ UNCHANGED <<part, runnerPart, sshPart>>
RunnerStep == part = "runner" /\ Runner!Next /\ UNCHANGED <<part, mcpPart, sshPart>>
SshStep == part = "ssh" /\ Ssh!Next /\ UNCHANGED <<part, mcpPart, runnerPart>>

LiveNext == McpStep \/ RunnerStep \/ SshStep

\* McpSessions!Fairness, of the behaviours that are of it.
McpFairness ==
  /\ SF_mcpPart(part = "mcp" /\ Mcp!Tick)
  /\ \A s \in Sessions : SF_mcpPart(part = "mcp" /\ Mcp!IdleTimeout(s))
  /\ WF_mcpPart(part = "mcp" /\ (Mcp!EvictOne \/ Mcp!Refuse \/ Mcp!Reserve))
  /\ \A r \in Requests : SF_mcpPart(part = "mcp" /\ Mcp!InitReturn(r))

\* ProcessService!Fairness.
RunnerFairness ==
  /\ \A e \in Execs : /\ WF_runnerPart(part = "runner" /\ Runner!LaunchRecord(e))
                      /\ WF_runnerPart(part = "runner" /\ Runner!LaunchReturn(e))
                      /\ WF_runnerPart(part = "runner" /\ Runner!Complete(e))
  /\ \A c \in Stoppers : WF_runnerPart(part = "runner" /\ Runner!Stopping(c))
  /\ WF_runnerPart(part = "runner" /\ Runner!Restart)

\* The fairness of SshAccess: the loop of the supervisor and the clock.
SshFairness ==
  WF_sshPart(part = "ssh" /\ Ssh!Supervise) /\ WF_sshPart(part = "ssh" /\ Ssh!Tick)

LiveSpec ==
  /\ LiveInit /\ [][LiveNext]_liveVars
  /\ McpFairness /\ RunnerFairness /\ SshFairness

----------------------------------------------------------------------------
\* McpSessions: a session that nobody uses is removed, however often others come and go
\* (mcp-session-registry.ts).
IdleSessionsExpire == Mcp!IdleSessionsExpire

\* McpSessions: an initialization does not hold its place under the limits for ever
\* (mcp-session-registry.ts, app.ts).
ReservationsEnd == Mcp!ReservationsEnd

\* ProcessService: the end of every process is recorded, also across a restart
\* (process-service.ts).
ExitIsRecorded == Runner!ExitIsRecorded

\* ProcessService: every stop() call returns (process-service.ts).
StopReturns == Runner!StopReturns

\* SshAccess: an open session of a key that may no longer enter is ended, when no renewal
\* fails and nothing is restarted (ssh-registry.mjs, ssh-server.mjs).
RevokedSessionsEnd == Ssh!RevokedSessionsEnd
=============================================================================
