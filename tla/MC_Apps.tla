------------------------------ MODULE MC_Apps ------------------------------
(***************************************************************************)
(* Instance for TLC of what accounts have on the host and what makes it    *)
(* reachable: the deployment of apps, the previews of the gateway, the     *)
(* tunnels of the runner, and the directories of workspaces.  A behaviour  *)
(* is one of the part chosen at the start; the others stay as they began.  *)
(***************************************************************************)
EXTENDS Apps, TLC

CONSTANTS
  Viewers, Slugs, Codes, Cookies, Visits, MaxCodes, MaxEvents,  \* Previews
  Ids, Conns, MaxAge, Skew, MaxTunnels, MaxSeen, MaxTime,       \* Tunnels
  MaxUpsets,
  Users, Legacy, Roots, Inside, Aliases, MaxNames, Installers,  \* Workspaces
  MaxAccidents

VARIABLES
  part,
  viewers, published, publicLinks, codes, cookies, visit, events,
  clock, issued, seen, active, conn, upsets, accepted, exposed,
  installation, status, cache, installer, made, record, box, old, volumes, pass, accidents

Preview == INSTANCE Previews
Tunnel == INSTANCE Tunnels
Directory ==
  INSTANCE Workspaces WITH Handlers <- Installers, MaxFaults <- MaxAccidents,
                           published <- status, faults <- accidents

ASSUME ReachAssumption ==
  /\ Preview!PreviewsAssumption /\ Tunnel!TunnelsAssumption
  /\ Directory!WorkspacesAssumption

previewPart == <<viewers, published, publicLinks, codes, cookies, visit, events>>
tunnelPart == <<clock, issued, seen, active, conn, upsets, accepted, exposed>>
directoryPart == <<installation, status, cache, installer, made, record, box, old, volumes,
                   pass, accidents>>
reachVars == <<part, appVars, previewPart, tunnelPart, directoryPart>>

ReachInit ==
  /\ part \in {"apps", "previews", "tunnels", "directories"}
  /\ Init /\ Preview!Init /\ Tunnel!Init /\ Directory!Init
  /\ part # "previews" => \A v \in Viewers : viewers[v].role = "user"

AppStep ==
  part = "apps" /\ Next /\ UNCHANGED <<part, previewPart, tunnelPart, directoryPart>>
PreviewStep ==
  part = "previews" /\ Preview!Next /\ UNCHANGED <<part, appVars, tunnelPart, directoryPart>>
TunnelStep ==
  part = "tunnels" /\ Tunnel!Next /\ UNCHANGED <<part, appVars, previewPart, directoryPart>>
DirectoryStep ==
  part = "directories" /\ Directory!Next /\ UNCHANGED <<part, appVars, previewPart, tunnelPart>>

ReachNext == AppStep \/ PreviewStep \/ TunnelStep \/ DirectoryStep

ReachSpec == ReachInit /\ [][ReachNext]_reachVars

Symmetry == Permutations(Owners) \cup Permutations(Handlers) \cup Permutations(Procs)

----------------------------------------------------------------------------
\* The state of every part is well formed (apps.json and the servers, the codes and
\* cookies of previews, the tunnels, workspace-dirs.json and the mounts).
ReachTypeOK ==
  /\ part = "apps" => TypeOK
  /\ part = "previews" => Preview!TypeOK
  /\ part = "tunnels" => Tunnel!TypeOK
  /\ part = "directories" => Directory!TypeOK

\* Previews: a request is not let through on rights that ended before it began
\* (preview-proxy.ts).
RevocationEndsPreview == Preview!RevocationEndsPreview

\* Tunnels: a request id opens one tunnel, whatever is sent again, and another only after
\* a restart of the runner or a reversal of its clock (ipc-server.ts).
OneTunnelPerRequest == Tunnel!OneTunnelPerRequest

\* Workspaces: the directory of an account was made for it (runner-operations.mjs,
\* assignWorkspace and moveWorkspace).
DirectoriesAreOwn == Directory!DirectoriesAreOwn
=============================================================================
