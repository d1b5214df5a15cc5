CONSTANTS
  Owners = {u1, u2}
  Names = {n1}
  Procs = {p1, p2}
  Handlers = {h1, h2}
  MaxApps = 1
  MaxFaults = 1
  Viewers = {u1, u2}
  Slugs = {n1}
  Codes = {p1, p2}
  Cookies = {p1, p2}
  Visits = {h1, h2}
  MaxCodes = 1
  MaxEvents = 2
  Ids = {p1, p2}
  Conns = {h1, h2}
  MaxAge = 2
  Skew = 1
  MaxTunnels = 1
  MaxSeen = 1
  MaxTime = 5
  MaxUpsets = 2
  Users = {u1, u2, l}
  Legacy = {l}
  Roots = {r1, r2}
  Inside = {r2}
  Aliases = {}
  MaxNames = 1
  Installers = {i}
  MaxAccidents = 2
  None = None
SYMMETRY Symmetry
SPECIFICATION ReachSpec
INVARIANTS ReachTypeOK ProcessOfOwner ServersAreTracked RevocationEndsPreview OneTunnelPerRequest DirectoriesAreOwn
CHECK_DEADLOCK FALSE
