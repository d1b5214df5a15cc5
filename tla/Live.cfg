CONSTANTS
  Sessions = {s1, s2}
  Requests = {r1, r2}
  Users = {u1}
  Clients = {c1, c2}
  PerClient = 1
  PerUser = 1
  IdleTicks = 2
  Execs = {e1}
  Stoppers = {t1, t2}
  MaxConcurrent = 1
  MaxCrashes = 1
  MaxFaults = 1
  Keys = {k1, k2}
  SshRequests = {r1}
  Lease = 1
  MaxChanges = 1
  MaxSshFaults = 0
  None = None
SPECIFICATION LiveSpec
CHECK_DEADLOCK FALSE
PROPERTIES IdleSessionsExpire ReservationsEnd ExitIsRecorded StopReturns RevokedSessionsEnd
