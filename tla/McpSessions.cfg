CONSTANTS
  Sessions = {s1, s2, s3, s4}
  Requests = {r1, r2}
  Users = {u1, u2}
  Clients = {c1, c2, c3}
  PerClient = 1
  PerUser = 2
  IdleTicks = 1
  None = None
SYMMETRY Symmetry
SPECIFICATION Spec
CHECK_DEADLOCK TRUE
INVARIANTS AdmissionBound EvictionAdmits IdleTimerArmed
PROPERTIES AdmissionEvictsOwn
