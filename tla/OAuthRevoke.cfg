CONSTANTS
  Users = {u1}
  Clients = {c1}
  Codes = {k1, k2}
  Pairs = {p1, p2, p3}
  Handlers = {h1, h2}
  Variants = {v1}
  MaxChanges = 1
  None = None
SYMMETRY Symmetry
SPECIFICATION Spec
INVARIANT RevokedConnectionHasNoAccess
