CONSTANTS
  Accounts = {u1, u2, l}
  Legacy = {l}
  Tokens = {t1}
  Changes <- AllChanges
  Handlers = {h1, h2}
  MaxChanges = 3
  Pages = {g1}
  Fields = {f1, f2}
  Values = {x}
  MaxKept = 1
  MaxContents = 2
  MaxNumbers = 3
  PageBytes = 3
  MaxBytes = 5
  None = None
SYMMETRY Symmetry
SPECIFICATION ConsoleSpec
INVARIANTS ConsoleTypeOK SessionsAreCurrent TailIsShown
PROPERTIES AdminRemains PagesFollowTheServer OverStaysOver
CHECK_DEADLOCK FALSE
