SPECIFICATION Spec
CONSTANTS
  None = None
  Passwords = {p1, p2}
  Weak = {}
  MaxSpawns = 2
PROPERTY ChangeIsHandled
