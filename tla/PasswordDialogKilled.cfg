SPECIFICATION DialogSpec
CONSTANTS
  None = None
  Empty = Empty
  Passwords = {p1, p2, weak}
  Weak = {weak}
  Strong = {p2, weak}
  MaxSpawns = 1
PROPERTY KilledOnlyWhenDone
