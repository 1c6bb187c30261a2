SPECIFICATION Spec
CONSTANTS
  None = None
  Passwords = {p1, p2, weak}
  Weak = {weak}
  MaxSpawns = 3
INVARIANT TypeOK
PROPERTIES
  ChangeReportIsTrue
  AnswersOnlyWhenPending
  AuthReportIsTrue
  NeverKillsChange
  SuccessIsReported
  KeepsPromise
