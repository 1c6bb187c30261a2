\* Printers 1 and 2 are local, printer 3 is shared by another machine; the panel is opened without
\* printers, with one, and with two between which a third may come.
SPECIFICATION Spec
CONSTANTS
  Printers = {1, 2, 3}
  InitialSets = {{}, {2}, {1, 3}}
  Discovered = {3}
  LocalServer = TRUE
  MaxJobs = 2
  MaxChanges = 3
INVARIANTS
  ButtonsActOnShown
  ListFollowsServer
  ModelPageTellsRequests
  RenameAllOrNothing
PROPERTIES
  RenameKeepsQueuedJobs
CHECK_DEADLOCK FALSE
