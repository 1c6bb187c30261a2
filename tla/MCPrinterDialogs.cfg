SPECIFICATION Spec
CONSTANTS
  Devices <- MCDevices
  Info <- MCInfo
  Backends = 2
  Texts <- MCTexts
  InitialQueues <- MCInitialQueues
  Contested <- MCContested
  MaxSearches = 2
  MaxOthers = 1
  Jobs = 3
  InitialJobs = 2
  MaxJobChanges = 3
INVARIANTS
  AddInstallsSelected
  HandlersHaveTheirData
  JobButtonsMatchJob
PROPERTIES
  AddIsAnswered
CHECK_DEADLOCK FALSE
