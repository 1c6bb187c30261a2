SPECIFICATION Spec
CONSTANTS
  Panels <- AllPanels
  Config <- MCConfig
INVARIANTS
  NetworkIsTheOneShown
  PagesMatchSelection
  DevicesAreKnown
  BluetoothActsOnTheDeviceShown
  DisplayStaysUsable
  ShortcutsAreConsistent
  RegionTellsSettings
  SharingTellsNetworks
  OptionsBelongToTheDialog
  ColorActsOnTheSelected
  AppearanceTellsSettings
  DateTimeSetsTheEdited
  AccountsAreTold
PROPERTY
  EditsLeaveTheRest
\* A panel at rest waits for the user.
CHECK_DEADLOCK FALSE
