SPECIFICATION Spec
CONSTANTS
  pci = pci
  bt = bt
  analog = analog
  digital = digital
  a2dp = a2dp
  off = off
  speaker = speaker
  headphones = headphones
  hdmi = hdmi
  pci_analog = pci_analog
  pci_hdmi = pci_hdmi
  bt_sink = bt_sink
  net_sink = net_sink
  NoPort = NoPort
  NoProfile = NoProfile
  NoName = NoName
  Names <- MCNames
  Cards <- MCCards
  InternalCards <- MCInternalCards
  Ports <- MCPorts
  Profiles <- MCProfiles
  CardProfiles <- MCCardProfiles
  ProfileSinks <- MCProfileSinks
  SinkPorts <- MCSinkPorts
  NetworkNames <- MCNetworkNames
  MaxEvents = 1
  MaxSelections = 0
  MaxFailures = 0
INVARIANTS
  SyncFindsDevices
CHECK_DEADLOCK FALSE
