\* Two clients of each address server.
CONSTANTS
  Clients = {"c1", "c2"}
  ServerIPs = {6, 7}
  Peers = {2}
  Configs <- MCConfigs
  MaxPoolSize = 4
  NoAddress = NoAddress
  DUIDs = {"d1", "d2"}
  IAIDs = {"ia"}
  AddressPools <- MCPools
  Stations = {m1, m2, m3}
SPECIFICATION MCSpec
INVARIANTS AckIsTheBinding   
PROPERTIES   AdvertisedPortTaken
CHECK_DEADLOCK FALSE
