CONSTANTS
  Width = 4
  ScanBits = 1
  GuessBits = 2
  Special = {15}
  IfaceNames = {"lan", "dmz", "wan"}
  Bare = Bare
  NoPrefix = NoPrefix
  NoAddr = NoAddr
  InterfaceLists <- MCInterfaceLists
  LeaseLists <- MCLeaseLists
  ARPLists <- MCARPLists
  PeerLists <- MCPeerLists
  Queries <- MCQueries
  Counts = {0, 1, 5}
SPECIFICATION Spec
INVARIANTS
  IpamInv
  FreeAndCheckAgree
  NoNamedAddressIsOffered
CHECK_DEADLOCK FALSE
