SPECIFICATION FairSpec
CONSTANTS
  Clients = {c1, c2}
  Universes = {"u1", "u2"}
  Addresses <- MCAddresses
  Commands = {"k1", "k2", "k3"}
  Bodies = {"create", "other", "pair", "partial"}
  Requests <- MCRequests
  Library <- MCLibrary
  Positions <- MCPositions
  MaxCrashes = 1
INVARIANTS
  TypeOK
  CommandOnce
  StreamHistory
  FenceSerializes
PROPERTIES
  ReplayOrder
  RetryNeverRefused
  ImplementsCommandLog
  EveryCallReturns
