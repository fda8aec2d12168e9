SPECIFICATION Spec
CONSTANTS
  Server = {s1}
  File = {f}
  User = {alice, bob, carol}
  AclMaxUsers = 1
  MaxRequests = 2
  CacheSize = 1
  MaxFiles = 3
  MaxServers = 2
  MaxClients = 1
  MaxQueue = 2
  Timeout = 0
  NoServer = NoServer
  NoEntry = NoEntry
  Ops = {"client", "create", "delete", "route", "move", "query", "access", "request", "nscrash"}
INVARIANTS
  TypeOK
  
  DiskGrantsNoMore
PROPERTIES
  RightsComeFromOwner
