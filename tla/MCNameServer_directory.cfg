SPECIFICATION Spec
CONSTANTS
  Server = {s1, s2}
  File = {f}
  User = {alice}
  AclMaxUsers = 2
  MaxRequests = 2
  CacheSize = 1
  MaxFiles = 1
  MaxServers = 2
  MaxClients = 1
  MaxQueue = 2
  Timeout = 0
  NoServer = NoServer
  NoEntry = NoEntry
  Ops = {"create", "delete", "route", "query", "crash", "restart", "nscrash", "savefault"}
SYMMETRY ServerSymmetry
INVARIANTS
  CacheAgrees
