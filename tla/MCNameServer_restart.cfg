SPECIFICATION Spec
CONSTANTS
  Server = {s1}
  File = {f}
  User = {alice, bob}
  AclMaxUsers = 2
  MaxRequests = 2
  CacheSize = 1
  MaxFiles = 3
  MaxServers = 2
  MaxClients = 1
  MaxQueue = 2
  Timeout = 0
  NoServer = NoServer
  NoEntry = NoEntry
  Ops = {"client", "create", "access", "nsstop"}
PROPERTIES
  AclSurvivesRestart
