SPECIFICATION FairProcesses
CONSTANTS
  alice = alice
  bob = bob
  Server = {s1}
  File = {f}
  User = {alice, bob}
  AclMaxUsers = 2
  MaxRequests = 2
  CacheSize = 1
  MaxFiles = 3
  MaxServers = 2
  MaxClients = 2
  MaxQueue = 2
  Timeout = 0
  NoServer = NoServer
  NoEntry = NoEntry
  NoUser = NoUser
  NsCaller = NsCaller
  MaxWords = 1
  QuickRestart = FALSE
  Commands <- Typed
  Ops = {"client", "create", "query", "route"}
PROPERTIES
  NameServerComesBack
