SPECIFICATION Spec
CONSTANTS
  doc = doc
  docTmp = docTmp
  chr = chr
  v1 = v1
  dir = dir
  Stop = Stop
  Space = Space
  NoLock = NoLock
  NoFile = NoFile
  Letter <- MCLetter
  Client = {alice, bob}
  Name <- MCName
  Doc = {doc}
  TmpOf <- MCTmpOf
  Folder = {dir}
  Tag = {v1}
  Key <- MCKey
  Insert <- MCInsert
  Garbage <- MCGarbage
  LockTimeout = 1
  MaxTime = 1
  MaxContent = 20
  MaxPerWord = 1
  MaxScan = 2
  MaxSentence = 1
  MaxWords = 1
  MaxText = 3
  Ops = {"write", "cancel", "undo", "checkpoint", "revert", "move", "create", "delete", "crash", "iofault"}
INVARIANTS
  TypeOK
  NoLockOutlivesItsConnection
  SessionIsTheConnections
  UndoHoldsSessionText
PROPERTIES
  SessionKeepsLiveLock
  CheckpointsNeverChange
