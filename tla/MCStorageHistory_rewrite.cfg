SPECIFICATION HistorySpec
CONSTANTS
  doc = doc
  docTmp = docTmp
  chr = chr
  v1 = v1
  dir = dir
  Stop = Stop
  Space = Space
  NoLock = NoLock
  NoFile = NoFile
  Letter <- MCLetter
  Client = {alice, bob}
  Name <- MCName
  Doc = {doc}
  TmpOf <- MCTmpOf
  Folder = {dir}
  Tag = {v1}
  Key <- MCKey
  Insert <- MCInsert
  Garbage <- MCGarbage
  LockTimeout = 1
  MaxTime = 0
  MaxContent = 20
  MaxPerWord = 2
  MaxScan = 2
  MaxSentence = 1
  MaxWords = 2
  MaxText = 4
  Ops = {"write", "undo", "create", "crash"}
INVARIANTS
  DocumentsSurvive
