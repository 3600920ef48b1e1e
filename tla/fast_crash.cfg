SPECIFICATION FairSpec
CONSTANTS
  Hosts = {h1}
  Device = Device
  NoHost = NoHost
  NoFile = NoFile
  InitRecords = 2
  InitSynced = {h1}
  Editors = {Device, h1}
  MaxEdits = 3
  MaxFaults = 2
  Faults = {"disconnect", "disk", "crash"}
  ArchiveMarks <- PoliteArchive
  ExpungeMarks <- AnyExpunge
  WriteMarks <- WrittenDirty
  Forced = {}
  OpenOnPalm = {FALSE}
INVARIANTS EditsSurvive MirrorAfterSync FlagsTrusted FaultlessDeletionsHold
PROPERTY SyncEnds
