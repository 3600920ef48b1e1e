SPECIFICATION Spec
CONSTANTS
  Hosts = {h1, h2}
  Device = Device
  NoHost = NoHost
  NoFile = NoFile
  InitRecords = 2
  InitSynced = {h1, h2}
  Editors = {Device}
  MaxEdits = 3
  MaxFaults = 0
  Faults = {}
  ArchiveMarks <- PoliteArchive
  ExpungeMarks <- AnyExpunge
  WriteMarks <- WrittenAny
  Forced = {}
  OpenOnPalm = {TRUE, FALSE}
INVARIANTS MirrorAfterSync CleanAfterSync DeletionsHold
