SPECIFICATION Spec
CONSTANTS
  Hosts = {h1, h2}
  Device = Device
  NoHost = NoHost
  NoFile = NoFile
  InitRecords = 1
  InitSynced = {h1}
  Editors = {Device, h1, h2}
  MaxEdits = 2
  MaxFaults = 1
  Faults = {"disconnect", "refuse", "archive", "disk", "crash"}
  ArchiveMarks <- PoliteArchive
  ExpungeMarks <- AnyExpunge
  WriteMarks <- WrittenAny
  Forced = {}
  OpenOnPalm = {FALSE}
INVARIANTS Inductive UniqueIds FaultlessEditsSurvive
