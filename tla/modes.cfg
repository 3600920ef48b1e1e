SPECIFICATION FairSpec
CONSTANTS
  None = None
  NoName = NoName
  Garbage = Garbage
  NotYet = NotYet
  NoSerial = NoSerial
  Special = Special
  Star = Star
  Nobody = Nobody
  d1 = d1
  d2 = d2
  f1 = f1
  f2 = f2
  f3 = f3
  ann = ann
  bob = bob
  anns = anns
  bobs = bobs
  s1 = s1
  MaxFaults = 2
  DB = {d1, d2}
  Ver = {1, 2}
  Owners <- SomeOwners
  Serials <- SomeSerials
  Devices <- AnyDevice
  Palments <- ByNumber
  Blocks <- SomeBlocks
  Accounts = {anns, bobs}
  Sorted = {d2}
  Files = {f1, f2, f3}
  Named <- OfNamed
  Version <- OfVersion
  Locked = {f3}
  Modes = {"standalone", "daemon", "init", "backup", "restore", "list", "info"}
  Me <- MyUser
  Autos = {TRUE, FALSE}
INVARIANTS TypeOK SyncsRightUser  
PROPERTIES AutoinitOnlyBlank 
