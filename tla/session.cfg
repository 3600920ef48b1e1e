SPECIFICATION FairSpec
CONSTANTS
  None = None
  d1 = d1
  d2 = d2
  f1 = f1
  f2 = f2
  p1 = p1
  SAVED = SAVED
  UNSAVED = UNSAVED
  MaxFaults = 2
  DB = {d1, d2}
  Ver = {1, 2}
  Files = {f1, f2}
  Named <- OfNamed
  Version <- OfVersion
  Prefs = {p1}
  Configs <- AnyFlags
  PrefOn <- OnUnsaved
  Homes <- AnyHome
  Slots = 2
  Filtered = {d1}
  Filters = {TRUE, FALSE}
  Firsts = {TRUE, FALSE}
  Forces = {TRUE, FALSE}
INVARIANTS TypeOK FreedOnlyWhenLost InStep
PROPERTIES NothingLost AtticOnlyIfGone 
