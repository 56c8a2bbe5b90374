SPECIFICATION Spec
CONSTANTS
  MaxRsrc = 14
  KernelTeam = 99
  BottomPage = 1
  TopPage = 6
  DevicePages = {100, 101}
  TabSize = 5
  DefaultStart = 2
  MaxGroups = 7
  Sizes = {1}
  GrowTo = {4}
  Breaks = {2}
  Virts = {0}
  MaxMade = 2
  Cloned = {5, 6, 9, 13}
  Images <- MCImages
  TextPages = 1
  HeapPages = 1
  MayOwnPorts = TRUE
  WithinTable = TRUE
  ResizeWhole = TRUE
INVARIANT ResourcesAccounted
INVARIANT PagesAccounted
INVARIANT TableMatchesAreas
INVARIANT OnlyMastersOutliveTeams
CHECK_DEADLOCK FALSE
