SPECIFICATION Spec
CONSTANTS
  TableSizes <- TwoSizes
  NULL = 0
  Programs = {1, 2}
  PortIds = {3, 10}
  Files = {"f", "g"}
  Missing = "none"
  BootDir = "/boot"
  RootDir = "/"
  NoName = "no name"
  FileSize = 3
  Page = 2
  Counts = {2, 3}
  MAX_FDS = 3
  OwnFds = {0, 1}
  MAX_MSGCOUNT = 2
  Role <- Roles
  ReuseIds = FALSE
  ReadsToEnd = TRUE
INVARIANT CallsAnswered
CHECK_DEADLOCK FALSE
