CONSTANTS
  Heads <- MC_Heads
  Options <- MC_Options
  MaxOpts = 2
  Dirs <- MC_Dirs
  GOOSes <- MC_GOOSes
SPECIFICATION Spec
CHECK_DEADLOCK FALSE
INVARIANTS
  ParseMatchesSpec
  LaunchArgsMatchConnection
