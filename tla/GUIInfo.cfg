CONSTANTS
  Displays <- MC_Displays
  Sizes <- MC_Sizes
  AudioDevices <- MC_AudioDevices
SPECIFICATION Spec
CHECK_DEADLOCK FALSE
INVARIANT DisplayEnabledMeansScanout
INVARIANT WindowOpensAtScanoutSize
