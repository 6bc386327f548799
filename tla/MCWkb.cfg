SPECIFICATION Spec
CONSTANTS
  Inputs <- MCInputs
  UINT_MAX <- MCUintMax
  Native = 1
INVARIANTS NeverPastEnd SridInherited SizeAgrees RoundTrip DamageFails ChecksKept
CHECK_DEADLOCK FALSE
