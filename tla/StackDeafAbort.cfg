SPECIFICATION Spec
CONSTANTS
  ArmZero = 1
  SpinUp = 1
  DropAfter = 1
  BenchTime = 2
  NavLead = 1
  Commands = {"ABORT"}
  BaroMayFail = TRUE
PROPERTIES AbortStopsMotors
