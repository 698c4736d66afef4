SPECIFICATION Spec
CONSTANTS
  Motors = {0, 1, 2}
  Throttles = {low, high}
  Duration = 1
INVARIANTS ModesAgree TestDrivesItsMotor
PROPERTY TimedTestEnds
