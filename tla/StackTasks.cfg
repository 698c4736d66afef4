SPECIFICATION Spec
CONSTANTS
  ArmZero = 1
  SpinUp = 1
  DropAfter = 1
  BenchTime = 2
  NavLead = 1
  Commands = {"LIFT", "CAL", "SIM", "ABORT", "CHUTE", "BENCH"}
  BaroMayFail = TRUE

PROPERTIES NoBenchInFlight ServosFollowMission UnwantedMotorsStop FlightLostOnlyTorn
