SPECIFICATION Spec
CONSTANTS
  Heights <- MCHeights
  PadHeights = {0}
  Speeds <- MCSpeeds
  Thresholds <- MCThresholds
  AccelSamples <- CalmOnly
  LiftDeploys = {1}
  SimRequests = {TRUE, FALSE}
  LaunchAccelS = 1
  ConfirmGain = 1
  ConfirmS = 1
  FreefallS = 1
  ShockBlackoutS = 1
  EvidenceS = 1
  FallbackDrop = 2
  FallbackV = 2
  FallbackS = 2
  AfterReleaseS = 2
  OpenS = 2
  TumbleS = 2
  RecoverS = 2
  PadStillV = 1
  PadStillH = 1
  AccelGapMax = 1
  StepGapMax = 1
  AgeCap = 3
INVARIANTS TypeOK MotorsSafe MissionInv
PROPERTIES ForwardOnly KeepsPromise
