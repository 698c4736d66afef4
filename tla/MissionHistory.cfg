SPECIFICATION HSpec
CONSTANTS
  Heights <- ShortHeights
  PadHeights = {0}
  Speeds <- ShortSpeeds
  Thresholds <- ShortThresholds
  AccelSamples = {"calm", "boost"}
  LiftDeploys = {2}
  SimRequests = {}
  LaunchAccelS = 1
  ConfirmGain = 1
  ConfirmS = 1
  FreefallS = 1
  ShockBlackoutS = 1
  EvidenceS = 1
  FallbackDrop = 1
  FallbackV = 2
  FallbackS = 1
  AfterReleaseS = 1
  OpenS = 1
  TumbleS = 2
  RecoverS = 3
  PadStillV = 1
  PadStillH = 1
  AccelGapMax = 1
  StepGapMax = 2
  AgeCap = 3
INVARIANTS TumbleStopsMotors CarrierKeepsCanSat
PROPERTIES ResumeNeedsRecovery ConfirmedInTime
