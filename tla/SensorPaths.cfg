SPECIFICATION SensorSpec
CONSTANTS
  Top = 3
  MaxGap = 2
  SigmasPerUnit = 5
  MaxRate = 1
  Believed = 4
  ResyncAfter = 3
  ResyncSamples = 2
  ClipHold = 1
  FixTimeout = 1
  SiteTime = 2
  MaxLost = 1
  MaxResets = 1
INVARIANTS HeldIsBounded IsolatedGlitchesHarmless GhostsAreFew StaleSteeringEnds
PROPERTIES PadLearnsSite
