SPECIFICATION Spec
CONSTANTS
  MaxPayload = 1
  QueueLength = 2
  Tuned = {"d"}
  Typed = {310}
  EarlySends = 1
INVARIANTS SettingsComplete GainsAsSaved
PROPERTIES WholeLines FramesAnswered FlushReturns
