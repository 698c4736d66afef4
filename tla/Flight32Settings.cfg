SPECIFICATION SettingsSpec
CONSTANTS
  ImuAnswers = TRUE
  Words = {"PPM", "NONE", "LPF_98HZ"}
  Numbers = {1126, 7000}
  MaxEdits = 2
INVARIANTS
  RestoreKeeps
  ViewsAgree
PROPERTIES
  HaltedOnlyIfTold
