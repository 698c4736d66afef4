SPECIFICATION Spec
CONSTANTS
  Boards = {{"BNO055"}, {"MPU6050"}, {"BNO085"}}
  InitialStill = 2
  ConjConfirm = 3
  FallbackStill = 4
  MaxGap = 2
PROPERTIES ReferenceInUse FrozenInFlight StillBoardReferenced
