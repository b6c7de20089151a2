SPECIFICATION TestSpec
CONSTANTS
  Size = 4
  Byte = {0, 1}
INVARIANTS AllReadIsEmpty
