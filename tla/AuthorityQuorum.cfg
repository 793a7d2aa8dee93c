SPECIFICATION Spec
CONSTANTS
  Authorities = {1, 2, 3, 4}
  Messages = {"m", "o"}
  Honest = {1, 2, 3}
INVARIANTS TypeOK OneComplete CompleteByMost
CHECK_DEADLOCK FALSE
