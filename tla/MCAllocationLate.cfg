\* Late by the link: refuted.
CONSTANTS
  Node = {1, 2, 3}
  TaskNum = 6
  Profile <- Files
  CommTime <- LineTime
  Nowhere = nowhere
  Scale = 1000
SPECIFICATION Spec
INVARIANTS MeetsDeadline
CHECK_DEADLOCK FALSE
