\* Every list of six tasks, in every order of priorities.  It ends.
CONSTANTS
  Node = {1, 2, 3}
  TaskNum = 6
  Profile <- Files
  CommTime <- LineTime
  Nowhere = nowhere
  Scale = 1000
SPECIFICATION Spec
INVARIANTS LateByLinkOnly LeftOutByMoreUrgent LeftOutFitsNowhere
CHECK_DEADLOCK FALSE
