\* Frames the small model cannot finish: refuted by method 1.
CONSTANTS
  TaskNum = 2
  Deadline <- ShortDeadline
  Profile <- ShortProfile
  PostTime <- OneUnit
  Overhead <- OneUnit
  Capacity = 2
  Methods = {1}
  Second = 2
  Infinity = 100
  MaxTime = 10
SPECIFICATION Spec
INVARIANTS HopelessNotRun
