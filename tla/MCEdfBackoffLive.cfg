\* Liveness. Second is out of reach: there the clock, bounded here, moves on.
CONSTANTS
  TaskNum = 2
  Deadline <- TinyDeadline
  Profile <- ShortProfile
  PostTime <- OneUnit
  Overhead <- OneUnit
  Capacity = 2
  Methods = {1}
  Second = 50
  Infinity = 100
  MaxTime = 5
SPECIFICATION FairSpec
PROPERTIES FramesLeave
