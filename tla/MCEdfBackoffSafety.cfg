\* Method 1, as in the code, and the two alternatives.
CONSTANTS
  TaskNum = 2
  Deadline <- ShortDeadline
  Profile <- ShortProfile
  PostTime <- OneUnit
  Overhead <- OneUnit
  Capacity = 2
  Methods = {1, 2, 3}
  Second = 2
  Infinity = 100
  MaxTime = 9
SPECIFICATION Spec
INVARIANTS OneLiveFrame EarliestDeadlineFirst FullIsOnTime BackoffKeepsNext
PROPERTIES NoLiveFrameLost
