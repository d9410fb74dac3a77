\* Two sensors, the tasks of one of which change; two plans.
CONSTANTS
  camera = camera
  thermal = thermal
  a = a
  b = b
  c = c
  Sensors = {camera, thermal}
  Tasks <- SensorTasks
  Empty = empty
  Truncated = truncated
  Starting = starting
  None = none
  MaxPlans = 2
  MaxFaults = 1
SPECIFICATION FairSpec
INVARIANTS UnlockFindsMark OutdatedOnlyIfOverlapped ControlOutdatedOnlyIfMetOrCut
PROPERTIES PlanRuns
