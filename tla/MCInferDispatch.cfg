\* Two tasks, four model processes, rings of two frames that overrun; a model
\* that may raise, broken frames and one that cannot be read: the scheduler may
\* wait for ever, or end in a drop, so the system may stop.
CONSTANTS
  TaskNum = 2
  Capacity = 2
  MaxFrames <- FirstOverruns
  Broken <- FirstBroken
  Unreadable <- ThirdUnreadable
  MayRaise <- OneRaises
  Scheduler = scheduler
  Free = free
SPECIFICATION FairSpec
INVARIANTS OneInference NoLostWakeUp DispatchedFindsFrame SchedulerSurvives
PROPERTIES NewerOnlyIfOverrun ImplementsModelCall DispatchReturns
CHECK_DEADLOCK FALSE
