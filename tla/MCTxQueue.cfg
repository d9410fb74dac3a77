\* libroad_tx, with its packet thread and its result thread: a small queue,
\* and ids that wrap several times.
CONSTANTS
  Source = source
  Results = {result}
  Sender = sender
  MaxQueue = 2
  IdMod = 5
SPECIFICATION LiveSpec
INVARIANTS NoLostWakeUp PacketsInOrder NewestResultPending
PROPERTIES PacketsGoOut
\* The program may end.
CHECK_DEADLOCK FALSE
