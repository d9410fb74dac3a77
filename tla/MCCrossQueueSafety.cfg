\* A consumer with InferQueue.get beside one with CrossQueue.get, on a ring of
\* three slots that the producer laps.
CONSTANTS
  c1 = c1
  c2 = c2
  Consumers = {c1, c2}
  Unlocked = {c2}
  Producer = producer
  Free = free
  L = 3
  MaxPuts = 5
  Malformed <- Two
  Unreadable <- Three
SPECIFICATION Spec
INVARIANTS NoTornFrame FoundFrameStays NoCircularWait TopKeepsSizesPromise RawPairsLapsApart
PROPERTIES ImplementsFrameQueue
\* Every process may have ended in an exception, or wait for the semaphore of
\* one that has.
CHECK_DEADLOCK FALSE
