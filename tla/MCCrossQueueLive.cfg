\* Liveness: one consumer of each kind, contending for the rear semaphore.
CONSTANTS
  c1 = c1
  c2 = c2
  Consumers = {c1, c2}
  Unlocked = {c2}
  Producer = producer
  Free = free
  L = 3
  MaxPuts = 4
  Malformed <- Two
  Unreadable <- One
SPECIFICATION FairSpec
PROPERTIES PutReturns GetTakesFrame
\* Every process may have ended in an exception, or wait for the semaphore of
\* one that has.
CHECK_DEADLOCK FALSE
