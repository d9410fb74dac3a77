CONSTANTS
  c1 = c1
  sub = sub
  free = free
  Consumer = {c1}
  Producer = sub
  Free = free
  Length = 2
  MayBreak = {0}
  MaxProducer = 2
  MaxConsumer = 2
SPECIFICATION FairSpec
INVARIANTS RingOrNone LeftTakenOnlyIfSpoilt
PROPERTIES RaisesOnlyIfRemadeOrBroken WorkingConsumerTakes
CHECK_DEADLOCK FALSE
