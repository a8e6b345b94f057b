\* A visitor reads in one tab while a member posts more than the buffer holds.
SPECIFICATION FairSpec
CONSTANTS
  Members = {alice}
  Readers = {visitor}
  Tabs = {t1}
  Handlers = {h1}
  BufferMax = 2
  FloodMax = 3
  FloodWindow = 1
  FloodTimeout = 2
  MaxTime = 0
  MaxBroadcast = 3
  MaxPings = 0
PROPERTY Delivered
CHECK_DEADLOCK FALSE
