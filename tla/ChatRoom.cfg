\* One member with two tabs, and two threads that take posts; the buffer holds two broadcasts,
\* the window two ticks.
SPECIFICATION FairSpec
CONSTANTS
  Members = {alice}
  Readers = {alice}
  Tabs = {t1, t2}
  Handlers = {h1, h2}
  BufferMax = 2
  FloodMax = 1
  FloodWindow = 2
  FloodTimeout = 2
  MaxTime = 2
  MaxBroadcast = 3
  MaxPings = 1
CONSTRAINT Bounds
INVARIANTS TypeOK PresentMeansConnected FloodInTurn
 
CHECK_DEADLOCK FALSE
