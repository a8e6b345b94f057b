\* Two members, one of them an administrator, and two worker threads; ids come back.
SPECIFICATION Spec
CONSTANTS
  Members = {ann, bob}
  Admins = {ann}
  Handlers = {h1, h2}
  WatchAll = {ann}
  Watchers = {bob}
  Quotes = {1}
  Flags = {"locked"}
  MaxThreads = 2
  MaxPosts = 2
SYMMETRY HandlerSymmetry
INVARIANTS TypeOK CountMatches ToldOnce
CHECK_DEADLOCK FALSE
