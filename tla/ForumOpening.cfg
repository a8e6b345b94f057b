\* One member and one worker thread are enough: a thread's opening post is deleted.
SPECIFICATION Spec
CONSTANTS
  Members = {ann}
  Admins = {ann}
  Handlers = {h1}
  WatchAll = {}
  Watchers = {}
  Quotes = {0}
  Flags = {}
  MaxThreads = 1
  MaxPosts = 2
INVARIANT RepliesCounted
CHECK_DEADLOCK FALSE
