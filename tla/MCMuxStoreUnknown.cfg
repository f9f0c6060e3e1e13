\* One session, one window; an event about a terminal the store does not know
\* yet arrives before the listing that was answered first.
SPECIFICATION MuxStoreSpec
CONSTANTS
  Sessions = {1}
  MaxTab = 1
  Terms = {1}
  MaxChanges = 1
  MaxDrops = 0
  MaxAsks = 0
  Unordered = {"unknown"}
INVARIANTS StoreAgrees
CHECK_DEADLOCK FALSE
