CONSTANTS
  admin = admin  karma = karma  score = score
  Plugins = {admin, karma, score}
  None = None
  Id <- MCId
  Items <- MCItems
SPECIFICATION FairSpec
INVARIANTS PrefixServed ClosedUnderNone Counted
PROPERTIES StopReturns
CHECK_DEADLOCK FALSE
