CONSTANTS
  cmd1 = cmd1  cmd2 = cmd2  typo = typo  ask1 = ask1  ask2 = ask2
  hook = hook  lost = lost  modal = modal  stale = stale
  echo = echo  admin = admin  auth = auth
  Main = Main  Nobody = Nobody  Nothing = Nothing
  Requests = {cmd1, hook, lost, stale}
  Workers = {echo, auth}
  Quitters = {echo}
  Stoppers = {echo}
  Kind <- MCKind
  Target <- MCTarget
SPECIFICATION FairSpec
PROPERTIES NoOtherHang AcceptedReturns StopCompletes
CHECK_DEADLOCK FALSE
