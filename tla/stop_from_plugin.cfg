CONSTANTS
  cmd1 = cmd1  cmd2 = cmd2  typo = typo  ask1 = ask1  ask2 = ask2
  hook = hook  lost = lost  modal = modal  stale = stale
  echo = echo  admin = admin  auth = auth
  Main = Main  Nobody = Nobody  Nothing = Nothing
  Requests = {modal}
  Workers = {admin}
  Quitters = {}
  Stoppers = {admin}
  Kind <- MCKind
  Target <- MCTarget
SPECIFICATION FairSpec
PROPERTY StopCloses
CHECK_DEADLOCK FALSE
