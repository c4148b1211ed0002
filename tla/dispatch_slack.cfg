CONSTANTS
  cmd1 = cmd1  cmd2 = cmd2  typo = typo  ask1 = ask1  ask2 = ask2
  hook = hook  lost = lost  modal = modal  stale = stale
  echo = echo  admin = admin  auth = auth
  Main = Main  Nobody = Nobody  Nothing = Nothing
  Requests = {cmd1, cmd2, ask1, modal}
  Workers = {echo, admin}
  Quitters = {echo}
  Stoppers = {admin}
  Kind <- MCKind
  Target <- MCTarget
SPECIFICATION Spec
INVARIANTS TakenOnce ReplyAwaited ClosedAfterDrain
PROPERTIES NoRecovery ImplementsService
CHECK_DEADLOCK FALSE
