SPECIFICATION Spec
CONSTANTS
  p = p
  q = q
  j = j
  mp = mp
  mq = mq
  mj = mj
  NoTask = NoTask
  NoEngine = NoEngine
  NoModel = NoModel
  Tasks = {t1}
  Models = {mp, mq, mj}
  Process = {p, q}
  Loaders = {}
  Jit = {j}
  Owner <- MCOwner
  Position <- MCPosition
  WaitForLosesCancel = TRUE
  MaxLate = 1
PROPERTIES
  SettledBeforeLaunch
