SPECIFICATION Spec
CONSTANTS
  p = p
  q = q
  j = j
  mp = mp
  mq = mq
  mj = mj
  NoTask = NoTask
  NoEngine = NoEngine
  NoModel = NoModel
  Tasks = {t1, t2, t3}
  Models = {mp, mj}
  Process = {p, q}
  Loaders = {}
  Jit = {j}
  Owner <- MCOwner
  Position <- MCPosition
  WaitForLosesCancel = TRUE
  MaxLate = 1
SYMMETRY TaskSymmetry
VIEW SwapsView
INVARIANTS
  InflightExact
  ServedAlone
  StartsAlone
  ActiveWasReady
PROPERTIES
  TakesAlone
