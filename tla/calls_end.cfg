SPECIFICATION FairSpec
CONSTANTS
  p = p
  l = l
  mp = mp
  m1 = m1
  m2 = m2
  NoTask = NoTask
  NoEngine = NoEngine
  NoModel = NoModel
  Tasks = {t1, t2}
  Models = {mp, m1}
  Process = {p}
  Loaders = {l}
  Jit = {}
  Owner <- MCOwner
  Position <- MCPosition
  WaitForLosesCancel = FALSE
  MaxLate = 1
PROPERTIES
  CallsEnd
