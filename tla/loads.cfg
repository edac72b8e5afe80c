SPECIFICATION Spec
CONSTANTS
  p = p
  l = l
  mp = mp
  m1 = m1
  m2 = m2
  NoTask = NoTask
  NoEngine = NoEngine
  NoModel = NoModel
  Tasks = {t1, t2, t3}
  Models = {m1, m2}
  Process = {p}
  Loaders = {l}
  Jit = {}
  Owner <- MCOwner
  Position <- MCPosition
  WaitForLosesCancel = TRUE
  MaxLate = 1
SYMMETRY TaskSymmetry
VIEW LoadsView
INVARIANTS
  TypeOK
  ModelStable
PROPERTIES
  LeaseSpec
