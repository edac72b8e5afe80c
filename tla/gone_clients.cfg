SPECIFICATION FairSpec
CONSTANTS
  sse = sse
  api = api
  json = json
  a = a
  b = b
  ea = ea
  eb = eb
  NoEngine = NoEngine
  Requests = {api}
  Sse = {}
  Ndjson = {api}
  Plain = {}
  Smart = {api}
  Engines = {ea, eb}
  Plan <- MCPlan
  Owner <- MCOwner
  WaitForLosesCancel = TRUE
PROPERTIES
  GoneLetsGo
