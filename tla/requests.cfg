SPECIFICATION Spec
CONSTANTS
  sse = sse
  api = api
  json = json
  a = a
  b = b
  ea = ea
  eb = eb
  NoEngine = NoEngine
  Requests = {sse, json}
  Sse = {sse}
  Ndjson = {}
  Plain = {json}
  Smart = {sse, json}
  Engines = {ea, eb}
  Plan <- MCPlan
  Owner <- MCOwner
  WaitForLosesCancel = TRUE
INVARIANTS
  TypeOK
  CountsAreHeld
  RelaysUnderLease
  WellTerminated
PROPERTIES
  NoRetryAfterBytes
