\* Each of the parts that route a request, one at a time.
CONSTANTS
  e1 = e1
  e2 = e2
  a1 = a1
  s = s
  m = m
  c = c
  x = x
  d = d
  u = u
  Order <- ThreeEngines
  ApiEngines = {a1}
  Discovering = {e2}
  Static <- OneStatic
  Served <- NoServed
  StartCmd <- OneStartCmd
  Aliases <- TwoAliases
  NoOwner = NoOwner
  MayList <- Listable
  MayTag <- Taggable
  small = small
  large = large
  other = other
  ByName <- ThreeByName
  Home <- Homes
  NoEngine = NoEngine
  Margin = 2
  MaxFallbacks = 1
  Views <- AllViews
  Models = {small, other}
  Requests = {r1, r2}
  Threshold = 2
  Plans <- PlansGiven
  ConfiguredMode = "smart"
  Callers = {k1, k2}
  Ttl = 3
  Amounts = {0, 1, 2, 3, 5}
  Rise = 2
  MaxSamples = 4
  Commands <- ShortCommands
  NoValue = NoValue
  Targets = {small, other}
  Below <- Policies
  Budgets = {0, 1, 2}
  Attempts <- Tried
  Offered <- ThreeOffered
  Instance <- Instances
  Spellings = {small, other}
  Canonical <- OwnNames
  Registered <- TwoProviders
  Networked = {"fetcher"}
  AllowNetwork = TRUE
  Dependable = {"builtin-priors"}
  Confidence <- Sureness
  Lifetimes = {0, 1}
  MaxAge = 2
  SwapEngines = {e1, e2}
  Nowhere = NoEngine
  Bounds <- TwoBuckets
  StartEstimate <- StartEstimates
  MaxSwaps = 2
  MaxTicks = 2
  Runs = {"first", "second"}
  Others = {"request"}
  Subject <- Measured
  ServedBy <- Homes
  LeaseEngines = {e1, e2}
  NoLease = NoEngine
  Probes = 2
SPECIFICATION AnySpec
SYMMETRY Alike
INVARIANTS
  RoutesAgree
  NeverStarves
  PlanAvoidsCooled
  SwapsAreWorthIt
  StrikesHold
  ServedTagsAge
  SettleExact
  ParserExact
  BodiesAreClients
  ListingIsTruth
  BenchmarksAreCurrent
  SwapsAddUp
  CostsMeasured
  RunsHoldCounts
  RecordsAreWhole
PROPERTIES
  NeverForgets
  OwnerSurvivesRestart
