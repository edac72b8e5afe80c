\* Starts and stops of one engine of each kind: a process engine of three processes at
\* most with every process_pattern, ds4 of two under either control, a service with two
\* models, with and without probes and unload requests.
CONSTANTS
  Pids = {p1, p2, p3}
  Ds4Pids = {p1, p2}
  Nobody = Nobody
  Models = {m1, m2}
  NoModel = NoModel
SPECIFICATION AnySpec
INVARIANTS
  NeverTwice
  FreedStaysFree
  FreedStaysEmpty
PROPERTIES
  FreedIsFree
  FrozenIsKilled
  LingererIsKilled
  CallsReturn
