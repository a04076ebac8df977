SPECIFICATION Spec
CONSTANTS
  Services = 2
  Attempts = 3
  Discoverers = {d1, d2, d3, d4, d5, d6}
  Items = {i1}
  Starts = {s1, s2}
  None = None
INVARIANTS TypeOK ListedAreServed ListFollowsNetwork DiscoveryFollowsStart
PROPERTY DiscoveryCompletes
