SPECIFICATION Spec
CONSTANTS
  p1 = p1
  p2 = p2
  f = f
  g = g
  bad = bad
  host = host
  other = other
  c1 = c1
  c2 = c2
  Package = {p1, p2}
  Authority = {host, other}
  File = {f, g, bad}
  Invalid = {bad}
  Request <- MCRequest
  Caller = {c1, c2}
  Reader = {host}
  Legacy <- MCLegacy
  MaxRecords = 3
  None = None
SYMMETRY MCCallers
INVARIANTS TypeOK ReadsMatchListing BundlesDoNotMix
PROPERTIES UpgradeSparesInstallers
