SPECIFICATION Spec
CONSTANTS
  p = p
  f = f
  g = g
  Client = {c1, c2}
  Prefix = {p}
  Root = Root
  Name = {f, g}
  Present <- SomePresent
  Before = Before
  Nobody = Nobody
  MaxFaults = 2
INVARIANT TypeOK
INVARIANT StoredStays
INVARIANT StoredIsSent
INVARIANT FetchedIsWhole
PROPERTY OnlyTargets
CHECK_DEADLOCK FALSE
