SPECIFICATION LiveSpec
CONSTANTS
  a = a
  big = big
  deep = deep
  side = side
  f = f
  g = g
  h = h
  i = i
  j = j
  k = k
  Root = Root
  MaxLimit = 4
  Prefix = {Root, a, big, deep, side}
  Object = {f, g, h, i, j, k}
  Entries <- Tree
  Page <- FirstPage
  Depth <- Level
  Accepted = {Root, a, big, deep, side, f, h, i, j, k}
  Failures = {"s3", "cli", "redis"}
INVARIANT TypeOK
INVARIANT OnlyWanted
INVARIANT OkMeansIndexed
PROPERTY ImplementsIngestion
PROPERTY EveryRequestIsAnswered
CHECK_DEADLOCK FALSE
