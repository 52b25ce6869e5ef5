SPECIFICATION ChymeSpec
CONSTANTS
  sub = sub
  f = f
  g = g
  deep = deep
  Root = Root
  MaxLimit = 1
  Prefix = {Root, sub}
  Object = {f, g, deep}
  Entries <- Tree
  Page <- Tree
  Depth <- Level
  Accepted = {Root, sub, f, deep}
  Failures = {"s3", "cli", "redis"}
  Others = {g}
  Tasker = {k1}
  Task = {Root, sub, f, g, deep}
  Templated = {f, deep}
  Malformed = {}
  NoResource = NoResource
  BatchSize = 1
  Repeated = {}
  MaxIngests = 1
  MaxFaults = 1
  Faults = {"sqs", "tasks", "pop", "requeue", "crash"}
  Host = {h1}
  Message = {m1, m2}
  Receipt = {r1}
  TaskOf <- JobFor
  Unhooked = {}
  Garbled = {}
  NoMessage = NoMessage
  NoReceipt = NoReceipt
  NoHost = NoHost
  EarlyRedelivery = FALSE
  Disruptions = {}
INVARIANT OkIsKept
INVARIANT OnlySelectedIsSent
SYMMETRY Symmetry
CHECK_DEADLOCK FALSE
