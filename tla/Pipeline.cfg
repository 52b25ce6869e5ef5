SPECIFICATION PipelineSpec
CONSTANTS
  Tasker = {k1}
  Task = {a}
  Templated = {a}
  Malformed = {}
  NoResource = NoResource
  BatchSize = 1
  Repeated = {a}
  MaxIngests = 1
  MaxFaults = 1
  Faults = {"sqs", "tasks", "pop", "requeue", "crash"}
  Host = {h1}
  Message = {m1, m2}
  Receipt = {r1, r2}
  TaskOf <- OneJob
  Unhooked = {}
  Garbled = {}
  NoMessage = NoMessage
  NoReceipt = NoReceipt
  NoHost = NoHost
  EarlyRedelivery = FALSE
  Disruptions = {"crash"}
INVARIANT NoOverlap
INVARIANT OverlapHasCause
PROPERTY ImplementsDelivery
SYMMETRY Symmetry
CHECK_DEADLOCK FALSE
