SPECIFICATION LivePipeline
CONSTANTS
  Tasker = {k1}
  Task = {a}
  Templated = {a}
  Malformed = {}
  NoResource = NoResource
  BatchSize = 1
  Repeated = {a}
  MaxIngests = 1
  MaxFaults = 0
  Faults = {}
  Host = {h1}
  Message = {m1}
  Receipt = {r1, r2}
  TaskOf <- OneJob
  Unhooked = {}
  Garbled = {}
  NoMessage = NoMessage
  NoReceipt = NoReceipt
  NoHost = NoHost
  EarlyRedelivery = FALSE
  Disruptions = {"crash"}
PROPERTY EveryIngestIsAnswered
CHECK_DEADLOCK FALSE
