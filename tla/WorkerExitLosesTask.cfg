SPECIFICATION Spec
CONSTANTS
  Host = {h1}
  Message = {m1}
  Receipt = {r1}
  Task = {t1}
  TaskOf <- SameTask
  Garbled = {}
  Unhooked = {}
  NoMessage = NoMessage
  NoReceipt = NoReceipt
  NoHost = NoHost
  EarlyRedelivery = FALSE
  Disruptions = {"signal"}
INVARIANT NoTaskVanishes
SYMMETRY Receipts
CHECK_DEADLOCK FALSE
