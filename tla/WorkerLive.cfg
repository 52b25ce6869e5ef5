SPECIFICATION LiveSpec
CONSTANTS
  Host = {h1}
  Message = {m1}
  Receipt = {r1, r2}
  Task = {t1}
  TaskOf <- SameTask
  Garbled = {}
  Unhooked = {}
  NoMessage = NoMessage
  NoReceipt = NoReceipt
  NoHost = NoHost
  EarlyRedelivery = FALSE
  Disruptions = {"sqs"}
PROPERTY AttemptsEnd
PROPERTY EventuallySettled
CHECK_DEADLOCK FALSE
