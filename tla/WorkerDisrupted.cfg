SPECIFICATION Spec
CONSTANTS
  Host = {h1}
  Message = {m1}
  Receipt = {r1, r2}
  Task = {t1}
  TaskOf <- SameTask
  Garbled = {}
  Unhooked = {}
  NoMessage = NoMessage
  NoReceipt = NoReceipt
  NoHost = NoHost
  EarlyRedelivery = TRUE
  Disruptions = {"signal", "crash", "panic", "sqs"}
INVARIANT TypeOK
INVARIANT NoSilentLoss
INVARIANT DeadLetterExclusive
INVARIANT InProcessTracksGoroutines
SYMMETRY Receipts
CHECK_DEADLOCK FALSE
