SPECIFICATION LiveSpec
CONSTANTS
  Tasker = {k1, k2}
  Resource = {a, b, x}
  Templated = {a, b}
  Malformed = {}
  NoResource = NoResource
  BatchSize = 2
  Repeated = {a}
  MaxIngests = 2
  MaxFaults = 2
  Faults = {"sqs", "tasks", "pop", "requeue", "crash"}
INVARIANT TypeOK
INVARIANT RecordedWasSent
INVARIANT DuplicatesNeedFaults
INVARIANT Conserved
INVARIANT SentIsRecorded
PROPERTY EveryIngestIsEnqueued
CHECK_DEADLOCK FALSE
