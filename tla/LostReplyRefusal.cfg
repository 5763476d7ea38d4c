\* A call that is re-sent after it has run.
CONSTANTS
  NumTasks = 1
  Topic = {"t1"}
  Service = {"s1"}
  TopicOf <- OneTopicOf
  ToOf <- OneToOf
  TimeoutOf <- OneTimeoutOf
  Instance = {w1}
  Body = {b1}
  NoBody = NoBody
  Call = {r1}
  Reaper = {p1}
  BatchLimit = 1
  MaxResend = 1
  MaxLate = 1
  MaxTime = 1
SYMMETRY Symmetric
SPECIFICATION Spec
PROPERTIES
  RefusalMeansUnchanged
