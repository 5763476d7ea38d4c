\* Two instances of two tasks, due together in one batch.
CONSTANTS
  NumTasks = 2
  Topic = {"t1", "t2"}
  Service = {"s1"}
  TopicOf <- ChainTopicOf
  ToOf <- ChainToOf
  TimeoutOf <- MCTimeoutOf
  Instance = {w1, w2}
  Body = {b1}
  NoBody = NoBody
  Call = {r1}
  Reaper = {p1}
  BatchLimit = 3
  MaxResend = 0
  MaxLate = 0
  MaxTime = 2
SYMMETRY Symmetric
SPECIFICATION Spec
PROPERTIES
  BatchIsSequential
