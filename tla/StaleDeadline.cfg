\* A deadline member that no longer belongs to a PUBLISHED task.
CONSTANTS
  NumTasks = 1
  Topic = {"t1"}
  Service = {"s1"}
  TopicOf <- OneTopicOf
  ToOf <- OneToOf
  TimeoutOf <- OneTimeoutOf
  Instance = {w1}
  Body = {b1}
  NoBody = NoBody
  Call = {r1}
  Reaper = {p1}
  BatchLimit = 1
  MaxResend = 0
  MaxLate = 0
  MaxTime = 1
SYMMETRY Symmetric
SPECIFICATION StaleSpec
PROPERTIES
  StaleDeadlineDiscarded
