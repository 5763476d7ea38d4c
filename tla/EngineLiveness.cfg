\* Two instances, a batch of one, ticks that may fail.
CONSTANTS
  NumTasks = 1
  Topic = {"t1"}
  Service = {"s1"}
  TopicOf <- OneTopicOf
  ToOf <- OneToOf
  TimeoutOf <- OneTimeoutOf
  Instance = {w1, w2}
  Body = {b1}
  NoBody = NoBody
  Call = {r1}
  Reaper = {p1}
  BatchLimit = 1
  MaxResend = 0
  MaxLate = 0
  MaxTime = 2
SPECIFICATION FairSpec
PROPERTIES
  DeadlineResolved
