\* One instance whose two tasks share a topic: two handlers race each
\* other and the reaper.
CONSTANTS
  NumTasks = 2
  Topic = {"t1"}
  Service = {"s1", "s2"}
  TopicOf <- FanTopicOf
  ToOf <- FanToOf
  TimeoutOf <- MCTimeoutOf
  Instance = {w1}
  Body = {b1, b2}
  NoBody = NoBody
  Call = {r1, r2}
  Reaper = {p1}
  BatchLimit = 2
  MaxResend = 0
  MaxLate = 0
  MaxTime = 2
SYMMETRY Symmetric
SPECIFICATION Spec
INVARIANTS
  TypeOK
  DeadlineExact
  InstanceMatchesTasks
  JobsMatchEnding
  TopicMovesTogether
  PayloadPresent
  AnswersStayTrue
PROPERTIES
  TerminalFrozen
  ReapedOnlyOverdue
