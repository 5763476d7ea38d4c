\* One handler whose script calls time out, are re-sent, and may run after
\* the handler has given up on them.
CONSTANTS
  NumTasks = 2
  Topic = {"t1"}
  Service = {"s1", "s2"}
  TopicOf <- FanTopicOf
  ToOf <- FanToOf
  TimeoutOf <- MCTimeoutOf
  Instance = {w1}
  Body = {b1}
  NoBody = NoBody
  Call = {r1}
  Reaper = {p1}
  BatchLimit = 2
  MaxResend = 1
  MaxLate = 1
  MaxTime = 1
SYMMETRY Symmetric
SPECIFICATION Spec
INVARIANTS
  AnswersStayTrue
PROPERTIES
  ImplementsContract
