\* One saga, two lanes that may hold the same job, a registry that is edited.
CONSTANTS
  NumTasks = 2
  Topic = {"t1", "t2"}
  Service = {"s1", "s2", "s3"}
  TopicOf <- MCTopicOf
  ToOf <- MCToOf
  FromOf <- MCFromOf
  TimeoutOf <- MCTimeoutOf
  Instance = {w1}
  Body = {b1}
  NoBody = NoBody
  Url = {"u1", "u2", "u3"}
  NoUrl = "none"
  RegistryFile <- MCRegistryFile
  StartupFile <- MCStartupFile
  Unreadable = Unreadable
  Lane = {l1, l2}
  Sender = {h1}
  MaxTime = 1
SPECIFICATION FairSystemSpec
INVARIANTS
  TypeOK
  ArchivedIsFinal
  EndedAccountedFor
  FailureAccountedFor
  
PROPERTIES
  EndedIsArchived
