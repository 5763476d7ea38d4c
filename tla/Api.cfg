\* The probes while the loops run, hang and start; every request.
CONSTANTS
  Loop = {"reaper", "webhook"}
  Parallel <- MCParallel
  Interval = 1
  CallLimit = 2
  JobTimeout = 2
  StallTimeout = 4
  MaxBatch = 3
  listDefaultLimit = 2
  listMaxLimit = 5
  Number <- MCNumber
SPECIFICATION MCSpec
INVARIANTS
  RunningNeverStalled
  ProbesTellLoopsFromStores
  GuardedByKey
  CorsOnEveryAnswer
  
  RecordedAsAnswered
  PageAsAsked
PROPERTIES
  HungReported
